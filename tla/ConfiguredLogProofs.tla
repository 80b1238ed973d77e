------------------------ MODULE ConfiguredLogProofs ------------------------
(***************************************************************************)
(* What a configured log is, for every configuration file and command line, *)
(* every table entry and every attitude of the hub: ConfiguredInv is       *)
(* inductive, and the four invariants of ConfiguredLog follow from it.     *)
(*                                                                         *)
(*   Frames, Periods   the change of frame and the period of a rate;       *)
(*   Induction ...     what FlattenSeq and Sorted make, by induction over  *)
(*                     sets of numbers;                                    *)
(*   The invariant     ConfiguredInv, a conjunct for each concern, and for *)
(*                     each conjunct what a step does to it;               *)
(*   Samples           the parts of a sample against the columns of its    *)
(*                     channel, sensor by sensor;                          *)
(*   One frame         a vector turned by the attitude of the same log.    *)
(***************************************************************************)
EXTENDS ConfiguredLog, SequenceTheorems, FiniteSetTheorems, WellFoundedInduction, TLAPS

Vectors     == Int \X Int \X Int
Quaternions == Int \X Int \X Int \X Int

-----------------------------------------------------------------------------
(* Frames.                                                                 *)

\* The three coordinates of a vector that is turned, with north and east
\* exchanged and the vertical turned over in the one way and in the other.
LEMMA Coordinates ==
    ASSUME NEW a \in Int, NEW b \in Int, NEW c \in Int, NEW d \in Int,
           NEW x \in Int, NEW y \in Int, NEW z \in Int
    PROVE  /\ (a*a + c*c - b*b - (-d)*(-d)) * y + 2*(c*b - a*(-d)) * x + 2*(c*(-d) + a*b) * (-z)
                 = 2*(b*c + a*d) * x + (a*a - b*b + c*c - d*d) * y + 2*(c*d - a*b) * z
           /\ 2*(c*b + a*(-d)) * y + (a*a - c*c + b*b - (-d)*(-d)) * x + 2*(b*(-d) - a*c) * (-z)
                 = (a*a + b*b - c*c - d*d) * x + 2*(b*c - a*d) * y + 2*(b*d + a*c) * z
           /\ 2*(c*(-d) - a*b) * y + 2*(b*(-d) + a*c) * x + (a*a - c*c - b*b + (-d)*(-d)) * (-z)
                 = -(2*(b*d - a*c) * x + 2*(c*d + a*b) * y + (a*a - b*b - c*c + d*d) * z)
  <1>1. (a*a + c*c - b*b - (-d)*(-d)) * y + 2*(c*b - a*(-d)) * x + 2*(c*(-d) + a*b) * (-z)
           = 2*(b*c + a*d) * x + (a*a - b*b + c*c - d*d) * y + 2*(c*d - a*b) * z
    OBVIOUS
  <1>2. 2*(c*b + a*(-d)) * y + (a*a - c*c + b*b - (-d)*(-d)) * x + 2*(b*(-d) - a*c) * (-z)
           = (a*a + b*b - c*c - d*d) * x + 2*(b*c - a*d) * y + 2*(b*d + a*c) * z
    OBVIOUS
  <1>3. 2*(c*(-d) - a*b) * y + 2*(b*(-d) + a*c) * x + (a*a - c*c - b*b + (-d)*(-d)) * (-z)
           = -(2*(b*d - a*c) * x + 2*(c*d + a*b) * y + (a*a - b*b - c*c + d*d) * z)
    OBVIOUS
  <1> QED
    BY <1>1, <1>2, <1>3

\* Turning a vector and then writing it in NED, or writing attitude and vector
\* in NED and then turning the one by the other, is the same: what a reader of
\* the log computes from its columns is what the hub would have computed from
\* its own values.
THEOREM FramesAgree ==
    ASSUME NEW q \in Quaternions, NEW v \in Vectors
    PROVE  Rotate(RotationToNed(q), VectorToNed(v)) = VectorToNed(Rotate(q, v))
  <1>1. PICK a \in Int, b \in Int, c \in Int, d \in Int : q = <<a, b, c, d>>
    BY DEF Quaternions
  <1>2. PICK x \in Int, y \in Int, z \in Int : v = <<x, y, z>>
    BY DEF Vectors
  <1>3. RotationToNed(q) = <<a, c, b, -d>> /\ VectorToNed(v) = <<y, x, -z>>
    BY <1>1, <1>2 DEF RotationToNed, VectorToNed
  <1>4. Rotate(RotationToNed(q), VectorToNed(v))
           = <<(a*a + c*c - b*b - (-d)*(-d)) * y + 2*(c*b - a*(-d)) * x + 2*(c*(-d) + a*b) * (-z),
               2*(c*b + a*(-d)) * y + (a*a - c*c + b*b - (-d)*(-d)) * x + 2*(b*(-d) - a*c) * (-z),
               2*(c*(-d) - a*b) * y + 2*(b*(-d) + a*c) * x + (a*a - c*c - b*b + (-d)*(-d)) * (-z)>>
    <2>1. PICK e \in Int : e = -d
      OBVIOUS
    <2>2. PICK u \in Int : u = -z
      OBVIOUS
    <2>3. Rotate(<<a, c, b, e>>, <<y, x, u>>)
             = <<(a*a + c*c - b*b - e*e) * y + 2*(c*b - a*e) * x + 2*(c*e + a*b) * u,
                 2*(c*b + a*e) * y + (a*a - c*c + b*b - e*e) * x + 2*(b*e - a*c) * u,
                 2*(c*e - a*b) * y + 2*(b*e + a*c) * x + (a*a - c*c - b*b + e*e) * u>>
      BY DEF Rotate
    <2> QED
      BY <1>3, <2>1, <2>2, <2>3, Zenon
  <1>5. Rotate(q, v)
           = <<(a*a + b*b - c*c - d*d) * x + 2*(b*c - a*d) * y + 2*(b*d + a*c) * z,
               2*(b*c + a*d) * x + (a*a - b*b + c*c - d*d) * y + 2*(c*d - a*b) * z,
               2*(b*d - a*c) * x + 2*(c*d + a*b) * y + (a*a - b*b - c*c + d*d) * z>>
    <2>1. Rotate(<<a, b, c, d>>, <<x, y, z>>)
             = <<(a*a + b*b - c*c - d*d) * x + 2*(b*c - a*d) * y + 2*(b*d + a*c) * z,
                 2*(b*c + a*d) * x + (a*a - b*b + c*c - d*d) * y + 2*(c*d - a*b) * z,
                 2*(b*d - a*c) * x + 2*(c*d + a*b) * y + (a*a - b*b - c*c + d*d) * z>>
      BY DEF Rotate
    <2> QED
      BY <1>1, <1>2, <2>1, Zenon
  <1>6. VectorToNed(Rotate(q, v))
           = <<2*(b*c + a*d) * x + (a*a - b*b + c*c - d*d) * y + 2*(c*d - a*b) * z,
               (a*a + b*b - c*c - d*d) * x + 2*(b*c - a*d) * y + 2*(b*d + a*c) * z,
               -(2*(b*d - a*c) * x + 2*(c*d + a*b) * y + (a*a - b*b - c*c + d*d) * z)>>
    BY <1>5 DEF VectorToNed
  <1> QED
    BY <1>4, <1>6, Coordinates

-----------------------------------------------------------------------------
(* Periods.                                                                *)

\* A number is between its quotient and the next, times the divisor.
LEMMA Quotient ==
    ASSUME NEW a \in Nat, NEW b \in Nat \ {0}
    PROVE  a \div b \in Nat /\ b * (a \div b) <= a /\ a < b * (a \div b) + b
  OBVIOUS

\* The period that Period answers is the one nearest to its rate: to add half a
\* unit and to cut off is to round.
LEMMA NearestPeriods ==
    ASSUME NEW num \in Nat \ {0}, NEW den \in Nat \ {0}
    PROVE  Period(Number(num, den)) \in Nat /\ Nearest(Period(Number(num, den)), Number(num, den))
  <1> DEFINE p    == Period(Number(num, den))
             goal == Second * den
             near == p * num
  <1>1. Second \in Nat /\ goal \in Nat
    BY UnitAssumption
  <1>2. p = (2 * Second * den + num) \div (2 * num)
    BY DEF Period, Number
  <1>3. 2 * Second * den = 2 * goal /\ 2 * goal + num \in Nat /\ 2 * num \in Nat \ {0}
    BY <1>1
  <1>4. p \in Nat /\ (2 * num) * p <= 2 * goal + num /\ 2 * goal + num < (2 * num) * p + 2 * num
    BY <1>2, <1>3, Quotient
  <1>5. near \in Nat /\ (2 * num) * p = 2 * near
    BY <1>4
  <1>6. (p + 1) * num = near + num /\ (p - 1) * num = near - num
    BY <1>4
  <1> HIDE DEF p, goal, near
  <1>7. 2 * near <= 2 * goal + num /\ 2 * goal < 2 * near + num
    BY <1>1, <1>4, <1>5
  <1>8. /\ Distance(near, goal) <= Distance(near + num, goal)
        /\ Distance(near, goal) <= Distance(near - num, goal)
    BY <1>1, <1>5, <1>7 DEF Distance
  <1>9. Nearest(p, Number(num, den))
    BY <1>6, <1>8 DEF Nearest, Number, near, goal
  <1> QED
    BY <1>4, <1>9 DEF p

\* Rounded answers a whole number that is not further than a half from the
\* fraction.
LEMMA RoundedTo ==
    ASSUME NEW num \in Nat, NEW den \in Nat \ {0}
    PROVE  /\ Rounded(num, den) \in Nat
           /\ 2 * Distance(Rounded(num, den) * den, num) <= den
  <1> DEFINE a  == 2 * num + den
             b  == 2 * den
             up == a \div b
  <1>1. a \in Nat /\ b \in Nat \ {0}
    OBVIOUS
  <1>2. up \in Nat /\ b * up <= a /\ a < b * up + b
    <2> HIDE DEF a, b
    <2> QED
      BY <1>1, Quotient
  <1>3. a = b * up + (a % b)
    BY <1>1
  <1>4. b * up = 2 * (up * den)
    BY <1>2
  <1>5. up * den \in Nat /\ (up - 1) * den = up * den - den
    BY <1>2
  <1>6. Rounded(num, den) = IF a % b = 0 /\ up % 2 = 1 THEN up - 1 ELSE up
    BY Zenon DEF Rounded
  <1> HIDE DEF up
  <1>7. CASE a % b = 0 /\ up % 2 = 1
    <2>1. up - 1 \in Nat
      BY <1>2, <1>7
    <2>2. 2 * (up * den) = 2 * num + den
      <3>1. b * up = a
        <4> HIDE DEF a, b
        <4> QED
          BY <1>1, <1>2, <1>3, <1>7
      <3> QED
        BY <1>4, <3>1
    <2>3. 2 * Distance(up * den - den, num) <= den
      BY <1>5, <2>2 DEF Distance
    <2> QED
      BY <1>5, <1>6, <1>7, <2>1, <2>3
  <1>8. CASE ~(a % b = 0 /\ up % 2 = 1)
    <2>1. 2 * (up * den) <= 2 * num + den /\ 2 * num + den < 2 * (up * den) + 2 * den
      BY <1>2, <1>4
    <2>2. 2 * Distance(up * den, num) <= den
      BY <1>5, <2>1 DEF Distance
    <2> QED
      BY <1>2, <1>6, <1>8, <2>2
  <1> QED
    BY <1>7, <1>8

-----------------------------------------------------------------------------
(* Induction, over sets of numbers.                                        *)

\* A set of numbers that is not empty has a least one.
LEMMA LeastNumber ==
    ASSUME NEW T \in SUBSET Nat, T # {}
    PROVE  \E n \in T : \A m \in T : n <= m
  <1>1. PICK n \in T : \A m \in T : ~(<<m, n>> \in OpToRel(<, Nat))
    BY NatLessThanWellFounded, WFMin, Zenon
  <1>2. ASSUME NEW m \in T
        PROVE  n <= m
    <2>1. m < n => <<m, n>> \in OpToRel(<, Nat)
      BY DEF OpToRel
    <2>2. ~(m < n)
      BY <1>1, <2>1, Zenon
    <2> QED
      BY <2>2
  <1> QED
    BY <1>2

\* Induction over the numbers, stated with a set.
LEMMA Induction ==
    ASSUME NEW S, 0 \in S, \A n \in Nat : n \in S => n + 1 \in S
    PROVE  \A n \in Nat : n \in S
  <1> SUFFICES ASSUME Nat \ S # {} PROVE FALSE
    OBVIOUS
  <1>0. Nat \ S \in SUBSET Nat
    OBVIOUS
  <1>1. PICK n \in Nat \ S : \A m \in Nat \ S : n <= m
    BY <1>0, LeastNumber, Zenon
  <1>2. n # 0 /\ n - 1 \in Nat
    OBVIOUS
  <1>3. n - 1 \in S
    BY <1>1, <1>2
  <1> QED
    BY <1>2, <1>3

-----------------------------------------------------------------------------
(* Sequences that are joined.                                              *)

\* The recursion of FlattenSeq, up to the n-th sequence.
IsFlat(f, seqs, n) ==
    f = [i \in 1 .. n |-> IF i = 1 THEN seqs[i] ELSE f[i - 1] \o seqs[i]]

\* The recursive function of FlattenSeq exists: it is built from its beginning.
LEMMA Flat ==
    ASSUME NEW seqs, NEW n \in Nat
    PROVE  \E f : IsFlat(f, seqs, n)
  <1> DEFINE S == {m \in Nat : \E f : IsFlat(f, seqs, m)}
  <1>1. 0 \in S
    <2> DEFINE f == [i \in 1 .. 0 |-> seqs[i]]
    <2>1. IsFlat(f, seqs, 0)
      BY DEF IsFlat
    <2> QED
      BY <2>1
  <1>2. ASSUME NEW m \in Nat, m \in S
        PROVE  m + 1 \in S
    <2>1. PICK f : IsFlat(f, seqs, m)
      BY <1>2
    <2> DEFINE last == IF m = 0 THEN seqs[1] ELSE f[m] \o seqs[m + 1]
               g    == [i \in 1 .. m + 1 |-> IF i = m + 1 THEN last ELSE f[i]]
    <2>2. \A i \in 1 .. m : f[i] = IF i = 1 THEN seqs[i] ELSE f[i - 1] \o seqs[i]
      <3>1. f = [i \in 1 .. m |-> IF i = 1 THEN seqs[i] ELSE f[i - 1] \o seqs[i]]
        BY <2>1, Zenon DEF IsFlat
      <3> QED
        BY <3>1, Zenon
    <2>3. ASSUME NEW i \in 1 .. m + 1
          PROVE  g[i] = IF i = 1 THEN seqs[i] ELSE g[i - 1] \o seqs[i]
      <3>1. CASE i = m + 1
        <4>1. g[i] = last /\ i - 1 = m
          BY <3>1
        <4>2. i = 1 <=> m = 0
          BY <3>1
        <4>3. i # 1 => g[i - 1] = f[m]
          BY <4>1, <4>2
        <4> HIDE DEF g
        <4> QED
          BY <3>1, <4>1, <4>2, <4>3
      <3>2. CASE i # m + 1
        <4>1. i \in 1 .. m /\ g[i] = f[i]
          BY <3>2
        <4>2. i # 1 => g[i - 1] = f[i - 1]
          BY <4>1
        <4> HIDE DEF g
        <4> QED
          BY <2>2, <4>1, <4>2
      <3> QED
        BY <3>1, <3>2
    <2>4. IsFlat(g, seqs, m + 1)
      <3> DEFINE h == [i \in 1 .. m + 1 |-> IF i = 1 THEN seqs[i] ELSE g[i - 1] \o seqs[i]]
      <3>1. g = [i \in 1 .. m + 1 |-> g[i]]
        BY Zenon
      <3> HIDE DEF g
      <3>2. \A i \in 1 .. m + 1 : h[i] = g[i]
        BY <2>3, Zenon
      <3>3. h = [i \in 1 .. m + 1 |-> h[i]]
        BY Zenon
      <3>4. g = h
        <4> HIDE DEF h
        <4> QED
          BY <3>1, <3>2, <3>3
      <3> QED
        BY <3>4, Zenon DEF IsFlat
    <2> QED
      BY <2>4
  <1> HIDE DEF S
  <1>3. n \in S
    BY <1>1, <1>2, Induction
  <1> QED
    BY <1>3 DEF S

\* Sequences one after the other: where each of them begins, g tells.
Joined(s, seqs, n, g) ==
    /\ g \in [0 .. n -> Nat] /\ g[0] = 0
    /\ \A i \in 1 .. n : g[i] = g[i - 1] + Len(seqs[i])
    /\ Len(s) = g[n]
    /\ \A i \in 1 .. n : \A k \in 1 .. Len(seqs[i]) : s[g[i - 1] + k] = seqs[i][k]
    /\ \A l \in 1 .. Len(s) : \E i \in 1 .. n : \E k \in 1 .. Len(seqs[i]) : l = g[i - 1] + k

\* One sequence more.
LEMMA JoinOne ==
    ASSUME NEW S, NEW n \in Nat, NEW seqs, \A i \in 1 .. n + 1 : seqs[i] \in Seq(S),
           NEW s \in Seq(S), NEW g, Joined(s, seqs, n, g)
    PROVE  \E h : Joined(s \o seqs[n + 1], seqs, n + 1, h)
  <1> DEFINE t == s \o seqs[n + 1]
             h == [i \in 0 .. n + 1 |-> IF i = n + 1 THEN g[n] + Len(seqs[n + 1]) ELSE g[i]]
  <1>1. /\ g \in [0 .. n -> Nat] /\ g[0] = 0
        /\ \A i \in 1 .. n : g[i] = g[i - 1] + Len(seqs[i])
        /\ Len(s) = g[n]
        /\ \A i \in 1 .. n : \A k \in 1 .. Len(seqs[i]) : s[g[i - 1] + k] = seqs[i][k]
        /\ \A l \in 1 .. Len(s) : \E i \in 1 .. n : \E k \in 1 .. Len(seqs[i]) : l = g[i - 1] + k
    BY DEF Joined
  <1>2. /\ seqs[n + 1] \in Seq(S) /\ Len(seqs[n + 1]) \in Nat /\ Len(s) \in Nat /\ g[n] \in Nat
        /\ \A i \in 1 .. n : seqs[i] \in Seq(S) /\ Len(seqs[i]) \in Nat
    <2>1. \A i \in 1 .. n + 1 : seqs[i] \in Seq(S)
      OBVIOUS
    <2>2. \A i \in 1 .. n + 1 : Len(seqs[i]) \in Nat
      BY <2>1, LenProperties
    <2>3. n + 1 \in 1 .. n + 1 /\ n \in 0 .. n /\ \A i \in 1 .. n : i \in 1 .. n + 1
      OBVIOUS
    <2>4. Len(s) \in Nat
      OBVIOUS
    <2> QED
      BY <1>1, <2>1, <2>2, <2>3, <2>4
  <1>3. /\ Len(t) = Len(s) + Len(seqs[n + 1])
        /\ \A k \in 1 .. Len(s) : t[k] = s[k]
        /\ \A k \in 1 .. Len(seqs[n + 1]) : t[Len(s) + k] = seqs[n + 1][k]
    BY <1>2
  <1>4. /\ h \in [0 .. n + 1 -> Nat]
        /\ h[n + 1] = g[n] + Len(seqs[n + 1])
        /\ \A i \in 0 .. n : h[i] = g[i]
    BY <1>1, <1>2
  <1> HIDE DEF t, h
  <1>5. ASSUME NEW i \in 1 .. n + 1
        PROVE  h[i] = h[i - 1] + Len(seqs[i])
    <2>1. CASE i = n + 1
      <3>1. i - 1 = n /\ n \in 0 .. n
        BY <2>1
      <3> QED
        BY <1>4, <2>1, <3>1
    <2>2. CASE i # n + 1
      <3>1. i \in 1 .. n /\ i \in 0 .. n /\ i - 1 \in 0 .. n
        BY <2>2
      <3> QED
        BY <1>1, <1>4, <3>1
    <2> QED
      BY <2>1, <2>2
  <1>6. ASSUME NEW i \in 1 .. n + 1, NEW k \in 1 .. Len(seqs[i])
        PROVE  t[h[i - 1] + k] = seqs[i][k]
    <2>1. CASE i = n + 1
      BY <1>1, <1>3, <1>4, <2>1
    <2>2. CASE i # n + 1
      <3>1. i \in 1 .. n /\ i - 1 \in 0 .. n /\ h[i - 1] = g[i - 1] /\ h[i] = g[i]
        BY <1>4, <2>2
      <3>2. s[g[i - 1] + k] = seqs[i][k]
        BY <1>1, <3>1, Zenon
      <3>3. g[i - 1] + k \in 1 .. Len(s)
        <4> DEFINE T == {m \in Nat : i + m <= n => g[i] <= g[i + m]}
        <4>1. 0 \in T
          BY <1>1, <3>1
        <4>2. ASSUME NEW m \in Nat, m \in T
              PROVE  m + 1 \in T
          <5>1. ASSUME i + (m + 1) <= n
                PROVE  g[i] <= g[i + (m + 1)]
            <6>1. i + (m + 1) \in 1 .. n /\ (i + (m + 1)) - 1 = i + m /\ i + m \in 0 .. n
              BY <3>1, <5>1
            <6>2. g[i + (m + 1)] = g[i + m] + Len(seqs[i + (m + 1)])
              BY <1>1, <6>1
            <6>3. g[i] <= g[i + m]
              BY <4>2, <6>1
            <6>4. g[i] \in Nat /\ g[i + m] \in Nat /\ Len(seqs[i + (m + 1)]) \in Nat
              <7>1. i \in 0 .. n
                BY <3>1
              <7>2. Len(seqs[i + (m + 1)]) \in Nat
                BY <1>2, <6>1, Zenon
              <7> QED
                BY <1>1, <6>1, <7>1, <7>2
            <6> QED
              BY <6>2, <6>3, <6>4
          <5> QED
            BY <5>1
        <4> HIDE DEF T
        <4>6. \A m \in Nat : m \in T
          BY <4>1, <4>2, Induction, Zenon
        <4>3. n - i \in Nat /\ n - i \in T
          BY <3>1, <4>6
        <4>4. g[i] <= g[n]
          BY <3>1, <4>3 DEF T
        <4>5. g[i] = g[i - 1] + Len(seqs[i]) /\ g[i - 1] \in Nat /\ Len(seqs[i]) \in Nat
          BY <1>1, <1>2, <3>1
        <4>7. k \in Nat /\ 1 <= k /\ k <= Len(seqs[i])
          BY <4>5
        <4>8. g[n] = Len(s) /\ Len(s) \in Nat
          BY <1>1, <1>2
        <4> QED
          BY <4>4, <4>5, <4>7, <4>8
      <3> QED
        BY <1>3, <3>1, <3>2, <3>3
    <2> QED
      BY <2>1, <2>2
  <1>7. ASSUME NEW l \in 1 .. Len(t)
        PROVE  \E i \in 1 .. n + 1 : \E k \in 1 .. Len(seqs[i]) : l = h[i - 1] + k
    <2>1. CASE l \in 1 .. Len(s)
      <3>1. PICK i \in 1 .. n : \E k \in 1 .. Len(seqs[i]) : l = g[i - 1] + k
        BY <1>1, <2>1
      <3>2. i \in 1 .. n + 1 /\ h[i - 1] = g[i - 1]
        BY <1>4
      <3> QED
        BY <3>1, <3>2
    <2>2. CASE l \notin 1 .. Len(s)
      <3>1. l - Len(s) \in 1 .. Len(seqs[n + 1]) /\ l = h[(n + 1) - 1] + (l - Len(s))
        BY <1>1, <1>2, <1>3, <1>4, <2>2
      <3> QED
        BY <3>1
    <2> QED
      BY <2>1, <2>2
  <1>8. Len(t) = h[n + 1] /\ h[0] = 0
    BY <1>1, <1>3, <1>4
  <1>9. Joined(t, seqs, n + 1, h)
    BY <1>4, <1>5, <1>6, <1>7, <1>8 DEF Joined
  <1> QED
    BY <1>9 DEF t

\* What FlattenSeq answers.
LEMMA Flattened ==
    ASSUME NEW S, NEW n \in Nat, NEW seqs \in [1 .. n -> Seq(S)]
    PROVE  /\ FlattenSeq(seqs) \in Seq(S)
           /\ \E g : Joined(FlattenSeq(seqs), seqs, n, g)
  <1>1. Len(seqs) = n /\ \A i \in 1 .. n : seqs[i] \in Seq(S)
    OBVIOUS
  <1>2. \E g : Joined(<<>>, seqs, 0, g)
    <2> DEFINE g == [i \in 0 .. 0 |-> 0]
    <2>1. Joined(<<>>, seqs, 0, g)
      BY DEF Joined
    <2> QED
      BY <2>1
  <1>3. CASE n = 0
    <2>1. FlattenSeq(seqs) = seqs
      BY <1>1, <1>3 DEF FlattenSeq
    <2>2. seqs = <<>>
      BY <1>1, <1>3
    <2> QED
      BY <1>2, <1>3, <2>1, <2>2
  <1>4. CASE n # 0
    <2> DEFINE f == CHOOSE f : IsFlat(f, seqs, n)
               T == {m \in Nat : m + 1 <= n =>
                       f[m + 1] \in Seq(S) /\ \E g : Joined(f[m + 1], seqs, m + 1, g)}
    <2>1. FlattenSeq(seqs) = f[n]
      BY <1>1, <1>4 DEF FlattenSeq, IsFlat
    <2>2. IsFlat(f, seqs, n)
      BY Flat, Zenon
    <2> HIDE DEF f
    <2>3. \A i \in 1 .. n : f[i] = IF i = 1 THEN seqs[i] ELSE f[i - 1] \o seqs[i]
      <3>1. f = [i \in 1 .. n |-> IF i = 1 THEN seqs[i] ELSE f[i - 1] \o seqs[i]]
        BY <2>2, Zenon DEF IsFlat
      <3> QED
        BY <3>1, Zenon
    <2>4. 0 \in T
      <3>1. f[1] = seqs[1] /\ seqs[1] \in Seq(S)
        BY <1>1, <1>4, <2>3
      <3>2. <<>> \o seqs[1] = seqs[1] /\ <<>> \in Seq(S)
        BY <3>1
      <3>3. PICK g : Joined(<<>>, seqs, 0, g)
        BY <1>2
      <3>4. \A i \in 1 .. 0 + 1 : seqs[i] \in Seq(S)
        BY <3>1
      <3>5. \E h : Joined(<<>> \o seqs[0 + 1], seqs, 0 + 1, h)
        BY <3>2, <3>3, <3>4, 0 \in Nat, JoinOne, Zenon
      <3> QED
        BY <3>1, <3>2, <3>5
    <2>5. ASSUME NEW m \in Nat, m \in T
          PROVE  m + 1 \in T
      <3>1. SUFFICES ASSUME (m + 1) + 1 <= n
                     PROVE  /\ f[(m + 1) + 1] \in Seq(S)
                            /\ \E g : Joined(f[(m + 1) + 1], seqs, (m + 1) + 1, g)
        OBVIOUS
      <3>2. m + 1 <= n /\ m + 1 \in Nat /\ (m + 1) + 1 \in 1 .. n
            /\ ((m + 1) + 1) - 1 = m + 1 /\ (m + 1) + 1 # 1
        BY <3>1
      <3>3. f[m + 1] \in Seq(S) /\ \E g : Joined(f[m + 1], seqs, m + 1, g)
        BY <2>5, <3>2
      <3>4. PICK g : Joined(f[m + 1], seqs, m + 1, g)
        BY <3>3, Zenon
      <3>5. f[(m + 1) + 1] = f[m + 1] \o seqs[(m + 1) + 1]
        BY <2>3, <3>2, Zenon
      <3>6. seqs[(m + 1) + 1] \in Seq(S) /\ \A i \in 1 .. (m + 1) + 1 : seqs[i] \in Seq(S)
        BY <1>1, <3>2
      <3>7. \E h : Joined(f[m + 1] \o seqs[(m + 1) + 1], seqs, (m + 1) + 1, h)
        BY <3>2, <3>3, <3>4, <3>6, JoinOne, Zenon
      <3>8. f[m + 1] \o seqs[(m + 1) + 1] \in Seq(S)
        BY <3>3, <3>6, ConcatProperties
      <3> QED
        BY <3>5, <3>7, <3>8
    <2> HIDE DEF T
    <2>6. \A m \in Nat : m \in T
      BY <2>4, <2>5, Induction, Zenon
    <2>7. n - 1 \in Nat /\ (n - 1) + 1 = n /\ n - 1 \in T
      BY <1>4, <2>6
    <2> QED
      BY <2>1, <2>7 DEF T
  <1> QED
    BY <1>3, <1>4

-----------------------------------------------------------------------------
(* The list of sensors.                                                    *)

\* The sensor that findSensorIdByName finds.
LEMMA SensorsByName ==
    ASSUME NEW name
    PROVE  /\ findSensorIdByName(name) \in 0 .. 47
           /\ \A id \in SensorIds :
                 findSensorIdByName(name) = id
                    <=> NameOf(id) = name /\ \A lower \in 0 .. id - 1 : NameOf(lower) # name
  <1> DEFINE ids   == {i \in SensorIds : NameOf(i) = name}
             found == CHOOSE i \in ids : \A j \in ids : i <= j
  <1>1. findSensorIdByName(name) = IF ids = {} THEN 47 ELSE found
    BY DEF findSensorIdByName, SH2_MAX_SENSOR_ID
  <1>2. SensorIds = 0 .. 46
    BY DEF SensorIds, SH2_MAX_SENSOR_ID
  <1>3. ids \in SUBSET Nat /\ ids \subseteq 0 .. 46
    BY <1>2
  <1>4. ids # {} => found \in ids /\ \A j \in ids : found <= j
    <2> HIDE DEF ids
    <2> QED
      BY <1>3, LeastNumber, Zenon
  <1> HIDE DEF found
  <1>5. \A id \in SensorIds : id \in ids <=> NameOf(id) = name
    OBVIOUS
  <1> HIDE DEF ids
  <1>6. findSensorIdByName(name) \in 0 .. 47
    <2>1. CASE ids = {}
      BY <1>1, <2>1
    <2>2. CASE ids # {}
      <3>1. found \in 0 .. 46
        BY <1>3, <1>4, <2>2, Zenon
      <3> QED
        BY <1>1, <2>2, <3>1
    <2> QED
      BY <2>1, <2>2
  <1>7. ASSUME NEW id \in SensorIds
        PROVE  findSensorIdByName(name) = id
                  <=> NameOf(id) = name /\ \A lower \in 0 .. id - 1 : NameOf(lower) # name
    <2>1. \A lower \in 0 .. id - 1 : lower \in SensorIds /\ lower < id
      BY <1>2
    <2>2. ASSUME findSensorIdByName(name) = id
          PROVE  NameOf(id) = name /\ \A lower \in 0 .. id - 1 : NameOf(lower) # name
      <3>1. ids # {} /\ found = id
        BY <1>1, <1>2, <2>2
      <3>2. id \in ids /\ \A j \in ids : id <= j
        BY <1>4, <3>1
      <3>3. \A lower \in 0 .. id - 1 : lower \notin ids
        BY <1>2, <1>3, <2>1, <3>2
      <3> QED
        BY <1>5, <2>1, <3>2, <3>3, Zenon
    <2>3. ASSUME NameOf(id) = name, \A lower \in 0 .. id - 1 : NameOf(lower) # name
          PROVE  findSensorIdByName(name) = id
      <3>1. id \in ids /\ \A lower \in 0 .. id - 1 : lower \notin ids
        BY <1>5, <2>1, <2>3, Zenon
      <3>2. found \in ids /\ found <= id
        BY <1>4, <3>1
      <3>3. found = id
        BY <1>2, <1>3, <3>1, <3>2
      <3> QED
        BY <1>1, <3>1, <3>3
    <2> QED
      BY <2>2, <2>3
  <1> QED
    BY <1>6, <1>7

\* A sequence of all configurations in the order of their sensors.
IsListOf(list, configs) ==
    /\ list \in [1 .. Cardinality(configs) -> configs]
    /\ \A c \in configs : \E i \in DOMAIN list : list[i] = c
    /\ \A i, j \in DOMAIN list : i < j => list[i].sensorId < list[j].sensorId

\* The list of some entries, with one more of a higher id at its end.
LEMMA OneMoreSensor ==
    ASSUME NEW configs, IsFiniteSet(configs), NEW n \in Nat,
           \A c \in configs : c.sensorId \in Nat /\ c.sensorId < n,
           NEW d, d.sensorId = n, NEW list, IsListOf(list, configs)
    PROVE  /\ IsFiniteSet(configs \cup {d})
           /\ \E longer : IsListOf(longer, configs \cup {d})
  <1> DEFINE k      == Cardinality(configs)
             longer == [i \in 1 .. k + 1 |-> IF i = k + 1 THEN d ELSE list[i]]
  <1>1. d \notin configs
    OBVIOUS
  <1>2. k \in Nat /\ IsFiniteSet(configs \cup {d}) /\ Cardinality(configs \cup {d}) = k + 1
    BY <1>1, FS_AddElement, FS_CardinalityType
  <1>3. /\ list \in [1 .. k -> configs]
        /\ \A c \in configs : \E i \in 1 .. k : list[i] = c
        /\ \A i, j \in 1 .. k : i < j => list[i].sensorId < list[j].sensorId
    BY DEF IsListOf
  <1> HIDE DEF k
  <1>4. /\ longer \in [1 .. k + 1 -> configs \cup {d}]
        /\ longer[k + 1] = d /\ \A i \in 1 .. k : longer[i] = list[i]
    BY <1>2, <1>3
  <1> HIDE DEF longer
  <1>5. \A c \in configs \cup {d} : \E i \in 1 .. k + 1 : longer[i] = c
    BY <1>2, <1>3, <1>4
  <1>6. ASSUME NEW i \in 1 .. k + 1, NEW j \in 1 .. k + 1, i < j
        PROVE  longer[i].sensorId < longer[j].sensorId
    <2>1. i \in 1 .. k /\ longer[i] = list[i] /\ list[i] \in configs
      BY <1>2, <1>3, <1>4, <1>6
    <2>2. CASE j = k + 1
      BY <1>4, <2>1, <2>2
    <2>3. CASE j # k + 1
      BY <1>2, <1>3, <1>4, <1>6, <2>1, <2>3
    <2> QED
      BY <2>2, <2>3
  <1>7. IsListOf(longer, configs \cup {d})
    <2>1. DOMAIN longer = 1 .. k + 1
      BY <1>4
    <2> QED
      BY <1>2, <1>4, <1>5, <1>6, <2>1, Zenon DEF IsListOf
  <1> QED
    BY <1>2, <1>7

\* What Sorted answers for configurations of different sensors.
LEMMA SortedConfigs ==
    ASSUME NEW configs, \A c \in configs : c.sensorId \in SensorIds,
           \A c, d \in configs : c.sensorId = d.sensorId => c = d
    PROVE  Cardinality(configs) \in Nat /\ IsListOf(Sorted(configs), configs)
  <1> DEFINE Below(n) == {c \in configs : c.sensorId < n}
             S        == {n \in Nat : IsFiniteSet(Below(n)) /\ \E list : IsListOf(list, Below(n))}
  <1>1. \A c \in configs : c.sensorId \in Nat /\ c.sensorId < 47
    BY DEF SensorIds, SH2_MAX_SENSOR_ID
  <1>2. 0 \in S
    <2>1. Below(0) = {}
      BY <1>1
    <2>2. IsFiniteSet({}) /\ Cardinality({}) = 0
      BY FS_EmptySet
    <2> DEFINE list == [i \in 1 .. 0 |-> i]
    <2>3. IsListOf(list, {})
      BY <2>2 DEF IsListOf
    <2> HIDE DEF Below, list
    <2>4. \E sorted : IsListOf(sorted, Below(0))
      BY <2>1, <2>3, Zenon
    <2> QED
      BY <2>1, <2>2, <2>4
  <1>3. ASSUME NEW n \in Nat, n \in S
        PROVE  n + 1 \in S
    <2>1. IsFiniteSet(Below(n))
      BY <1>3
    <2>2. PICK list : IsListOf(list, Below(n))
      BY <1>3
    <2>3. CASE \E d \in configs : d.sensorId = n
      <3>1. PICK d \in configs : d.sensorId = n
        BY <2>3
      <3>2. Below(n + 1) = Below(n) \cup {d}
        BY <1>1, <3>1
      <3>3. \A c \in Below(n) : c.sensorId \in Nat /\ c.sensorId < n
        BY <1>1
      <3> HIDE DEF Below
      <3>4. /\ IsFiniteSet(Below(n) \cup {d})
            /\ \E longer : IsListOf(longer, Below(n) \cup {d})
        BY <2>1, <2>2, <3>1, <3>3, OneMoreSensor, Zenon
      <3>5. IsFiniteSet(Below(n + 1)) /\ \E longer : IsListOf(longer, Below(n + 1))
        BY <3>2, <3>4, Zenon
      <3> QED
        BY <3>5
    <2>4. CASE ~\E d \in configs : d.sensorId = n
      <3>1. Below(n + 1) = Below(n)
        BY <1>1, <2>4
      <3> HIDE DEF Below
      <3> QED
        BY <1>3, <3>1
    <2> QED
      BY <2>3, <2>4
  <1>4. \A n \in Nat : n \in S
    <2> HIDE DEF S
    <2> QED
      BY <1>2, <1>3, Induction, Zenon
  <1>5. Below(47) = configs
    BY <1>1
  <1>6. IsFiniteSet(configs) /\ \E list : IsListOf(list, configs)
    <2>1. 47 \in S
      BY <1>4
    <2> HIDE DEF Below
    <2> QED
      BY <1>5, <2>1
  <1>7. Sorted(configs) = CHOOSE list \in [1 .. Cardinality(configs) -> configs] :
            /\ \A c \in configs : \E i \in DOMAIN list : list[i] = c
            /\ \A i, j \in DOMAIN list : i < j => list[i].sensorId < list[j].sensorId
    BY Zenon DEF Sorted
  <1>8. IsListOf(Sorted(configs), configs)
    BY <1>6, <1>7, Zenon DEF IsListOf
  <1> QED
    BY <1>6, <1>8, FS_CardinalityType

-----------------------------------------------------------------------------
(* What an entry of the list becomes.                                      *)

IsRate(rate) == rate.num \in Int /\ rate.den \in Nat \ {0}

\* The parts of a fraction.
LEMMA Numbers ==
    ASSUME NEW num, NEW den
    PROVE  Number(num, den).num = num /\ Number(num, den).den = den
  BY DEF Number

\* An option of an entry that does not throw is a fraction.
LEMMA OptionsTyped ==
    ASSUME NEW v, IsEntry(v), ~EntryThrows(v), NEW k \in Options
    PROVE  IsRate(Option(v, k)) /\ OptionValue(v, k) \in 0 .. Word - 1
  <1>1. IsRate(Option(v, k))
    <2>1. CASE k \notin Keys(v)
      BY <2>1 DEF Option, IsRate, Number
    <2>2. CASE k \in Keys(v)
      <3> DEFINE m == v.members[k]
      <3>1. v.type = "object"
        BY <2>2 DEF Keys
      <3>2. IsValue(m) /\ IsArithmetic(m)
        BY <2>2, <3>1 DEF IsEntry, EntryThrows
      <3>3. Option(v, k) = ToNumber(m)
        BY <2>2 DEF Option
      <3> HIDE DEF m
      <3>4. CASE m.type = "boolean"
        <4>1. Option(v, k) = Number(IF m.is THEN 1 ELSE 0, 1)
          BY <3>3, <3>4 DEF ToNumber
        <4>2. (IF m.is THEN 1 ELSE 0) \in Int
          OBVIOUS
        <4> QED
          BY <4>1, <4>2, Numbers DEF IsRate
      <3>5. CASE m.type # "boolean"
        BY <3>2, <3>3, <3>5 DEF IsValue, IsArithmetic, ToNumber, IsRate
      <3> QED
        BY <3>4, <3>5
    <2> QED
      BY <2>1, <2>2
  <1>2. OptionValue(v, k) \in 0 .. Word - 1
    BY <1>1, UnitAssumption DEF OptionValue, IsRate
  <1> QED
    BY <1>1, <1>2

\* A rate that is within the precision of a float is held as the multiple of
\* the finest step that is nearest to it: by half a step at most it is held
\* as another one.
THEOREM RatesAreRounded ==
    ASSUME NEW rate, IsRate(rate), rate.num > 0, Finest(rate) # {}
    PROVE  \E step \in Finest(rate), m \in Nat :
              /\ step \in Steps /\ Float(rate) = Number(m * step.num, step.den)
              /\ 2 * Distance(m * (rate.den * step.num), rate.num * step.den)
                    <= rate.den * step.num
  <1> DEFINE step == CHOOSE s \in Finest(rate) : TRUE
             num  == rate.num * step.den
             den  == rate.den * step.num
             m    == Rounded(num, den)
  <1>1. step \in Finest(rate)
    BY Zenon
  <1>2. step \in Steps
    BY <1>1, Zenon DEF Finest
  <1>3. Float(rate) = Number(m * step.num, step.den)
    <2>1. ~(rate.num <= 0)
      BY DEF IsRate
    <2> QED
      BY <2>1, Zenon DEF Float
  <1> HIDE DEF step
  <1>4. step.num \in Nat \ {0} /\ step.den \in Nat \ {0}
    BY <1>2, FloatAssumption
  <1>5. num \in Nat /\ den \in Nat \ {0}
    BY <1>4 DEF IsRate
  <1> HIDE DEF num, den
  <1>6. m \in Nat /\ 2 * Distance(m * den, num) <= den
    BY <1>5, RoundedTo, Zenon
  <1> HIDE DEF m
  <1> QED
    BY <1>1, <1>2, <1>3, <1>6, Zenon DEF num, den

\* A float is a fraction.
LEMMA FloatsTyped ==
    ASSUME NEW rate, IsRate(rate)
    PROVE  IsRate(Float(rate))
  <1>1. CASE rate.num <= 0 \/ Finest(rate) = {}
    BY <1>1 DEF Float
  <1>2. CASE ~(rate.num <= 0 \/ Finest(rate) = {})
    <2>1. rate.num > 0 /\ Finest(rate) # {}
      BY <1>2 DEF IsRate
    <2>2. PICK step \in Steps, m \in Nat : Float(rate) = Number(m * step.num, step.den)
      BY <2>1, RatesAreRounded, Zenon
    <2>3. step.num \in Nat \ {0} /\ step.den \in Nat \ {0}
      BY FloatAssumption
    <2>4. m * step.num \in Int
      BY <2>3
    <2> QED
      BY <2>2, <2>3, <2>4, Numbers DEF IsRate
  <1> QED
    BY <1>1, <1>2

\* The rate of an entry that does not throw is a fraction.
LEMMA RatesTyped ==
    ASSUME NEW v, IsEntry(v), ~EntryThrows(v)
    PROVE  IsRate(RateOf(v))
  <1>1. IsRate(WrittenRate(v))
    <2>1. CASE v.type = "number"
      BY <2>1 DEF WrittenRate, IsEntry, IsValue, IsRate
    <2>2. CASE v.type = "object"
      BY <2>2, OptionsTyped DEF WrittenRate, Options
    <2>3. CASE v.type # "number" /\ v.type # "object"
      BY <2>3 DEF WrittenRate, Number, IsRate
    <2> QED
      BY <2>1, <2>2, <2>3
  <1> QED
    BY <1>1, FloatsTyped, Zenon DEF RateOf

\* Whatever rate a member of the list has, its period is the whole number of
\* microseconds that is nearest to the rate as a float holds it (see
\* RatesAreRounded).
THEOREM PeriodsAreNearest ==
    ASSUME NEW v, IsEntry(v), ~EntryThrows(v), RateOf(v).num > 0
    PROVE  Period(RateOf(v)) \in Nat /\ Nearest(Period(RateOf(v)), RateOf(v))
  <1> DEFINE rate == RateOf(v)
             same == Number(rate.num, rate.den)
  <1>1. rate.num \in Int /\ rate.den \in Nat \ {0}
    BY RatesTyped, Zenon DEF IsRate
  <1>2. rate.num \in Nat \ {0}
    BY <1>1
  <1>3. same.num = rate.num /\ same.den = rate.den
    BY Numbers, Zenon
  <1>4. Period(same) \in Nat /\ Nearest(Period(same), same)
    BY <1>1, <1>2, NearestPeriods, Zenon
  <1> HIDE DEF rate, same
  <1>5. Period(same) = Period(rate) /\ (Nearest(Period(same), same) <=> Nearest(Period(same), rate))
    BY <1>3, Zenon DEF Period, Nearest
  <1> QED
    BY <1>4, <1>5, Zenon DEF rate

\* A period fits 32 bits, there is one only if the rate has one, and where it
\* has one that fits it is the nearest.
LEMMA IntervalsFit ==
    ASSUME NEW rate, IsRate(rate), NEW build
    PROVE  /\ Interval(rate, build) \in 0 .. Word - 1
           /\ Interval(rate, build) > 0
                 => rate.num > 0 /\ ~(rate.num > 2 * Second * rate.den)
           /\ (/\ rate.num > 0 /\ ~(rate.num > 2 * Second * rate.den)
               /\ ~(Second * rate.den > (Word - 1) * rate.num))
                 => Interval(rate, build) > 0 /\ Nearest(Interval(rate, build), rate)
  <1> DEFINE n == rate.num
             d == rate.den
             p == Period(rate)
             goal == Second * d
  <1>1. n \in Int /\ d \in Nat \ {0} /\ Second \in Nat \ {0} /\ Word \in Nat \ {0}
    BY UnitAssumption DEF IsRate
  <1>2. CASE n <= 0
    <2>1. Interval(rate, build) = 0
      BY <1>2 DEF Interval
    <2>2. 0 \in 0 .. Word - 1 /\ ~(0 > 0) /\ ~(rate.num > 0)
      BY <1>1, <1>2
    <2> QED
      BY <2>1, <2>2, Zenon
  <1>3. CASE n > 0
    <2>1. n \in Nat \ {0} /\ goal \in Nat
      BY <1>1, <1>3
    <2>2. p \in Nat /\ Nearest(p, rate)
      <3>1. Period(Number(n, d)) \in Nat /\ Nearest(Period(Number(n, d)), Number(n, d))
        BY <1>1, <2>1, NearestPeriods
      <3>2. Period(Number(n, d)) = p
        BY Numbers DEF Period
      <3> QED
        BY <3>1, <3>2, Numbers DEF Nearest
    <2>3. (2 * n) * p <= 2 * goal + n /\ 2 * goal + n < (2 * n) * p + 2 * n
      <3>1. p = (2 * goal + n) \div (2 * n)
        <4>1. 2 * Second * d = 2 * goal
          BY <1>1
        <4> QED
          BY <4>1 DEF Period
      <3> HIDE DEF n, p, goal
      <3>2. 2 * goal + n \in Nat /\ 2 * n \in Nat \ {0}
        BY <2>1
      <3> QED
        BY <3>1, <3>2, Quotient
    <2>4. Interval(rate, build)
             = IF p < Word THEN p ELSE IF build THEN Word - 1 ELSE p % Word
      BY <1>3, <1>1 DEF Interval
    <2>5. 2 * Second * d = 2 * goal
      BY <1>1
    <2> HIDE DEF n, d, p, goal
    <2>6. Interval(rate, build) \in 0 .. Word - 1
      <3>1. p % Word \in 0 .. Word - 1
        BY <1>1, <2>2
      <3> QED
        BY <1>1, <2>2, <2>4, <3>1
    <2>7. p = 0 <=> n > 2 * goal
      <3>1. CASE p = 0
        BY <2>1, <2>3, <3>1
      <3>2. CASE p # 0
        <4>1. p - 1 \in Nat /\ (2 * n) * p = 2 * n * (p - 1) + 2 * n /\ 2 * n * (p - 1) \in Nat
          BY <2>1, <2>2, <3>2
        <4> QED
          BY <2>1, <2>3, <3>2, <4>1
      <3> QED
        BY <3>1, <3>2
    <2>8. ASSUME ~(goal > (Word - 1) * n)
          PROVE  p < Word
      <3> DEFINE w == (Word - 1) * n
      <3>1. w \in Nat /\ goal <= w
        BY <1>1, <2>1, <2>8
      <3>2. SUFFICES ASSUME p >= Word PROVE FALSE
        BY <1>1, <2>2
      <3>3. p - Word \in Nat /\ n * (p - Word) \in Nat
        BY <1>1, <2>1, <2>2, <3>2
      <3>4. (2 * n) * p = 2 * (n * (p - Word)) + 2 * w + 2 * n
        BY <1>1, <2>1, <2>2
      <3> HIDE DEF w
      <3> QED
        BY <2>1, <2>3, <3>1, <3>3, <3>4
    <2>9. p = 0 => Interval(rate, build) = 0
      BY <1>1, <2>4
    <2>10. n > 0
      BY <1>3
    <2> QED
      BY <2>2, <2>4, <2>5, <2>6, <2>7, <2>8, <2>9, <2>10 DEF n, d, goal
  <1> QED
    BY <1>1, <1>2, <1>3

\* The entries that are kept, and what each of them comes from.
Kept(list, build) ==
    {c \in {Config(k, list.members[k], build) : k \in Keys(list)} : Accepted(c)}
Named(list, id) == NameOf(id) \in Keys(list) /\ \A lower \in 0 .. id - 1 : NameOf(lower) # NameOf(id)
ComesFrom(c, list, build) ==
    LET v == list.members[NameOf(c.sensorId)]
    IN  /\ c.sensorId \in SensorIds /\ Named(list, c.sensorId)
        /\ c.reportInterval_us = Interval(RateOf(v), build) /\ c.reportInterval_us > 0
        /\ c.sensorSpecific = OptionValue(v, "sensorSpecific")
        /\ c.sniffEnabled = OptionValue(v, "sniffEnabled")

\* The entries that are kept come from the members of the list that name them,
\* and a sensor the list gives a period has one.
LEMMA KeptEntries ==
    ASSUME NEW list, NEW build
    PROVE  /\ \A c \in Kept(list, build) :
                 /\ ComesFrom(c, list, build)
                 /\ c = Config(NameOf(c.sensorId), list.members[NameOf(c.sensorId)], build)
           /\ \A id \in SensorIds :
                 Named(list, id) /\ Interval(RateOf(list.members[NameOf(id)]), build) > 0
                    => \E c \in Kept(list, build) : c.sensorId = id
  <1> DEFINE C(k) == Config(k, list.members[k], build)
  <1>1. \A k : /\ C(k).sensorId = findSensorIdByName(k)
               /\ C(k).reportInterval_us = Interval(RateOf(list.members[k]), build)
               /\ C(k).sensorSpecific = OptionValue(list.members[k], "sensorSpecific")
               /\ C(k).sniffEnabled = OptionValue(list.members[k], "sniffEnabled")
    BY DEF Config
  <1>2. \A c : c \in Kept(list, build) <=> \E k \in Keys(list) : c = C(k) /\ Accepted(c)
    BY DEF Kept
  <1> HIDE DEF C
  <1>3. ASSUME NEW c \in Kept(list, build)
        PROVE  ComesFrom(c, list, build) /\ c = C(NameOf(c.sensorId))
    <2>1. PICK k \in Keys(list) : c = C(k) /\ Accepted(c)
      BY <1>2
    <2>2. c.sensorId = findSensorIdByName(k) /\ c.sensorId <= 46 /\ c.reportInterval_us > 0
      BY <1>1, <2>1 DEF Accepted, SH2_MAX_SENSOR_ID
    <2>3. c.sensorId \in SensorIds
      BY <2>2, SensorsByName DEF SensorIds, SH2_MAX_SENSOR_ID
    <2>4. NameOf(c.sensorId) = k /\ \A lower \in 0 .. c.sensorId - 1 : NameOf(lower) # k
      BY <2>2, <2>3, SensorsByName, Zenon
    <2>5. Named(list, c.sensorId)
      BY <2>4, Zenon DEF Named
    <2> QED
      BY <1>1, <2>1, <2>2, <2>3, <2>4, <2>5, Zenon DEF ComesFrom
  <1>4. ASSUME NEW id \in SensorIds, Named(list, id),
               Interval(RateOf(list.members[NameOf(id)]), build) > 0
        PROVE  \E c \in Kept(list, build) : c.sensorId = id
    <2> DEFINE c == C(NameOf(id))
    <2>1. findSensorIdByName(NameOf(id)) = id
      BY <1>4, SensorsByName, Zenon DEF Named
    <2>2. c.sensorId = id /\ c.reportInterval_us > 0
      BY <1>1, <1>4, <2>1, Zenon
    <2>3. Accepted(c)
      BY <2>2 DEF Accepted, SensorIds
    <2>4. c \in Kept(list, build)
      BY <1>2, <1>4, <2>3, Zenon DEF Named
    <2> QED
      BY <2>2, <2>4
  <1> QED
    BY <1>3, <1>4, Zenon DEF C

\* The list is sorted, and it has every entry that is kept.
LEMMA Lists ==
    ASSUME NEW list, NEW build
    PROVE  LET sorted == SensorList(list, build)
           IN  /\ sorted \in Seq(Kept(list, build))
               /\ \A c \in Kept(list, build) : \E i \in 1 .. Len(sorted) : sorted[i] = c
               /\ \A i, j \in 1 .. Len(sorted) : i < j => sorted[i].sensorId < sorted[j].sensorId
  <1> DEFINE K      == Kept(list, build)
             sorted == SensorList(list, build)
  <1>1. \A c \in K : c.sensorId \in SensorIds
    BY KeptEntries, Zenon DEF ComesFrom
  <1>2. ASSUME NEW c \in K, NEW d \in K, c.sensorId = d.sensorId
        PROVE  c = d
    <2>1. /\ c = Config(NameOf(c.sensorId), list.members[NameOf(c.sensorId)], build)
          /\ d = Config(NameOf(d.sensorId), list.members[NameOf(d.sensorId)], build)
      BY KeptEntries, Zenon
    <2> QED
      BY <1>2, <2>1
  <1>3. sorted = Sorted(K)
    BY Zenon DEF SensorList, Kept
  <1> HIDE DEF K, sorted
  <1>4. Cardinality(K) \in Nat /\ IsListOf(sorted, K)
    BY <1>1, <1>2, <1>3, SortedConfigs, Zenon
  <1>5. /\ sorted \in [1 .. Cardinality(K) -> K]
        /\ \A c \in K : \E i \in DOMAIN sorted : sorted[i] = c
        /\ \A i, j \in DOMAIN sorted : i < j => sorted[i].sensorId < sorted[j].sensorId
    BY <1>4, Zenon DEF IsListOf
  <1>6. sorted \in Seq(K) /\ DOMAIN sorted = 1 .. Len(sorted)
    BY <1>4, <1>5
  <1> QED
    BY <1>5, <1>6, Zenon DEF K, sorted

-----------------------------------------------------------------------------
(* The invariant.                                                          *)

Listing      == appConfig.pSensorsToEnable
Preparing    == {"clear", "prodIds", "dcdAutoSave", "calConfig", "frs"}
Initialising == Preparing \cup {"enable", "log"}

IsSeq(s) == \E S : s \in Seq(S)

\* What is read is a file, the user's or the template.
FileInv ==
    /\ IsFile(file)
    /\ options.cmd = "template" /\ pc = "ended" /\ exit = "0" => file = Template
    /\ hub \in [records: Records, attitude: Attitudes]

\* Nothing is asked or written before do_logging.
Untouched ==
    pc \in {"start", "run"} \/ options.cmd # "log" =>
        requests = <<>> /\ log = <<[kind |-> "old"]>> /\ defined = {} /\ samples = 0

\* The configuration is what the file and the command line make of it.
ConfigInv ==
    pc \in Initialising =>
        /\ ParseJsonBatchFile(file) = "true" /\ options.cmd = "log"
        /\ appConfig = Configured /\ Listing # <<>>

\* What has been erased, and that the hub restarts after it.
Erasing(reqs, what) == \E i \in DOMAIN reqs : reqs[i] = [kind |-> "erase", what |-> what]
Resets(reqs) ==
    \A i \in DOMAIN reqs : reqs[i].kind = "erase" =>
        \E j \in i + 1 .. Len(reqs) :
            /\ reqs[j].kind \in {"clearDcdAndReset", "reinitialize"}
            /\ \A k \in DOMAIN reqs : reqs[k].kind = "sensor" => j < k
ErasedInv ==
    pc \in Initialising \ {"clear"} =>
        /\ Erasing(requests, "DYNAMIC_CALIBRATION") <=> appConfig.clearDcd
        /\ Erasing(requests, "DR_CAL") <=> appConfig.clearOfCal
        /\ Resets(requests)

\* The hub has been told whether to save its calibration.
AutoSaveInv ==
    pc \in Initialising \ {"clear", "prodIds", "dcdAutoSave"} =>
        \E i \in DOMAIN requests :
            requests[i] = [kind |-> "dcdAutoSave", is |-> appConfig.dcdAutoSave]

\* The requests for sensors are the last ones, and they are for the members of
\* the list that are not still to be enabled.
Enabling(reqs, list, rest, n, m) ==
    /\ Len(reqs) = m + n
    /\ \A i \in 1 .. m : reqs[i].kind # "sensor"
    /\ \A i \in 1 .. n : reqs[m + i] = SensorConfig(list[i])
    /\ rest = [i \in 1 .. Len(list) - n |-> list[n + i]]
EnabledInv ==
    /\ IsSeq(requests)
    /\ pc \in Initialising =>
          \E n \in 0 .. Len(Listing), m \in Nat :
              /\ Enabling(requests, Listing, todo, n, m)
              /\ pc \in Preparing => n = 0
              /\ pc = "clear" => m = 0
              /\ pc = "enable" <=> pc \notin Preparing /\ n < Len(Listing)

Ned == appConfig.orientationNed

\* Every definition and every sample is what the tables make of its sensor, a
\* sample comes after the definition of its channel, and the extenders know
\* which channels are defined.
Defines(r, id)           == r.kind = "definition" /\ r.sensor = id
AsDefined(r, ned)        == r.sensor \in SensorIds /\ r.is = ChannelDefinition(r.sensor, ned)
AsLogged(r, ned, sample) ==
    r.sensor \in SensorIds /\ HasChannel(r.sensor) /\ r.fields = LoggedFields(r.sensor, sample, ned)
Describes(records, ids, ned, sample) ==
    /\ IsSeq(records)
    /\ \A id \in ids : \E i \in DOMAIN records : Defines(records[i], id)
    /\ \A i \in DOMAIN records :
          /\ records[i].kind = "definition" => AsDefined(records[i], ned)
          /\ records[i].kind = "sample" =>
                /\ AsLogged(records[i], ned, sample)
                /\ \E j \in 1 .. i - 1 : Defines(records[j], records[i].sensor)
DefinedInv == Describes(log, defined, Ned, HubSample)

\* The records of a hub that has these, when they are written; before, there
\* is only the product in the log.
IsScd(r) == r.kind = "frs" /\ r.name = "scd"
Documents(records, has) ==
    \E scd \in SUBSET (DOMAIN records) :
        /\ \A i \in DOMAIN records : i \in scd <=> IsScd(records[i])
        /\ IF has \cap {"scd", "nominal_scd"} = {} THEN scd = {} ELSE \E i : scd = {i}
        /\ \A i \in scd : records[i].record = "scd" <=> "scd" \in has
        /\ (\E i \in DOMAIN records : records[i].kind = "message") <=> "scd" \notin has
RecordsInv ==
    /\ pc \in Preparing => \A i \in DOMAIN log : log[i].kind = "product"
    /\ pc \in {"enable", "log"} => Documents(log, hub.records)

\* An existing log is given up only for a configuration that enables a sensor,
\* and only the end has a code.
OldLogInv ==
    /\ pc # "ended" => exit = "none"
    /\ log # <<[kind |-> "old"]>> =>
          exit # "aborted" /\ options.in /\ options.out /\ options.device /\ Wanted # {}

ConfiguredInv ==
    /\ TypeOK /\ FileInv /\ Untouched /\ ConfigInv
    /\ ErasedInv /\ AutoSaveInv /\ EnabledInv
    /\ DefinedInv /\ RecordsInv /\ OldLogInv

-----------------------------------------------------------------------------
(* Files.                                                                  *)

\* What is in a sequence that is joined of two.
LEMMA Joining ==
    ASSUME NEW s, NEW t, IsSeq(s), IsSeq(t)
    PROVE  /\ IsSeq(s \o t) /\ Len(s) \in Nat /\ Len(t) \in Nat
           /\ Len(s \o t) = Len(s) + Len(t)
           /\ DOMAIN s = 1 .. Len(s) /\ DOMAIN t = 1 .. Len(t)
           /\ DOMAIN (s \o t) = 1 .. Len(s) + Len(t)
           /\ \A i \in 1 .. Len(s) : (s \o t)[i] = s[i]
           /\ \A i \in 1 .. Len(t) : (s \o t)[Len(s) + i] = t[i]
           /\ \A i \in 1 .. Len(s) + Len(t) :
                 i \in 1 .. Len(s) \/ (i - Len(s) \in 1 .. Len(t) /\ (s \o t)[i] = t[i - Len(s)])
  <1>1. PICK A : s \in Seq(A)
    BY Zenon DEF IsSeq
  <1>2. PICK B : t \in Seq(B)
    BY Zenon DEF IsSeq
  <1>3. s \in Seq(A \cup B) /\ t \in Seq(A \cup B)
    BY <1>1, <1>2
  <1>4. s \o t \in Seq(A \cup B)
    BY <1>3
  <1>5. IsSeq(s \o t)
    BY <1>4, Zenon DEF IsSeq
  <1> QED
    BY <1>3, <1>4, <1>5

\* One element.
LEMMA Single == ASSUME NEW x PROVE IsSeq(<<x>>) /\ Len(<<x>>) = 1 /\ <<x>>[1] = x
  <1>1. <<x>> \in Seq({x})
    OBVIOUS
  <1> QED
    BY <1>1, Zenon DEF IsSeq

\* A file that is read without an exception has a list of entries that can be read.
LEMMA ParsedFile ==
    ASSUME NEW f, IsFile(f), ParseJsonBatchFile(f) = "true"
    PROVE  /\ "sensorList" \in Keys(f)
           /\ \A k \in Keys(f.members["sensorList"]) :
                 /\ IsEntry(f.members["sensorList"].members[k])
                 /\ ~EntryThrows(f.members["sensorList"].members[k])
           /\ \A k \in Flags : Flag(f, k) <=> (k \in Keys(f) /\ f.members[k] = Boolean(TRUE))
           /\ \A k \in Flags : Flag(f, k) \in BOOLEAN
           /\ "calEnable" \in Keys(f) => f.members["calEnable"].hex \in Nat
  <1>1. "sensorList" \in Keys(f) /\ ~FileThrows(f)
    BY DEF ParseJsonBatchFile
  <1>2. f.type = "object"
    BY <1>1 DEF Keys
  <1>3. /\ \A k \in Keys(f) \cap Flags : f.members[k].type = "boolean"
        /\ \A k \in Keys(f) \cap Strings : f.members[k].type = "string"
        /\ ~ListThrows(f.members["sensorList"])
    BY <1>1, <1>2 DEF FileThrows
  <1>4. /\ \A k \in Keys(f) : IsValue(f.members[k])
        /\ \A n \in Keys(f.members["sensorList"]) : IsEntry(f.members["sensorList"].members[n])
    BY <1>1 DEF IsFile
  <1>5. \A k \in Keys(f.members["sensorList"]) : ~EntryThrows(f.members["sensorList"].members[k])
    BY <1>3 DEF ListThrows, Keys
  <1>6. ASSUME NEW k \in Flags
        PROVE  /\ Flag(f, k) <=> (k \in Keys(f) /\ f.members[k] = Boolean(TRUE))
               /\ Flag(f, k) \in BOOLEAN
    <2>1. CASE k \notin Keys(f)
      BY <2>1, Zenon DEF Flag
    <2>2. CASE k \in Keys(f)
      <3>1. f.members[k] \in {Boolean(TRUE), Boolean(FALSE)}
        <4>1. IsValue(f.members[k]) /\ f.members[k].type = "boolean"
          BY <1>3, <1>4, <2>2
        <4> QED
          BY <4>1, Zenon DEF IsValue
      <3>2. Boolean(TRUE).is = TRUE /\ Boolean(FALSE).is = FALSE
        BY DEF Boolean
      <3>3. f.members[k] = Boolean(TRUE) \/ f.members[k] = Boolean(FALSE)
        BY <3>1, Zenon
      <3>4. CASE f.members[k] = Boolean(TRUE)
        BY <2>2, <3>2, <3>4, Zenon DEF Flag
      <3>5. CASE f.members[k] = Boolean(FALSE)
        <4>1. Flag(f, k) = FALSE
          BY <2>2, <3>2, <3>5, Zenon DEF Flag
        <4>2. Boolean(FALSE) # Boolean(TRUE)
          BY <3>2, Zenon
        <4> QED
          BY <3>5, <4>1, <4>2, Zenon
      <3> QED
        BY <3>3, <3>4, <3>5, Zenon
    <2> QED
      BY <2>1, <2>2, Zenon
  <1>7. "calEnable" \in Keys(f) => f.members["calEnable"].hex \in Nat
    <2>1. "calEnable" \in Strings
      BY DEF Strings
    <2> QED
      BY <1>3, <1>4, <2>1, Zenon DEF IsValue
  <1> QED
    BY <1>1, <1>4, <1>5, <1>6, <1>7, Zenon

\* The template, with whatever somebody puts into it, is a file.
LEMMA TemplateFile ==
    /\ IsFile(Template)
    /\ \A edit \in Edits, orientation \in Orientations :
          IsFile([Template EXCEPT !.members["sensorList"].members = Rewritten(@, edit),
                                  !.members["orientation"] = orientation])
  <1> DEFINE rates == [n \in TemplateNames |->
                   IF n = "Raw Optical Flow" THEN Object([o \in Options |-> Number(0, 1)])
                   ELSE Number(0, 1)]
             names == {"calEnable", "clearDcd", "clearOfCal", "dcdAutoSave", "orientation",
                       "sensorList"}
             all   == [k \in names |->
        CASE k = "calEnable"   -> String("0x08", 8)
          [] k = "dcdAutoSave" -> Boolean(TRUE)
          [] k = "orientation" -> String("ned", 0)
          [] k = "sensorList"  -> Object(rates)
          [] OTHER             -> Boolean(FALSE)]
  <1>1. Template = Object(all)
    BY DEF Template
  <1>2. IsEntry(Number(0, 1))
    BY DEF Number, IsEntry, IsValue, Keys
  <1>3. \A n \in TemplateNames : IsEntry(rates[n])
    <2>1. IsEntry(Object([o \in Options |-> Number(0, 1)]))
      <3>1. IsValue(Number(0, 1))
        BY <1>2 DEF IsEntry
      <3> DEFINE zeros == [o \in Options |-> Number(0, 1)]
      <3>2. Keys(Object(zeros)) = Options /\ Object(zeros).members = zeros
            /\ Object(zeros).type = "object"
        BY DEF Object, Keys
      <3>3. \A o \in Options : zeros[o] = Number(0, 1)
        OBVIOUS
      <3> HIDE DEF zeros
      <3>4. IsValue(Object(zeros))
        <4>1. "object" \notin {"number", "boolean", "string"}
          OBVIOUS
        <4> QED
          BY <3>2, <4>1 DEF IsValue
      <3>5. IsEntry(Object(zeros))
        BY <3>1, <3>2, <3>3, <3>4, Zenon DEF IsEntry
      <3> QED
        BY <3>5 DEF zeros
    <2>2. \A n \in TemplateNames : rates[n] = Object([o \in Options |-> Number(0, 1)])
                                    \/ rates[n] = Number(0, 1)
      BY Zenon
    <2> QED
      BY <1>2, <2>1, <2>2, Zenon
  <1>4. \A k \in names \ {"sensorList"} : IsValue(all[k]) /\ Keys(all[k]) = {}
    <2>1. /\ IsValue(String("0x08", 8)) /\ Keys(String("0x08", 8)) = {}
          /\ IsValue(String("ned", 0)) /\ Keys(String("ned", 0)) = {}
          /\ IsValue(Boolean(TRUE)) /\ Keys(Boolean(TRUE)) = {}
          /\ IsValue(Boolean(FALSE)) /\ Keys(Boolean(FALSE)) = {}
      BY DEF String, Boolean, IsValue, Keys
    <2>2. /\ all["calEnable"] = String("0x08", 8) /\ all["orientation"] = String("ned", 0)
          /\ all["dcdAutoSave"] = Boolean(TRUE) /\ all["clearDcd"] = Boolean(FALSE)
          /\ all["clearOfCal"] = Boolean(FALSE)
      <3> HIDE DEF rates
      <3> QED
        OBVIOUS
    <2>3. \A k \in names \ {"sensorList"} :
             k = "calEnable" \/ k = "orientation" \/ k = "dcdAutoSave" \/ k = "clearDcd"
             \/ k = "clearOfCal"
      OBVIOUS
    <2> HIDE DEF all, names
    <2> QED
      BY <2>1, <2>2, <2>3, Zenon
  <1>5. all["sensorList"] = Object(rates) /\ DOMAIN all = names /\ DOMAIN rates = TemplateNames
    OBVIOUS
  <1> HIDE DEF all, rates
  <1>6. /\ Keys(Template) = names /\ Template.members = all /\ Template.type = "object"
        /\ DOMAIN Template = {"type", "members"}
    BY <1>1, <1>5 DEF Object, Keys
  <1>7. /\ Keys(Object(rates)) = TemplateNames /\ Object(rates).members = rates
        /\ DOMAIN Object(rates) = {"type", "members"} /\ Object(rates).type = "object"
    BY <1>5 DEF Object, Keys
  <1>8. IsFile(Template)
    <2>1. IsValue(Object(rates))
      BY <1>7 DEF IsValue
    <2> QED
      BY <1>3, <1>4, <1>5, <1>6, <1>7, <2>1 DEF IsFile
  <1>9. ASSUME NEW edit \in Edits, NEW orientation \in Orientations
        PROVE  IsFile([Template EXCEPT !.members["sensorList"].members = Rewritten(@, edit),
                                       !.members["orientation"] = orientation])
    <2> DEFINE edited == Rewritten(rates, edit)
               list   == [Object(rates) EXCEPT !.members = edited]
               whole  == [[all EXCEPT !["sensorList"] = list] EXCEPT !["orientation"] = orientation]
               f      == [Template EXCEPT !.members["sensorList"].members = Rewritten(@, edit),
                                          !.members["orientation"] = orientation]
    <2>1. f.members = whole /\ f.type = "object"
      <3> DEFINE g == [Template EXCEPT !.members["sensorList"].members = Rewritten(@, edit)]
      <3>1. f = [g EXCEPT !.members["orientation"] = orientation]
        BY Zenon
      <3>2. Template.members["sensorList"].members = rates
        BY <1>5, <1>6, <1>7, Zenon
      <3>3. g.members = [all EXCEPT !["sensorList"] = list] /\ g.type = "object"
            /\ DOMAIN g = {"type", "members"}
        <4> DEFINE new == [all EXCEPT !["sensorList"] = list]
        <4>1. g = [Template EXCEPT !.members = new]
          BY <1>5, <1>6, <3>2
        <4> HIDE DEF new, g
        <4>2. g.members = new /\ g.type = "object" /\ DOMAIN g = {"type", "members"}
          BY <1>6, <4>1
        <4> QED
          BY <4>2 DEF new
      <3> HIDE DEF f, g
      <3> QED
        BY <3>1, <3>3
    <2>2. Keys(f) = names
      <3>1. DOMAIN whole = names
        BY <1>5
      <3> QED
        BY <2>1, <3>1 DEF Keys
    <2>3. list.members = edited /\ list.type = "object"
      BY <1>7
    <2>4. DOMAIN edited = DOMAIN edit \cup TemplateNames
          /\ \A n \in DOMAIN edited : edited[n] = IF n \in DOMAIN edit THEN edit[n] ELSE rates[n]
      BY <1>5 DEF Rewritten
    <2>5. \A n \in DOMAIN edited : IsEntry(edited[n])
      BY <1>3, <2>4, FileAssumption
    <2>6. /\ whole["sensorList"] = list /\ whole["orientation"] = orientation
          /\ \A k \in names \ {"sensorList", "orientation"} : whole[k] = all[k]
      BY <1>5
    <2>7. Keys(list) = DOMAIN edited
      BY <2>3 DEF Keys
    <2> HIDE DEF edited, list, whole, f
    <2>8. IsValue(list) /\ IsValue(orientation) /\ Keys(orientation) = {}
      <3>1. IsValue(list)
        BY <2>3 DEF IsValue
      <3>2. IsValue(orientation) /\ orientation.type = "string"
        BY FileAssumption
      <3> QED
        BY <3>1, <3>2 DEF Keys
    <2>9. IsFile(f)
      <3> SUFFICES ASSUME NEW k \in names
                   PROVE  /\ IsValue(whole[k])
                          /\ \A n \in Keys(whole[k]) : IsEntry(whole[k].members[n])
        BY <2>1, <2>2 DEF IsFile
      <3>1. CASE k = "sensorList"
        BY <2>3, <2>5, <2>6, <2>7, <2>8, <3>1
      <3>2. CASE k = "orientation"
        BY <2>6, <2>8, <3>2
      <3>3. CASE k \notin {"sensorList", "orientation"}
        BY <1>4, <2>6, <3>3
      <3> QED
        BY <3>1, <3>2, <3>3
    <2> QED
      BY <2>9 DEF f
  <1> QED
    BY <1>8, <1>9, Zenon

\* The configuration that do_logging makes of a file.
LEMMA ConfiguredParts ==
    ASSUME IsFile(file), ParseJsonBatchFile(file) = "true"
    PROVE  /\ Configured.clearDcd = Override(options.clearDcd, Flag(file, "clearDcd"))
           /\ Configured.clearOfCal = Override(options.clearOfCal, Flag(file, "clearOfCal"))
           /\ Configured.dcdAutoSave = Flag(file, "dcdAutoSave")
           /\ Configured.pSensorsToEnable = SensorList(file.members["sensorList"], saturates)
           /\ Configured.calEnableMask \in 0 .. 255
           /\ \A k \in Flags : Configured[k] \in BOOLEAN
           /\ Configured.orientationNed \in BOOLEAN
  <1> DEFINE dcd   == Flag(file, "clearDcd")
             ofCal == Flag(file, "clearOfCal")
             save  == Flag(file, "dcdAutoSave")
             mask  == IF "calEnable" \in Keys(file) THEN file.members["calEnable"].hex % 256 ELSE 0
             ned   == IF "orientation" \in Keys(file)
                      THEN file.members["orientation"].text # "enu" ELSE TRUE
             list  == SensorList(file.members["sensorList"], saturates)
  <1>1. dcd \in BOOLEAN /\ ofCal \in BOOLEAN /\ save \in BOOLEAN
    BY ParsedFile, Zenon DEF Flags
  <1>2. mask \in 0 .. 255
    <2>1. "calEnable" \in Keys(file) => file.members["calEnable"].hex \in Nat
      BY ParsedFile, Zenon
    <2> DEFINE hex == file.members["calEnable"].hex
    <2> HIDE DEF hex
    <2>2. hex \in Nat => hex % 256 \in 0 .. 255
      OBVIOUS
    <2>3. 0 \in 0 .. 255
      OBVIOUS
    <2> QED
      BY <2>1, <2>2, <2>3, Zenon DEF hex
  <1>3. ned \in BOOLEAN
    BY Zenon
  <1> DEFINE c == AppConfig(file, saturates)
             names == {"calEnableMask", "clearDcd", "clearOfCal", "dcdAutoSave", "orientationNed",
                       "pSensorsToEnable"}
  <1>4. /\ DOMAIN c = names
        /\ c.calEnableMask = mask /\ c.clearDcd = dcd /\ c.clearOfCal = ofCal
        /\ c.dcdAutoSave = save /\ c.orientationNed = ned /\ c.pSensorsToEnable = list
    <2>1. c = [DefaultConfig EXCEPT !.calEnableMask = mask, !.clearDcd = dcd,
                !.clearOfCal = ofCal, !.dcdAutoSave = save, !.orientationNed = ned,
                !.pSensorsToEnable = list]
      BY DEF AppConfig, DefaultConfig
    <2>2. DOMAIN DefaultConfig = names
      BY DEF DefaultConfig
    <2> HIDE DEF dcd, ofCal, save, mask, ned, list, c
    <2> QED
      BY <2>1, <2>2
  <1> HIDE DEF dcd, ofCal, save, mask, ned, list
  <1>5. Configured = [c EXCEPT !.clearDcd = Override(options.clearDcd, @),
                               !.clearOfCal = Override(options.clearOfCal, @)]
    BY Zenon DEF Configured
  <1>6. /\ Override(options.clearDcd, dcd) \in BOOLEAN
        /\ Override(options.clearOfCal, ofCal) \in BOOLEAN
    BY <1>1, Zenon DEF Override
  <1> DEFINE a == Override(options.clearDcd, dcd)
             b == Override(options.clearOfCal, ofCal)
  <1> HIDE DEF a, b, c
  <1>7. /\ Configured.clearDcd = a /\ Configured.clearOfCal = b
        /\ Configured.dcdAutoSave = save /\ Configured.pSensorsToEnable = list
        /\ Configured.calEnableMask = mask /\ Configured.orientationNed = ned
    <2>1. Configured = [c EXCEPT !.clearDcd = a, !.clearOfCal = b]
      BY <1>4, <1>5 DEF a, b
    <2> QED
      BY <1>4, <2>1
  <1> QED
    BY <1>1, <1>2, <1>3, <1>6, <1>7, ZenonT(60) DEF a, b, dcd, ofCal, save, list, Flags

-----------------------------------------------------------------------------
(* The invariant holds in the beginning, and what a step does to the file, *)
(* to the configuration and to what is untouched.                          *)

\* The invariant holds in the beginning.
LEMMA InitConfigured == Init => ConfiguredInv
  <1> SUFFICES ASSUME Init PROVE ConfiguredInv
    OBVIOUS
  <1>1. PICK input \in Inputs : options = input.options /\ file = input.file
    BY Zenon DEF Init
  <1>2. pc = "start" /\ exit = "none" /\ appConfig = DefaultConfig /\ requests = <<>>
        /\ defined = {} /\ samples = 0 /\ log = <<[kind |-> "old"]>>
        /\ hub \in [records: Records, attitude: Attitudes]
    BY DEF Init
  <1>3. FileInv
    BY <1>1, <1>2, FileAssumption DEF FileInv
  <1>4. log \in Seq({[kind |-> "old"]}) /\ Len(log) = 1 /\ log[1].kind = "old"
        /\ requests \in Seq({}) /\ Len(requests) = 0
    BY <1>2
  <1>5. IsSeq(requests) /\ IsSeq(log)
    BY <1>4, Zenon DEF IsSeq
  <1>6. \A i \in DOMAIN log : log[i].kind = "old"
    BY <1>4
  <1>7. TypeOK
    <2>1. /\ appConfig.calEnableMask \in 0 .. 255
          /\ appConfig.clearDcd = FALSE /\ appConfig.clearOfCal = FALSE
          /\ appConfig.dcdAutoSave = FALSE /\ appConfig.orientationNed = TRUE
      BY <1>2 DEF DefaultConfig
    <2>2. \A k \in Flags : appConfig[k] \in BOOLEAN
      BY <2>1, Zenon DEF Flags
    <2>3. samples \in 0 .. MaxSamples
      BY <1>2, HubAssumption
    <2>4. \A i \in DOMAIN requests : requests[i] \in Requests
      BY <1>4
    <2>5. appConfig.orientationNed \in BOOLEAN
      BY <2>1, Zenon
    <2> QED
      BY <1>2, <1>6, <2>1, <2>2, <2>3, <2>4, <2>5 DEF TypeOK
  <1>8. pc \notin Initialising /\ pc \notin Preparing /\ pc \notin {"enable", "log"}
    BY <1>2 DEF Initialising, Preparing
  <1>9. Untouched /\ ConfigInv /\ ErasedInv /\ AutoSaveInv /\ EnabledInv
    BY <1>2, <1>5, <1>8 DEF Untouched, ConfigInv, ErasedInv, AutoSaveInv, EnabledInv
  <1>10. DefinedInv /\ RecordsInv /\ OldLogInv
    BY <1>2, <1>5, <1>6, <1>8 DEF DefinedInv, Describes, RecordsInv, OldLogInv
  <1> QED
    BY <1>3, <1>7, <1>9, <1>10 DEF ConfiguredInv

\* What do_logging does: nothing to what is asked and written but to begin.
LEMMA Logging ==
    ASSUME do_logging
    PROVE  /\ pc = "run" /\ options.cmd = "log" /\ UNCHANGED <<inputVars, requests, defined, samples>>
           /\ \/ /\ pc' = "ended" /\ exit' \in {"-1", "aborted"} /\ log' = log
                 /\ \/ appConfig' = appConfig
                    \/ ParseJsonBatchFile(file) = "true" /\ appConfig' = Configured
              \/ /\ pc' = "clear" /\ exit' = exit /\ log' = <<>>
                 /\ ParseJsonBatchFile(file) = "true" /\ appConfig' = Configured
                 /\ todo' = appConfig'.pSensorsToEnable /\ todo' # <<>>
                 /\ options.in /\ options.out /\ options.device
  <1>1. CASE ~(options.in /\ options.out /\ options.device)
    BY <1>1, Zenon DEF do_logging, End
  <1>2. CASE options.in /\ options.out /\ options.device
    <2>1. CASE ParseJsonBatchFile(file) # "true"
      BY <1>2, <2>1, Zenon DEF do_logging, End
    <2>2. CASE ParseJsonBatchFile(file) = "true"
      <3>1. "true" # "throws" /\ "true" # "false"
        OBVIOUS
      <3> QED
        BY <1>2, <2>2, <3>1, Zenon DEF do_logging, End
    <2> QED
      BY <2>1, <2>2
  <1> QED
    BY <1>1, <1>2, Zenon

\* do_template writes the template, or nothing.
LEMMA Templating ==
    ASSUME do_template
    PROVE  /\ pc = "run" /\ options.cmd = "template" /\ pc' = "ended"
           /\ \/ exit' = "0" /\ file' = Template
              \/ exit' = "-1" /\ file' = file
           /\ UNCHANGED <<options, saturates, hub, appConfig, todo, requests, defined, samples, log>>
  <1>1. CASE options.out
    BY <1>1, Zenon DEF do_template, End
  <1>2. CASE ~options.out
    BY <1>2, Zenon DEF do_template, End
  <1> QED
    BY <1>1, <1>2, Zenon

\* What is read is the file of somebody, or the template, rewritten or not.
LEMMA NextFile == ConfiguredInv /\ [Next]_vars => FileInv'
  <1> SUFFICES ASSUME FileInv, ConfigInv, [Next]_vars PROVE FileInv'
    BY DEF ConfiguredInv
  <1>1. CASE parseArgs
    BY <1>1 DEF parseArgs, FileInv, End, inputVars
  <1>2. CASE do_template
    <2>1. IsFile(Template)
      BY TemplateFile, Zenon
    <2>2. IsFile(file') /\ pc' = "ended" /\ options' = options /\ hub' = hub
          /\ (exit' = "0" => file' = Template)
      <3>1. IsFile(file) /\ "-1" # "0"
        BY DEF FileInv
      <3> QED
        BY <1>2, <2>1, <3>1, Templating, Zenon
    <2> QED
      BY <2>2 DEF FileInv
  <1>3. CASE EditTemplate
    <2>1. file = Template
      BY <1>3 DEF EditTemplate, FileInv
    <2>2. IsFile(file')
      <3>1. PICK edit \in Edits, orientation \in Orientations :
               file' = [file EXCEPT !.members["sensorList"].members = Rewritten(@, edit),
                                    !.members["orientation"] = orientation]
        BY <1>3, Zenon DEF EditTemplate
      <3>2. IsFile([Template EXCEPT !.members["sensorList"].members = Rewritten(@, edit),
                                    !.members["orientation"] = orientation])
        BY TemplateFile, Zenon
      <3> QED
        BY <2>1, <3>1, <3>2, Zenon
    <2>3. pc' = "start" /\ hub' = hub
      BY <1>3 DEF EditTemplate
    <2> QED
      BY <2>2, <2>3 DEF FileInv
  <1>4. CASE do_dfu
    BY <1>4 DEF do_dfu, FileInv, inputVars
  <1>5. CASE do_logging
    BY <1>5, Logging DEF FileInv, inputVars
  <1>6. CASE Fail
    BY <1>6 DEF Fail, FileInv, End, inputVars
  <1>7. CASE Clear \/ GetProdIds \/ SetDcdAutoSave \/ SetCalConfig \/ LogAllFrsRecords
             \/ EnableSensor \/ LogSample
    BY <1>7 DEF Clear, GetProdIds, SetDcdAutoSave, SetCalConfig, LogAllFrsRecords, EnableSensor,
                LogSample, FileInv, inputVars
  <1>8. CASE Finish
    BY <1>8 DEF Finish, FileInv, End, inputVars, ConfigInv, Initialising
  <1>9. CASE UNCHANGED vars
    BY <1>9 DEF FileInv, vars, inputVars
  <1> QED
    BY <1>1, <1>2, <1>3, <1>4, <1>5, <1>6, <1>7, <1>8, <1>9 DEF Next

\* Before do_logging nothing is asked and nothing written.
LEMMA NextUntouched == ConfiguredInv /\ [Next]_vars => Untouched'
  <1> SUFFICES ASSUME Untouched, ConfigInv, [Next]_vars PROVE Untouched'
    BY DEF ConfiguredInv
  <1> USE DEF Untouched
  <1>1. CASE parseArgs \/ do_dfu
    BY <1>1 DEF parseArgs, do_dfu, End, inputVars
  <1>6. CASE EditTemplate
    BY <1>6 DEF EditTemplate
  <1>5. CASE do_template
    BY <1>5, Templating
  <1>2. CASE do_logging
    BY <1>2, Logging DEF inputVars
  <1>3. CASE Fail \/ Clear \/ GetProdIds \/ SetDcdAutoSave \/ SetCalConfig \/ LogAllFrsRecords
             \/ EnableSensor \/ LogSample \/ Finish
    <2>1. pc \in Initialising
      BY <1>3 DEF Fail, Clear, GetProdIds, SetDcdAutoSave, SetCalConfig, LogAllFrsRecords,
                  EnableSensor, LogSample, Finish, Initialising, Preparing
    <2>2. options.cmd = "log" /\ options' = options
      BY <1>3, <2>1 DEF ConfigInv, Fail, Clear, GetProdIds, SetDcdAutoSave, SetCalConfig,
                        LogAllFrsRecords, EnableSensor, LogSample, Finish, inputVars
    <2>3. pc' \notin {"start", "run"}
      BY <1>3 DEF Fail, Clear, GetProdIds, SetDcdAutoSave, SetCalConfig, LogAllFrsRecords,
                  EnableSensor, LogSample, Finish, End
    <2> QED
      BY <2>2, <2>3
  <1>4. CASE UNCHANGED vars
    BY <1>4 DEF vars, inputVars
  <1> QED
    BY <1>1, <1>2, <1>3, <1>4, <1>5, <1>6 DEF Next

\* After do_logging the configuration does not change.
LEMMA NextConfig == ConfiguredInv /\ [Next]_vars => ConfigInv'
  <1> SUFFICES ASSUME ConfigInv, [Next]_vars PROVE ConfigInv'
    BY DEF ConfiguredInv
  <1>0. ASSUME UNCHANGED inputVars
        PROVE  Configured' = Configured /\ ParseJsonBatchFile(file)' = ParseJsonBatchFile(file)
    BY <1>0, Zenon DEF inputVars, Configured
  <1>1. CASE parseArgs \/ do_template \/ EditTemplate \/ do_dfu \/ Fail \/ Finish
    <2>1. pc' \in {"start", "run", "ended"}
      <3>1. CASE parseArgs \/ do_dfu
        BY <3>1 DEF parseArgs, do_dfu, End
      <3>4. CASE EditTemplate
        BY <3>4 DEF EditTemplate
      <3>2. CASE do_template
        BY <3>2, Templating
      <3>3. CASE Fail \/ Finish
        BY <3>3 DEF Fail, Finish, End
      <3> QED
        BY <1>1, <3>1, <3>2, <3>3, <3>4
    <2> QED
      BY <2>1 DEF ConfigInv, Initialising, Preparing
  <1>2. CASE do_logging
    <2>1. UNCHANGED inputVars /\ options' = options
      BY <1>2, Logging DEF inputVars
    <2>2. CASE pc' = "ended"
      BY <2>2 DEF ConfigInv, Initialising, Preparing
    <2>3. CASE pc' # "ended"
      BY <1>0, <1>2, <2>1, <2>3, Logging, Zenon DEF ConfigInv, Listing
    <2> QED
      BY <2>2, <2>3
  <1>3. CASE Clear \/ GetProdIds \/ SetDcdAutoSave \/ SetCalConfig \/ LogAllFrsRecords
             \/ EnableSensor \/ LogSample
    <2>1. pc \in Initialising
      BY <1>3 DEF Clear, GetProdIds, SetDcdAutoSave, SetCalConfig, LogAllFrsRecords,
                  EnableSensor, LogSample, Initialising, Preparing
    <2>2. UNCHANGED inputVars /\ options' = options /\ appConfig' = appConfig
      BY <1>3 DEF Clear, GetProdIds, SetDcdAutoSave, SetCalConfig, LogAllFrsRecords,
                  EnableSensor, LogSample, inputVars
    <2> QED
      BY <1>0, <2>1, <2>2, Zenon DEF ConfigInv, Listing
  <1>4. CASE UNCHANGED vars
    <2>1. UNCHANGED inputVars /\ options' = options /\ appConfig' = appConfig /\ pc' = pc
      BY <1>4 DEF vars, inputVars
    <2> QED
      BY <1>0, <2>1, Zenon DEF ConfigInv, Listing
  <1> QED
    BY <1>1, <1>2, <1>3, <1>4 DEF Next

-----------------------------------------------------------------------------
(* Requests.                                                               *)

\* The requests the program makes.
LEMMA RequestTypes ==
    /\ [kind |-> "erase", what |-> "DR_CAL"] \in Requests
    /\ [kind |-> "erase", what |-> "DYNAMIC_CALIBRATION"] \in Requests
    /\ [kind |-> "clearDcdAndReset"] \in Requests
    /\ [kind |-> "reinitialize"] \in Requests
    /\ [kind |-> "saveDcd"] \in Requests
    /\ \A b \in BOOLEAN : [kind |-> "dcdAutoSave", is |-> b] \in Requests
    /\ \A n \in 0 .. 255 : [kind |-> "calConfig", mask |-> n] \in Requests
    /\ \A id \in SensorIds : [kind |-> "off", sensorId |-> id] \in Requests
  <1>1. /\ [kind |-> "erase", what |-> "DR_CAL"] \in
               [kind: {"erase"}, what: {"DR_CAL", "DYNAMIC_CALIBRATION"}]
        /\ [kind |-> "erase", what |-> "DYNAMIC_CALIBRATION"] \in
               [kind: {"erase"}, what: {"DR_CAL", "DYNAMIC_CALIBRATION"}]
    OBVIOUS
  <1>2. \A k \in {"clearDcdAndReset", "reinitialize", "saveDcd"} :
           [kind |-> k] \in [kind: {"clearDcdAndReset", "reinitialize", "saveDcd"}]
    OBVIOUS
  <1>3. \A b \in BOOLEAN : [kind |-> "dcdAutoSave", is |-> b] \in [kind: {"dcdAutoSave"}, is: BOOLEAN]
    BY Zenon
  <1>4. \A n \in 0 .. 255 : [kind |-> "calConfig", mask |-> n] \in [kind: {"calConfig"}, mask: 0 .. 255]
    OBVIOUS
  <1>5. \A id \in SensorIds : [kind |-> "off", sensorId |-> id] \in [kind: {"off"}, sensorId: SensorIds]
    OBVIOUS
  <1> QED
    BY <1>1, <1>2, <1>3, <1>4, <1>5, ZenonT(60) DEF Requests

\* What is asked for a member of the list.
LEMMA SensorTypes ==
    ASSUME NEW c, c.sensorId \in SensorIds, c.reportInterval_us \in 1 .. Word - 1,
           c.sensorSpecific \in 0 .. Word - 1, c.sniffEnabled \in 0 .. Word - 1
    PROVE  /\ SensorConfig(c) \in Requests /\ SensorConfig(c).kind = "sensor"
           /\ SensorConfig(c).sensorId = c.sensorId
           /\ SensorConfig(c).interval = c.reportInterval_us
           /\ SensorConfig(c).sensorSpecific = c.sensorSpecific
           /\ SensorConfig(c).sniffEnabled = (c.sniffEnabled # 0)
  <1>1. changeSensitivity(c.sensorId) \in Nat
    BY DEF changeSensitivity
  <1>2. SensorConfig(c) \in
          [kind: {"sensor"}, sensorId: SensorIds, onChange: BOOLEAN, relative: BOOLEAN,
           wakeup: BOOLEAN, alwaysOn: BOOLEAN, sensitivity: Nat, interval: 1 .. Word - 1,
           sensorSpecific: 0 .. Word - 1, sniffEnabled: BOOLEAN]
    <2>1. ASSUME NEW S
          PROVE  (c.sensorId \in S) \in BOOLEAN
      <3>1. CASE c.sensorId \in S
        <4>1. (c.sensorId \in S) = TRUE
          BY <3>1
        <4> QED
          BY <4>1
      <3>2. CASE c.sensorId \notin S
        <4>1. (c.sensorId \in S) = FALSE
          BY <3>2
        <4> QED
          BY <4>1
      <3> QED
        BY <3>1, <3>2
    <2>2. ASSUME NEW p \in BOOLEAN, NEW q \in BOOLEAN, NEW r \in BOOLEAN, NEW s \in BOOLEAN,
                 NEW n \in Nat, NEW id \in SensorIds, NEW interval \in 1 .. Word - 1,
                 NEW own \in 0 .. Word - 1, NEW sniff \in BOOLEAN
          PROVE  [kind |-> "sensor", sensorId |-> id, onChange |-> p, relative |-> q,
                  wakeup |-> r, alwaysOn |-> s, sensitivity |-> n, interval |-> interval,
                  sensorSpecific |-> own, sniffEnabled |-> sniff] \in
          [kind: {"sensor"}, sensorId: SensorIds, onChange: BOOLEAN, relative: BOOLEAN,
           wakeup: BOOLEAN, alwaysOn: BOOLEAN, sensitivity: Nat, interval: 1 .. Word - 1,
           sensorSpecific: 0 .. Word - 1, sniffEnabled: BOOLEAN]
      OBVIOUS
    <2>3. (c.sniffEnabled # 0) \in BOOLEAN
      BY Zenon
    <2> QED
      BY <1>1, <2>1, <2>2, <2>3, ZenonT(60) DEF SensorConfig
  <1>3. SensorConfig(c) \in Requests
    BY <1>2, Zenon DEF Requests
  <1> QED
    BY <1>3, Zenon DEF SensorConfig

\* What is asked to clear the calibration.
LEMMA Clearing ==
    ASSUME Clear, appConfig.clearDcd \in BOOLEAN, appConfig.clearOfCal \in BOOLEAN
    PROVE  \E r : /\ IsSeq(r) /\ requests' = requests \o r
                  /\ \A i \in 1 .. Len(r) :
                        r[i] \in Requests
                        /\ r[i].kind \in {"erase", "clearDcdAndReset", "reinitialize"}
                  /\ (\E i \in 1 .. Len(r) : r[i] = [kind |-> "erase", what |-> "DYNAMIC_CALIBRATION"])
                        <=> appConfig.clearDcd
                  /\ (\E i \in 1 .. Len(r) : r[i] = [kind |-> "erase", what |-> "DR_CAL"])
                        <=> appConfig.clearOfCal
                  /\ \A i \in 1 .. Len(r) : r[i].kind = "erase" =>
                        \E j \in i + 1 .. Len(r) : r[j].kind \in {"clearDcdAndReset", "reinitialize"}
  <1> DEFINE dcd   == [kind |-> "erase", what |-> "DYNAMIC_CALIBRATION"]
             ofCal == [kind |-> "erase", what |-> "DR_CAL"]
             reset == [kind |-> "clearDcdAndReset"]
             again == [kind |-> "reinitialize"]
             first == IF appConfig.clearOfCal THEN <<ofCal>> ELSE <<>>
             rest  == IF appConfig.clearDcd THEN <<dcd, reset>>
                      ELSE IF appConfig.clearOfCal THEN <<again>> ELSE <<>>
             Good(r) ==
                  /\ IsSeq(r)
                  /\ \A i \in 1 .. Len(r) :
                        r[i] \in Requests
                        /\ r[i].kind \in {"erase", "clearDcdAndReset", "reinitialize"}
                  /\ (\E i \in 1 .. Len(r) : r[i] = dcd) <=> appConfig.clearDcd
                  /\ (\E i \in 1 .. Len(r) : r[i] = ofCal) <=> appConfig.clearOfCal
                  /\ \A i \in 1 .. Len(r) : r[i].kind = "erase" =>
                        \E j \in i + 1 .. Len(r) : r[j].kind \in {"clearDcdAndReset", "reinitialize"}
  <1> SUFFICES \E r : requests' = requests \o r /\ Good(r)
    BY Zenon
  <1>1. requests' = requests \o (first \o rest)
    BY Zenon DEF Clear, Ask
  <1>2. /\ dcd.kind = "erase" /\ ofCal.kind = "erase"
        /\ reset.kind = "clearDcdAndReset" /\ again.kind = "reinitialize"
        /\ dcd # ofCal /\ reset # dcd /\ reset # ofCal /\ again # dcd /\ again # ofCal
        /\ dcd.what # ofCal.what
    OBVIOUS
  <1>3. dcd \in Requests /\ ofCal \in Requests /\ reset \in Requests /\ again \in Requests
    BY RequestTypes, Zenon
  <1> HIDE DEF dcd, ofCal, reset, again
  <1>4. CASE appConfig.clearOfCal = TRUE /\ appConfig.clearDcd = TRUE
    <2> DEFINE s == <<ofCal>>
             t == <<dcd, reset>>
             r == s \o t
    <2>1. first \o rest = r
      BY <1>4, Zenon
    <2>2. /\ s \in Seq(Requests) /\ t \in Seq(Requests) /\ Len(s) = 1 /\ Len(t) = 2
          /\ s[1] = ofCal /\ t[1] = dcd /\ t[2] = reset
      BY <1>3
    <2> HIDE DEF s, t
    <2>3. r \in Seq(Requests) /\ Len(r) = 3 /\ r[1] = ofCal /\ r[2] = dcd /\ r[3] = reset
      <3>1. IsSeq(s) /\ IsSeq(t)
        BY <2>2, Zenon DEF IsSeq
      <3>2. r \in Seq(Requests)
        BY <2>2
      <3>3. /\ Len(r) = Len(s) + Len(t)
            /\ \A i \in 1 .. Len(s) : r[i] = s[i]
            /\ \A i \in 1 .. Len(t) : r[Len(s) + i] = t[i]
        BY <3>1, Joining
      <3> HIDE DEF r
      <3> QED
        BY <2>2, <3>2, <3>3
    <2> HIDE DEF r
    <2>4. IsSeq(r)
      BY <2>3, Zenon DEF IsSeq
    <2>5. /\ \A i \in 1 .. Len(r) :
                r[i] \in Requests /\ r[i].kind \in {"erase", "clearDcdAndReset", "reinitialize"}
          /\ \A i \in 1 .. Len(r) : r[i].kind = "erase" =>
                \E j \in i + 1 .. Len(r) : r[j].kind \in {"clearDcdAndReset", "reinitialize"}
          /\ 1 \in 1 .. Len(r) /\ 2 \in 1 .. Len(r)
      BY <1>2, <1>3, <2>3
    <2>6. Good(r)
      BY <1>4, <2>3, <2>4, <2>5, Zenon
    <2> HIDE DEF Good, first, rest
    <2> QED
      BY <1>1, <2>1, <2>6, Zenon
  <1>5. CASE appConfig.clearOfCal = TRUE /\ appConfig.clearDcd = FALSE
    <2> DEFINE s == <<ofCal>>
             t == <<again>>
             r == s \o t
    <2>1. first \o rest = r
      BY <1>5, Zenon
    <2>2. /\ s \in Seq(Requests) /\ t \in Seq(Requests) /\ Len(s) = 1 /\ Len(t) = 1
          /\ s[1] = ofCal /\ t[1] = again
      BY <1>3
    <2> HIDE DEF s, t
    <2>3. r \in Seq(Requests) /\ Len(r) = 2 /\ r[1] = ofCal /\ r[2] = again
      <3>1. IsSeq(s) /\ IsSeq(t)
        BY <2>2, Zenon DEF IsSeq
      <3>2. r \in Seq(Requests)
        BY <2>2
      <3>3. /\ Len(r) = Len(s) + Len(t)
            /\ \A i \in 1 .. Len(s) : r[i] = s[i]
            /\ \A i \in 1 .. Len(t) : r[Len(s) + i] = t[i]
        BY <3>1, Joining
      <3> HIDE DEF r
      <3> QED
        BY <2>2, <3>2, <3>3
    <2> HIDE DEF r
    <2>4. IsSeq(r)
      BY <2>3, Zenon DEF IsSeq
    <2>5. /\ \A i \in 1 .. Len(r) :
                /\ r[i] \in Requests /\ r[i].kind \in {"erase", "clearDcdAndReset", "reinitialize"}
                /\ r[i] # dcd
          /\ \A i \in 1 .. Len(r) : r[i].kind = "erase" =>
                \E j \in i + 1 .. Len(r) : r[j].kind \in {"clearDcdAndReset", "reinitialize"}
          /\ 1 \in 1 .. Len(r)
      BY <1>2, <1>3, <2>3
    <2>6. Good(r)
      BY <1>5, <2>3, <2>4, <2>5, Zenon
    <2> HIDE DEF Good, first, rest
    <2> QED
      BY <1>1, <2>1, <2>6, Zenon
  <1>6. CASE appConfig.clearOfCal = FALSE /\ appConfig.clearDcd = TRUE
    <2> DEFINE s == <<>>
             t == <<dcd, reset>>
             r == s \o t
    <2>1. first \o rest = r
      BY <1>6, Zenon
    <2>2. /\ s \in Seq(Requests) /\ t \in Seq(Requests) /\ Len(s) = 0 /\ Len(t) = 2
          /\ t[1] = dcd /\ t[2] = reset
      BY <1>3
    <2> HIDE DEF s, t
    <2>3. r \in Seq(Requests) /\ Len(r) = 2 /\ r[1] = dcd /\ r[2] = reset
      <3>1. IsSeq(s) /\ IsSeq(t)
        BY <2>2, Zenon DEF IsSeq
      <3>2. r \in Seq(Requests)
        BY <2>2
      <3>3. /\ Len(r) = Len(s) + Len(t)
            /\ \A i \in 1 .. Len(s) : r[i] = s[i]
            /\ \A i \in 1 .. Len(t) : r[Len(s) + i] = t[i]
        BY <3>1, Joining
      <3> HIDE DEF r
      <3> QED
        BY <2>2, <3>2, <3>3
    <2> HIDE DEF r
    <2>4. IsSeq(r)
      BY <2>3, Zenon DEF IsSeq
    <2>5. /\ \A i \in 1 .. Len(r) :
                /\ r[i] \in Requests /\ r[i].kind \in {"erase", "clearDcdAndReset", "reinitialize"}
                /\ r[i] # ofCal
          /\ \A i \in 1 .. Len(r) : r[i].kind = "erase" =>
                \E j \in i + 1 .. Len(r) : r[j].kind \in {"clearDcdAndReset", "reinitialize"}
          /\ 1 \in 1 .. Len(r)
      BY <1>2, <1>3, <2>3
    <2>6. Good(r)
      BY <1>6, <2>3, <2>4, <2>5, Zenon
    <2> HIDE DEF Good, first, rest
    <2> QED
      BY <1>1, <2>1, <2>6, Zenon
  <1>7. CASE appConfig.clearOfCal = FALSE /\ appConfig.clearDcd = FALSE
    <2>1. first \o rest = <<>> \o <<>>
      BY <1>7, Zenon
    <2> DEFINE r == <<>> \o <<>>
    <2>2. r \in Seq(Requests) /\ Len(r) = 0 /\ \A i \in 1 .. Len(r) : FALSE
      OBVIOUS
    <2> HIDE DEF r
    <2>3. Good(r)
      BY <1>7, <2>2, Zenon DEF IsSeq
    <2> HIDE DEF Good, first, rest
    <2> QED
      BY <1>1, <2>1, <2>3, Zenon DEF r
  <1> QED
    BY <1>4, <1>5, <1>6, <1>7, Zenon

\* The list of a session, with what each member comes from.
LEMMA ListingIs ==
    ASSUME FileInv, ConfigInv, pc \in Initialising
    PROVE  LET list == file.members["sensorList"]
           IN  /\ Listing = SensorList(list, saturates)
               /\ Listing \in Seq(Kept(list, saturates))
               /\ \A i \in 1 .. Len(Listing) : ComesFrom(Listing[i], list, saturates)
               /\ \A i \in 1 .. Len(Listing) :
                     LET c == Listing[i]
                     IN  /\ c.sensorId \in SensorIds /\ c.reportInterval_us \in 1 .. Word - 1
                         /\ c.sensorSpecific \in 0 .. Word - 1
                         /\ c.sniffEnabled \in 0 .. Word - 1
  <1> DEFINE list == file.members["sensorList"]
  <1>1. IsFile(file) /\ ParseJsonBatchFile(file) = "true" /\ appConfig = Configured
    BY DEF FileInv, ConfigInv
  <1>2. Listing = SensorList(list, saturates)
    BY <1>1, ConfiguredParts, Zenon DEF Listing
  <1>3. Listing \in Seq(Kept(list, saturates))
    BY <1>2, Lists, Zenon
  <1>4. \A k \in Keys(list) : IsEntry(list.members[k]) /\ ~EntryThrows(list.members[k])
    BY <1>1, ParsedFile, Zenon
  <1> HIDE DEF list
  <1>5. ASSUME NEW i \in 1 .. Len(Listing)
        PROVE  ComesFrom(Listing[i], list, saturates)
    <2>1. Listing[i] \in Kept(list, saturates)
      BY <1>3
    <2> QED
      BY <2>1, KeptEntries, Zenon
  <1>6. ASSUME NEW i \in 1 .. Len(Listing)
        PROVE  /\ Listing[i].sensorId \in SensorIds
               /\ Listing[i].reportInterval_us \in 1 .. Word - 1
               /\ Listing[i].sensorSpecific \in 0 .. Word - 1
               /\ Listing[i].sniffEnabled \in 0 .. Word - 1
    <2> DEFINE c == Listing[i]
               v == list.members[NameOf(c.sensorId)]
    <2>1. ComesFrom(c, list, saturates)
      BY <1>5
    <2> HIDE DEF c
    <2>2. IsEntry(v) /\ ~EntryThrows(v)
      BY <1>4, <2>1, Zenon DEF ComesFrom, Named
    <2>3. IsRate(RateOf(v))
      BY <2>2, RatesTyped, Zenon
    <2>4. /\ OptionValue(v, "sensorSpecific") \in 0 .. Word - 1
          /\ OptionValue(v, "sniffEnabled") \in 0 .. Word - 1
      BY <2>2, OptionsTyped, Zenon DEF Options
    <2>5. Interval(RateOf(v), saturates) \in 0 .. Word - 1
      BY <2>3, IntervalsFit, Zenon
    <2> HIDE DEF v
    <2>6. c.reportInterval_us \in 0 .. Word - 1 /\ c.reportInterval_us > 0
      BY <2>1, <2>5, Zenon DEF ComesFrom, v
    <2>7. c.reportInterval_us \in 1 .. Word - 1
      BY <2>6, UnitAssumption
    <2> QED
      BY <2>1, <2>4, <2>7, Zenon DEF ComesFrom, c, v
  <1> QED
    BY <1>2, <1>3, <1>5, <1>6, Zenon DEF list

\* Requests that are not for sensors are asked before those that are.
LEMMA AskedBefore ==
    ASSUME NEW reqs, IsSeq(reqs), NEW r, IsSeq(r), NEW list, NEW rest, NEW m \in Nat,
           Enabling(reqs, list, rest, 0, m), \A i \in 1 .. Len(r) : r[i].kind # "sensor"
    PROVE  Enabling(reqs \o r, list, rest, 0, m + Len(r))
  <1>1. Len(reqs) = m /\ \A i \in 1 .. m : reqs[i].kind # "sensor"
    BY DEF Enabling
  <1>2. /\ Len(r) \in Nat /\ Len(reqs \o r) = m + Len(r)
        /\ \A i \in 1 .. m : (reqs \o r)[i] = reqs[i]
        /\ \A i \in 1 .. m + Len(r) :
              i \in 1 .. m \/ (i - m \in 1 .. Len(r) /\ (reqs \o r)[i] = r[i - m])
    BY <1>1, Joining, ZenonT(60)
  <1> DEFINE t == reqs \o r
  <1> HIDE DEF t
  <1>3. \A i \in 1 .. m + Len(r) : t[i].kind # "sensor"
    BY <1>1, <1>2 DEF t
  <1>4. Len(t) = (m + Len(r)) + 0 /\ \A i \in 1 .. 0 : FALSE
    BY <1>2 DEF t
  <1>5. rest = [i \in 1 .. Len(list) - 0 |-> list[0 + i]]
    BY DEF Enabling
  <1> QED
    BY <1>3, <1>4, <1>5, Zenon DEF Enabling, t

\* One sensor more.
LEMMA AskedNext ==
    ASSUME NEW K, NEW list \in Seq(K), NEW reqs, IsSeq(reqs), NEW rest, NEW m \in Nat,
           NEW n \in Nat, n < Len(list), Enabling(reqs, list, rest, n, m)
    PROVE  /\ rest # <<>> /\ Head(rest) = list[n + 1]
           /\ Enabling(reqs \o <<SensorConfig(Head(rest))>>, list, Tail(rest), n + 1, m)
           /\ Tail(rest) = <<>> <=> ~(n + 1 < Len(list))
  <1> DEFINE L == Len(list)
             x == SensorConfig(Head(rest))
             t == reqs \o <<x>>
  <1>1. L \in Nat /\ \A i \in 1 .. L : list[i] \in K
    OBVIOUS
  <1>2. /\ Len(reqs) = m + n
        /\ \A i \in 1 .. m : reqs[i].kind # "sensor"
        /\ \A i \in 1 .. n : reqs[m + i] = SensorConfig(list[i])
        /\ rest = [i \in 1 .. L - n |-> list[n + i]]
    BY DEF Enabling
  <1> HIDE DEF L
  <1>3. L - n \in Nat /\ L - n >= 1 /\ rest \in Seq(K) /\ Len(rest) = L - n
    BY <1>1, <1>2 DEF L
  <1> DEFINE tail == Tail(rest)
  <1>a. \A i \in 1 .. L - n : rest[i] = list[n + i]
    BY <1>2, Zenon
  <1>4. rest # <<>> /\ Head(rest) = list[n + 1]
    <2>1. rest # <<>> /\ Head(rest) = rest[1] /\ 1 \in 1 .. L - n
      BY <1>3
    <2> QED
      BY <1>a, <2>1, Zenon
  <1>b. tail \in Seq(K) /\ Len(tail) = L - (n + 1) /\ \A i \in 1 .. L - (n + 1) : tail[i] = rest[i + 1]
    BY <1>1, <1>3, <1>4
  <1> HIDE DEF tail
  <1>5. tail = [i \in 1 .. L - (n + 1) |-> list[(n + 1) + i]]
    <2>1. tail = [i \in 1 .. L - (n + 1) |-> tail[i]]
      BY <1>b
    <2>2. ASSUME NEW i \in 1 .. L - (n + 1)
          PROVE  tail[i] = list[(n + 1) + i]
      <3>1. i + 1 \in 1 .. L - n /\ n + (i + 1) = (n + 1) + i
        BY <1>1
      <3> QED
        BY <1>a, <1>b, <3>1, Zenon
    <2> QED
      BY <2>1, <2>2, Zenon
  <1>6. tail = <<>> <=> ~(n + 1 < L)
    BY <1>1, <1>b
  <1> HIDE DEF x
  <1>7. /\ Len(t) = (m + n) + 1
        /\ \A i \in 1 .. m + n : t[i] = reqs[i]
        /\ t[(m + n) + 1] = x
    <2> DEFINE s == <<x>>
    <2>0. IsSeq(s)
      BY Single, Zenon
    <2>1. Len(s) = 1 /\ s[1] = x
      BY Single, Zenon
    <2> HIDE DEF s
    <2>2. /\ Len(reqs \o s) = Len(reqs) + Len(s)
          /\ \A i \in 1 .. Len(reqs) : (reqs \o s)[i] = reqs[i]
          /\ \A i \in 1 .. Len(s) : (reqs \o s)[Len(reqs) + i] = s[i]
      <3>1. ASSUME NEW a, NEW b, IsSeq(a), IsSeq(b)
            PROVE  /\ Len(a \o b) = Len(a) + Len(b)
                   /\ \A i \in 1 .. Len(a) : (a \o b)[i] = a[i]
                   /\ \A i \in 1 .. Len(b) : (a \o b)[Len(a) + i] = b[i]
        BY <3>1, Joining
      <3> QED
        BY <2>0, <3>1
    <2>3. 1 \in 1 .. 1
      OBVIOUS
    <2> QED
      BY <1>2, <2>1, <2>2, <2>3, Zenon DEF s
  <1> HIDE DEF t
  <1>8. Len(t) = m + (n + 1) /\ \A i \in 1 .. m : t[i].kind # "sensor"
    BY <1>2, <1>7
  <1>9. ASSUME NEW i \in 1 .. n + 1
        PROVE  t[m + i] = SensorConfig(list[i])
    <2>1. CASE i = n + 1
      <3>1. m + i = (m + n) + 1
        BY <2>1
      <3> QED
        BY <1>4, <1>7, <2>1, <3>1, Zenon DEF x
    <2>2. CASE i # n + 1
      <3>1. i \in 1 .. n /\ m + i \in 1 .. m + n
        BY <2>2
      <3> QED
        BY <1>2, <1>7, <3>1, Zenon
    <2> QED
      BY <2>1, <2>2
  <1>10. Enabling(t, list, tail, n + 1, m)
    BY <1>5, <1>8, <1>9, Zenon DEF Enabling, L
  <1> QED
    BY <1>4, <1>6, <1>10, Zenon DEF t, x, L, tail

\* Nothing is erased any more, and the sensors come after the reset.
LEMMA StillErased ==
    ASSUME NEW reqs, IsSeq(reqs), NEW r, IsSeq(r), \A i \in 1 .. Len(r) : r[i].kind # "erase"
    PROVE  /\ \A what : Erasing(reqs \o r, what) <=> Erasing(reqs, what)
           /\ Resets(reqs) => Resets(reqs \o r)
  <1> DEFINE t == reqs \o r
             n == Len(reqs)
  <1>1. /\ Len(r) \in Nat /\ n \in Nat /\ Len(t) = n + Len(r)
        /\ DOMAIN reqs = 1 .. n /\ DOMAIN t = 1 .. n + Len(r)
        /\ \A i \in 1 .. n : t[i] = reqs[i]
        /\ \A i \in 1 .. n + Len(r) :
              i \in 1 .. n \/ (i - n \in 1 .. Len(r) /\ t[i] = r[i - n])
    BY Joining
  <1> HIDE DEF t, n
  <1>2. \A i \in 1 .. n : i \in 1 .. n + Len(r)
    BY <1>1
  <1>3. \A i \in 1 .. n + Len(r) : t[i].kind = "erase" => i \in 1 .. n
    BY <1>1
  <1>4. ASSUME NEW what
        PROVE  Erasing(t, what) <=> Erasing(reqs, what)
    <2>1. [kind |-> "erase", what |-> what].kind = "erase"
      OBVIOUS
    <2> QED
      BY <1>1, <1>2, <1>3, <2>1, Zenon DEF Erasing
  <1>5. ASSUME Resets(reqs)
        PROVE  Resets(t)
    <2> SUFFICES ASSUME NEW i \in 1 .. n, reqs[i].kind = "erase"
                 PROVE  \E j \in i + 1 .. Len(t) :
                           /\ t[j].kind \in {"clearDcdAndReset", "reinitialize"}
                           /\ \A k \in DOMAIN t : t[k].kind = "sensor" => j < k
      BY <1>1, <1>3, Zenon DEF Resets
    <2>1. PICK j \in i + 1 .. n :
                 /\ reqs[j].kind \in {"clearDcdAndReset", "reinitialize"}
                 /\ \A k \in DOMAIN reqs : reqs[k].kind = "sensor" => j < k
      BY <1>1, <1>5, Zenon DEF Resets, n
    <2>2. j \in i + 1 .. Len(t) /\ j \in 1 .. n
      BY <1>1
    <2>3. ASSUME NEW k \in DOMAIN t, t[k].kind = "sensor"
          PROVE  j < k
      <3>1. CASE k \in 1 .. n
        BY <1>1, <2>1, <2>3, <3>1, Zenon
      <3>2. CASE k \notin 1 .. n
        BY <1>1, <2>2, <3>2
      <3> QED
        BY <3>1, <3>2
    <2> QED
      BY <1>1, <2>1, <2>2, <2>3, Zenon
  <1> QED
    BY <1>4, <1>5, Zenon DEF t

\* The steps outside of init and of the logging, and the others.
LEMMA Kinds ==
    ASSUME Next
    PROVE  \/ pc' \notin Initialising /\ UNCHANGED <<requests, defined, samples>>
              /\ (appConfig' = appConfig \/ do_logging) /\ log' = log
           \/ do_logging /\ pc' = "clear"
           \/ Clear \/ GetProdIds \/ SetDcdAutoSave \/ SetCalConfig \/ LogAllFrsRecords
           \/ EnableSensor \/ LogSample \/ Finish
  <1>1. CASE parseArgs \/ do_dfu
    BY <1>1 DEF parseArgs, do_dfu, End, inputVars, Initialising, Preparing
  <1>2. CASE do_template
    BY <1>2, Templating DEF Initialising, Preparing
  <1>3. CASE EditTemplate
    BY <1>3 DEF EditTemplate, Initialising, Preparing
  <1>4. CASE Fail
    BY <1>4 DEF Fail, End, inputVars, Initialising, Preparing
  <1>5. CASE do_logging
    <2>1. pc' = "ended" => pc' \notin Initialising
      BY DEF Initialising, Preparing
    <2> QED
      BY <1>5, <2>1, Logging, Zenon
  <1> QED
    BY <1>1, <1>2, <1>3, <1>4, <1>5, Zenon DEF Next

\* Nothing has been asked when the calibration is cleared.
LEMMA Cleared ==
    ASSUME ConfiguredInv, Clear
    PROVE  /\ IsSeq(requests') /\ Len(requests') \in Nat /\ DOMAIN requests' = 1 .. Len(requests')
           /\ \A i \in 1 .. Len(requests') : requests'[i] \in Requests /\ requests'[i].kind # "sensor"
           /\ Erasing(requests', "DYNAMIC_CALIBRATION") <=> appConfig.clearDcd
           /\ Erasing(requests', "DR_CAL") <=> appConfig.clearOfCal
           /\ Resets(requests')
  <1>1. appConfig.clearDcd \in BOOLEAN /\ appConfig.clearOfCal \in BOOLEAN
    BY DEF ConfiguredInv, TypeOK, Flags
  <1>2. requests = <<>>
    <2>1. pc = "clear" /\ pc \in Initialising /\ pc \in Preparing
      BY DEF Clear, Initialising, Preparing
    <2>2. IsSeq(requests) /\ Len(requests) = 0
      <3>1. PICK n \in 0 .. Len(Listing), m \in Nat :
               Enabling(requests, Listing, todo, n, m) /\ n = 0 /\ m = 0
        BY <2>1, Zenon DEF ConfiguredInv, EnabledInv
      <3>2. Len(requests) = m + n
        BY <3>1, Zenon DEF Enabling
      <3> QED
        BY <3>1, <3>2 DEF ConfiguredInv, EnabledInv
    <2>3. PICK S : requests \in Seq(S)
      BY <2>2, Zenon DEF IsSeq
    <2> QED
      BY <2>2, <2>3
  <1>3. PICK r :
          /\ IsSeq(r) /\ requests' = requests \o r
          /\ \A i \in 1 .. Len(r) :
                r[i] \in Requests
                /\ r[i].kind \in {"erase", "clearDcdAndReset", "reinitialize"}
          /\ (\E i \in 1 .. Len(r) : r[i] = [kind |-> "erase", what |-> "DYNAMIC_CALIBRATION"])
                <=> appConfig.clearDcd
          /\ (\E i \in 1 .. Len(r) : r[i] = [kind |-> "erase", what |-> "DR_CAL"])
                <=> appConfig.clearOfCal
          /\ \A i \in 1 .. Len(r) : r[i].kind = "erase" =>
                \E j \in i + 1 .. Len(r) : r[j].kind \in {"clearDcdAndReset", "reinitialize"}
    BY <1>1, Clearing, Zenon
  <1>4. PICK S : r \in Seq(S)
    BY <1>3, Zenon DEF IsSeq
  <1>5. requests' = r /\ DOMAIN r = 1 .. Len(r) /\ Len(r) \in Nat
    <2>1. <<>> \o r = r
      BY <1>4
    <2> QED
      BY <1>2, <1>3, <1>4, <2>1
  <1>6. \A i \in 1 .. Len(r) : r[i].kind # "sensor"
    BY <1>3
  <1>7. Resets(r)
    BY <1>3, <1>5, <1>6, Zenon DEF Resets
  <1> QED
    BY <1>3, <1>5, <1>6, <1>7, Zenon DEF Erasing

\* One request more.
LEMMA OneMore ==
    ASSUME NEW reqs, IsSeq(reqs), NEW x
    PROVE  /\ IsSeq(reqs \o <<x>>) /\ Len(reqs) \in Nat /\ DOMAIN reqs = 1 .. Len(reqs)
           /\ DOMAIN (reqs \o <<x>>) = 1 .. Len(reqs) + 1
           /\ \A i \in 1 .. Len(reqs) : (reqs \o <<x>>)[i] = reqs[i]
           /\ (reqs \o <<x>>)[Len(reqs) + 1] = x
           /\ \A i \in DOMAIN (reqs \o <<x>>) : i \in DOMAIN reqs \/ (reqs \o <<x>>)[i] = x
  <1> DEFINE s == <<x>>
             t == reqs \o s
  <1>1. IsSeq(s) /\ Len(s) = 1 /\ s[1] = x
    BY Single, Zenon
  <1> HIDE DEF s
  <1>2. /\ IsSeq(t) /\ Len(reqs) \in Nat /\ DOMAIN reqs = 1 .. Len(reqs)
        /\ DOMAIN t = 1 .. Len(reqs) + 1
        /\ \A i \in 1 .. Len(reqs) : t[i] = reqs[i]
        /\ t[Len(reqs) + 1] = x
    <2>1. /\ IsSeq(t) /\ Len(reqs) \in Nat /\ DOMAIN reqs = 1 .. Len(reqs)
          /\ DOMAIN t = 1 .. Len(reqs) + Len(s)
          /\ \A i \in 1 .. Len(reqs) : t[i] = reqs[i]
          /\ \A i \in 1 .. Len(s) : t[Len(reqs) + i] = s[i]
      <3>1. ASSUME NEW a, NEW b, IsSeq(a), IsSeq(b)
            PROVE  /\ IsSeq(a \o b) /\ Len(a) \in Nat /\ DOMAIN a = 1 .. Len(a)
                   /\ DOMAIN (a \o b) = 1 .. Len(a) + Len(b)
                   /\ \A i \in 1 .. Len(a) : (a \o b)[i] = a[i]
                   /\ \A i \in 1 .. Len(b) : (a \o b)[Len(a) + i] = b[i]
        BY <3>1, Joining
      <3>2. IsSeq(s)
        BY <1>1
      <3> QED
        BY <3>1, <3>2
    <2> HIDE DEF t
    <2> QED
      BY <1>1, <2>1
  <1> HIDE DEF t
  <1>3. \A i \in DOMAIN t : i \in DOMAIN reqs \/ i = Len(reqs) + 1
    BY <1>2
  <1>4. Len(reqs) + 1 \in DOMAIN t /\ \A i \in DOMAIN reqs : i \in DOMAIN t
    BY <1>2
  <1>5. \A i \in DOMAIN t : i \in DOMAIN reqs \/ t[i] = x
    BY <1>2, <1>3, Zenon
  <1> QED
    BY <1>2, <1>5, Zenon DEF t, s

\* A request that was made stays made, and so is the one that is added.
LEMMA OneMoreIs ==
    ASSUME NEW reqs, IsSeq(reqs), NEW x, NEW y, (\E i \in DOMAIN reqs : reqs[i] = y) \/ y = x
    PROVE  \E i \in DOMAIN (reqs \o <<x>>) : (reqs \o <<x>>)[i] = y
  <1> DEFINE t == reqs \o <<x>>
  <1>1. /\ Len(reqs) \in Nat /\ DOMAIN reqs = 1 .. Len(reqs) /\ DOMAIN t = 1 .. Len(reqs) + 1
        /\ \A i \in 1 .. Len(reqs) : t[i] = reqs[i]
        /\ t[Len(reqs) + 1] = x
    BY OneMore, Zenon
  <1> HIDE DEF t
  <1>2. Len(reqs) + 1 \in DOMAIN t /\ \A i \in DOMAIN reqs : i \in DOMAIN t
    BY <1>1
  <1> QED
    BY <1>1, <1>2, Zenon DEF t

\* What is erased, and the restart after it, stay ahead of the sensors.
LEMMA NextErased == ConfiguredInv /\ [Next]_vars => ErasedInv'
  <1> SUFFICES ASSUME ConfiguredInv, [Next]_vars PROVE ErasedInv'
    OBVIOUS
  <1>0. ErasedInv /\ IsSeq(requests)
    BY DEF ConfiguredInv, EnabledInv
  <1>1. CASE pc' \notin Initialising \ {"clear"}
    BY <1>1 DEF ErasedInv
  <1>2. CASE Clear
    BY <1>2, Cleared DEF Clear, ErasedInv
  <1>3. ASSUME pc \in Initialising \ {"clear"}, appConfig' = appConfig,
               NEW x, x.kind # "erase", requests' = requests \o <<x>>
        PROVE  ErasedInv'
    <2> DEFINE s == <<x>>
    <2>1. IsSeq(s) /\ Len(s) = 1 /\ s[1] = x
      BY Single, Zenon
    <2>2. \A i \in 1 .. Len(s) : s[i].kind # "erase"
      BY <1>3, <2>1
    <2> HIDE DEF s
    <2>3. /\ \A what : Erasing(requests \o s, what) <=> Erasing(requests, what)
          /\ Resets(requests) => Resets(requests \o s)
      BY <1>0, <2>1, <2>2, StillErased, Zenon
    <2> QED
      BY <1>0, <1>3, <2>3, Zenon DEF ErasedInv, s
  <1>4. CASE SetDcdAutoSave
    <2>1. [kind |-> "dcdAutoSave", is |-> appConfig.dcdAutoSave].kind # "erase"
      OBVIOUS
    <2>2. pc \in Initialising \ {"clear"} /\ appConfig' = appConfig
      BY <1>4 DEF SetDcdAutoSave, Initialising, Preparing
    <2> QED
      BY <1>3, <1>4, <2>1, <2>2, Zenon DEF SetDcdAutoSave, Ask
  <1>5. CASE SetCalConfig
    <2>1. [kind |-> "calConfig", mask |-> appConfig.calEnableMask].kind # "erase"
      OBVIOUS
    <2>2. pc \in Initialising \ {"clear"} /\ appConfig' = appConfig
      BY <1>5 DEF SetCalConfig, Initialising, Preparing
    <2> QED
      BY <1>3, <1>5, <2>1, <2>2, Zenon DEF SetCalConfig, Ask
  <1>6. CASE EnableSensor
    <2>1. SensorConfig(Head(todo)).kind # "erase"
      BY DEF SensorConfig
    <2>2. pc \in Initialising \ {"clear"} /\ appConfig' = appConfig
      BY <1>6 DEF EnableSensor, Initialising, Preparing
    <2> QED
      BY <1>3, <1>6, <2>1, <2>2, Zenon DEF EnableSensor, Ask
  <1>7. ASSUME pc \in Initialising \ {"clear"}, appConfig' = appConfig, requests' = requests
        PROVE  ErasedInv'
    BY <1>0, <1>7, Zenon DEF ErasedInv
  <1>8. CASE GetProdIds \/ LogAllFrsRecords \/ LogSample
    <2>1. pc \in Initialising \ {"clear"} /\ appConfig' = appConfig /\ requests' = requests
      BY <1>8 DEF GetProdIds, LogAllFrsRecords, LogSample, Initialising, Preparing
    <2> QED
      BY <1>7, <2>1, Zenon
  <1>9. CASE UNCHANGED vars
    <2>1. pc' = pc /\ appConfig' = appConfig /\ requests' = requests
      BY <1>9 DEF vars
    <2> QED
      BY <1>0, <2>1, Zenon DEF ErasedInv
  <1>10. CASE Finish \/ (do_logging /\ pc' = "clear")
    <2>1. pc' \notin Initialising \ {"clear"}
      BY <1>10 DEF Finish, End, Initialising, Preparing
    <2> QED
      BY <1>1, <2>1, Zenon
  <1>11. CASE Next
    BY <1>1, <1>2, <1>4, <1>5, <1>6, <1>8, <1>10, <1>11, Kinds, Zenon
  <1> QED
    BY <1>9, <1>11

\* Nothing takes back what was said of saving the calibration.
LEMMA NextAutoSave == ConfiguredInv /\ [Next]_vars => AutoSaveInv'
  <1> SUFFICES ASSUME ConfiguredInv, [Next]_vars PROVE AutoSaveInv'
    OBVIOUS
  <1> DEFINE Told  == Initialising \ {"clear", "prodIds", "dcdAutoSave"}
             asked == [kind |-> "dcdAutoSave", is |-> appConfig.dcdAutoSave]
  <1>0. /\ pc \in Told => \E i \in DOMAIN requests : requests[i] = asked
        /\ IsSeq(requests)
    BY Zenon DEF ConfiguredInv, EnabledInv, AutoSaveInv
  <1>1. CASE pc' \notin Told
    BY <1>1, Zenon DEF AutoSaveInv
  <1>2. ASSUME appConfig' = appConfig, \E i \in DOMAIN requests' : requests'[i] = asked
        PROVE  AutoSaveInv'
    BY <1>2, Zenon DEF AutoSaveInv
  <1>3. CASE SetDcdAutoSave
    <2>1. appConfig' = appConfig
      BY <1>3 DEF SetDcdAutoSave
    <2>2. requests' = requests \o <<asked>>
      BY <1>3, Zenon DEF SetDcdAutoSave, Ask
    <2>3. \E i \in DOMAIN (requests \o <<asked>>) : (requests \o <<asked>>)[i] = asked
      <3> HIDE DEF asked
      <3> QED
        BY <1>0, OneMoreIs
    <2> QED
      BY <1>2, <2>1, <2>2, <2>3, Zenon
  <1>4. ASSUME pc \in Told, appConfig' = appConfig, NEW x, requests' = requests \o <<x>>
        PROVE  AutoSaveInv'
    <2>1. \E i \in DOMAIN requests' : requests'[i] = asked
      <3> HIDE DEF asked
      <3>1. \E i \in DOMAIN (requests \o <<x>>) : (requests \o <<x>>)[i] = asked
        BY <1>0, <1>4, OneMoreIs
      <3> QED
        BY <1>4, <3>1, Zenon
    <2> QED
      BY <1>2, <1>4, <2>1, Zenon
  <1>5. CASE SetCalConfig
    <2>1. pc \in Told /\ appConfig' = appConfig
      BY <1>5 DEF SetCalConfig, Initialising, Preparing
    <2> QED
      BY <1>4, <1>5, <2>1, Zenon DEF SetCalConfig, Ask
  <1>6. CASE EnableSensor
    <2>1. pc \in Told /\ appConfig' = appConfig
      BY <1>6 DEF EnableSensor, Initialising, Preparing
    <2> QED
      BY <1>4, <1>6, <2>1, Zenon DEF EnableSensor, Ask
  <1>7. CASE LogAllFrsRecords \/ LogSample
    <2>1. pc \in Told /\ appConfig' = appConfig /\ requests' = requests
      BY <1>7 DEF LogAllFrsRecords, LogSample, Initialising, Preparing
    <2> QED
      BY <1>0, <1>2, <2>1, Zenon
  <1>8. CASE Clear \/ GetProdIds \/ Finish \/ (do_logging /\ pc' = "clear")
    <2>1. pc' \notin Told
      BY <1>8 DEF Clear, GetProdIds, Finish, End, Initialising, Preparing
    <2> QED
      BY <1>1, <2>1, Zenon
  <1>9. CASE UNCHANGED vars
    <2>1. pc' = pc /\ appConfig' = appConfig /\ requests' = requests
      BY <1>9 DEF vars
    <2> QED
      BY <1>0, <1>1, <1>2, <2>1, Zenon
  <1>10. CASE Next
    <2>1. pc' \notin Initialising => pc' \notin Told
      OBVIOUS
    <2> QED
      BY <1>1, <1>3, <1>5, <1>6, <1>7, <1>8, <1>10, <2>1, Kinds, Zenon
  <1> QED
    BY <1>9, <1>10

\* A sequence is one over every set that has all its members.
LEMMA TypedSeq ==
    ASSUME NEW s, IsSeq(s), NEW P, \A i \in DOMAIN s : s[i] \in P
    PROVE  s \in Seq(P)
  <1>1. PICK S : s \in Seq(S)
    BY Zenon DEF IsSeq
  <1>2. Len(s) \in Nat /\ s = [i \in 1 .. Len(s) |-> s[i]] /\ DOMAIN s = 1 .. Len(s)
    BY <1>1
  <1>3. s \in [1 .. Len(s) -> P]
    BY <1>2
  <1> QED
    BY <1>2, <1>3

\* Everything that is asked is a request.
LEMMA NextRequests == ConfiguredInv /\ [Next]_vars => requests' \in Seq(Requests)
  <1> SUFFICES ASSUME ConfiguredInv, [Next]_vars PROVE requests' \in Seq(Requests)
    OBVIOUS
  <1>0. /\ requests \in Seq(Requests)
        /\ appConfig.calEnableMask \in 0 .. 255 /\ appConfig.dcdAutoSave \in BOOLEAN
    <2>1. IsSeq(requests) /\ \A i \in DOMAIN requests : requests[i] \in Requests
      BY DEF ConfiguredInv, TypeOK, EnabledInv
    <2>2. requests \in Seq(Requests)
      BY <2>1, TypedSeq, Zenon
    <2> QED
      BY <2>2 DEF ConfiguredInv, TypeOK, Flags
  <1>1. ASSUME NEW x \in Requests
        PROVE  requests \o <<x>> \in Seq(Requests)
    BY <1>0
  <1>2. CASE Clear
    <2>1. IsSeq(requests') /\ \A i \in DOMAIN requests' : requests'[i] \in Requests
      BY <1>2, Cleared, Zenon
    <2> QED
      BY <2>1, TypedSeq, Zenon
  <1>3. CASE SetDcdAutoSave
    <2>1. [kind |-> "dcdAutoSave", is |-> appConfig.dcdAutoSave] \in Requests
      BY <1>0, RequestTypes, Zenon
    <2> QED
      BY <1>1, <1>3, <2>1, Zenon DEF SetDcdAutoSave, Ask
  <1>4. CASE SetCalConfig
    <2>1. [kind |-> "calConfig", mask |-> appConfig.calEnableMask] \in Requests
      BY <1>0, RequestTypes, Zenon
    <2> QED
      BY <1>1, <1>4, <2>1, Zenon DEF SetCalConfig, Ask
  <1>a. ASSUME pc \in Initialising
        PROVE  \A i \in 1 .. Len(Listing) :
                     LET c == Listing[i]
                     IN  /\ c.sensorId \in SensorIds /\ c.reportInterval_us \in 1 .. Word - 1
                         /\ c.sensorSpecific \in 0 .. Word - 1
                         /\ c.sniffEnabled \in 0 .. Word - 1
    BY <1>a, ListingIs, Zenon DEF ConfiguredInv
  <1>b. ASSUME pc \in Initialising
        PROVE  Len(Listing) \in Nat /\ DOMAIN Listing = 1 .. Len(Listing)
    <2>1. Listing \in Seq(Kept(file.members["sensorList"], saturates))
      BY <1>b, ListingIs, Zenon DEF ConfiguredInv
    <2> QED
      BY <2>1
  <1>5. CASE EnableSensor
    <2>1. pc = "enable" /\ pc \in Initialising
      BY <1>5 DEF EnableSensor, Initialising
    <2>2. PICK n \in 0 .. Len(Listing), m \in Nat :
             /\ Enabling(requests, Listing, todo, n, m)
             /\ pc = "enable" <=> pc \notin Preparing /\ n < Len(Listing)
      BY <2>1, Zenon DEF ConfiguredInv, EnabledInv
    <2>3. n \in Nat /\ n + 1 \in 1 .. Len(Listing) /\ n < Len(Listing)
      BY <1>b, <2>1, <2>2
    <2>4. Head(todo) = Listing[n + 1]
      <3>1. Listing \in Seq(Kept(file.members["sensorList"], saturates))
        BY <2>1, ListingIs, Zenon DEF ConfiguredInv
      <3>2. IsSeq(requests)
        BY DEF ConfiguredInv, EnabledInv
      <3> QED
        BY <2>2, <2>3, <3>1, <3>2, AskedNext, Zenon
    <2> DEFINE c == Head(todo)
    <2>5. /\ c.sensorId \in SensorIds /\ c.reportInterval_us \in 1 .. Word - 1
          /\ c.sensorSpecific \in 0 .. Word - 1 /\ c.sniffEnabled \in 0 .. Word - 1
      BY <1>a, <2>1, <2>3, <2>4, Zenon
    <2>6. SensorConfig(c) \in Requests
      BY <2>5, SensorTypes, Zenon
    <2> QED
      BY <1>1, <1>5, <2>6, Zenon DEF EnableSensor, Ask
  <1>6. CASE Finish
    <2> DEFINE off  == [i \in DOMAIN Listing |-> [kind |-> "off", sensorId |-> Listing[i].sensorId]]
               save == [kind |-> "saveDcd"]
    <2>1. pc \in Initialising
      BY <1>6 DEF Finish, Initialising
    <2>2. requests' = requests \o (off \o <<save>>)
      BY <1>6, Zenon DEF Finish, Ask, Listing
    <2>3. save \in Requests
      BY RequestTypes, Zenon
    <2>4. off \in Seq(Requests)
      <3>1. \A i \in DOMAIN Listing : [kind |-> "off", sensorId |-> Listing[i].sensorId] \in Requests
        BY <1>a, <1>b, <2>1, RequestTypes, Zenon
      <3>2. off \in [1 .. Len(Listing) -> Requests]
        BY <1>b, <2>1, <3>1, Zenon
      <3> HIDE DEF off
      <3> QED
        BY <1>b, <2>1, <3>2
    <2> HIDE DEF off, save
    <2>5. off \o <<save>> \in Seq(Requests)
      BY <2>3, <2>4
    <2> QED
      BY <1>0, <2>2, <2>5
  <1>7. CASE GetProdIds \/ LogAllFrsRecords \/ LogSample
    <2>1. requests' = requests
      BY <1>7 DEF GetProdIds, LogAllFrsRecords, LogSample
    <2> QED
      BY <1>0, <2>1
  <1>8. CASE do_logging \/ UNCHANGED vars
    <2>1. requests' = requests
      BY <1>8, Logging DEF vars
    <2> QED
      BY <1>0, <2>1
  <1>9. CASE Next
    BY <1>0, <1>2, <1>3, <1>4, <1>5, <1>6, <1>7, <1>8, <1>9, Kinds, Zenon
  <1> QED
    BY <1>8, <1>9

\* Enabling goes through the list from its beginning to its end.
LEMMA NextEnabled == ConfiguredInv /\ [Next]_vars => EnabledInv'
  <1> SUFFICES ASSUME ConfiguredInv, [Next]_vars PROVE EnabledInv'
    OBVIOUS
  <1> DEFINE To(p, reqs, list, rest) ==
                 \E n \in 0 .. Len(list), m \in Nat :
                     /\ Enabling(reqs, list, rest, n, m)
                     /\ p \in Preparing => n = 0
                     /\ p = "clear" => m = 0
                     /\ p = "enable" <=> p \notin Preparing /\ n < Len(list)
  <1>0. IsSeq(requests) /\ IsSeq(requests')
    <2>1. requests' \in Seq(Requests)
      BY NextRequests
    <2> QED
      BY <2>1, Zenon DEF ConfiguredInv, EnabledInv, IsSeq
  <1>1. CASE pc' \notin Initialising
    BY <1>0, <1>1 DEF EnabledInv
  <1>2. ASSUME To(pc', requests', Listing', todo')
        PROVE  EnabledInv'
    BY <1>0, <1>2, Zenon DEF EnabledInv
  <1>3. ASSUME pc \in Initialising
        PROVE  To(pc, requests, Listing, todo)
    BY <1>3, Zenon DEF ConfiguredInv, EnabledInv
  <1>4. ASSUME pc \in Initialising
        PROVE  /\ Listing \in Seq(Kept(file.members["sensorList"], saturates))
               /\ Len(Listing) \in Nat /\ Listing # <<>>
    <2>1. Listing \in Seq(Kept(file.members["sensorList"], saturates))
      BY <1>4, ListingIs, Zenon DEF ConfiguredInv
    <2> QED
      BY <1>4, <2>1 DEF ConfiguredInv, ConfigInv
  <1>5. ASSUME NEW r, IsSeq(r), \A i \in 1 .. Len(r) : r[i].kind # "sensor",
               pc \in Preparing, requests' = requests \o r, Listing' = Listing, todo' = todo,
               pc' \in Preparing, pc' # "clear"
        PROVE  EnabledInv'
    <2>1. pc \in Initialising
      BY <1>5 DEF Initialising
    <2>2. PICK m \in Nat : Enabling(requests, Listing, todo, 0, m)
      BY <1>3, <1>5, <2>1, Zenon
    <2>3. Enabling(requests \o r, Listing, todo, 0, m + Len(r))
      BY <1>0, <1>5, <2>2, AskedBefore, Zenon
    <2>4. m + Len(r) \in Nat /\ 0 \in 0 .. Len(Listing) /\ pc' # "enable"
      <3>1. PICK S : r \in Seq(S)
        BY <1>5, Zenon DEF IsSeq
      <3> QED
        BY <1>4, <1>5, <2>1, <3>1 DEF Preparing
    <2>5. To(pc', requests \o r, Listing, todo)
      BY <1>5, <2>3, <2>4, Zenon
    <2> QED
      BY <1>2, <1>5, <2>5, Zenon
  <1>6. CASE do_logging /\ pc' = "clear"
    <2>1. /\ pc = "run" /\ requests' = requests /\ todo' = Listing' /\ Listing' = Configured.pSensorsToEnable
          /\ ParseJsonBatchFile(file) = "true"
      <3>1. "clear" # "ended"
        OBVIOUS
      <3> QED
        BY <1>6, <3>1, Logging, Zenon DEF Listing
    <2> DEFINE list == Listing'
               all  == file.members["sensorList"]
    <2>2. list \in Seq(Kept(all, saturates))
      <3>1. IsFile(file)
        BY DEF ConfiguredInv, FileInv
      <3>2. list = SensorList(all, saturates)
        BY <2>1, <3>1, ConfiguredParts, Zenon
      <3> QED
        BY <3>2, Lists, Zenon
    <2> HIDE DEF list, all
    <2>3. requests' = <<>>
      BY <2>1 DEF ConfiguredInv, Untouched
    <2>4. Enabling(<<>>, list, list, 0, 0)
      <3>1. list = [i \in 1 .. Len(list) - 0 |-> list[0 + i]]
        BY <2>2
      <3>2. Len(<<>>) = 0 + 0 /\ \A i \in 1 .. 0 : FALSE
        OBVIOUS
      <3> QED
        BY <3>1, <3>2, Zenon DEF Enabling
    <2>5. 0 \in 0 .. Len(list) /\ 0 \in Nat /\ "clear" # "enable" /\ "clear" \in Preparing
      BY <2>2 DEF Preparing
    <2>6. To("clear", <<>>, list, list)
      BY <2>4, <2>5, Zenon
    <2> QED
      BY <1>2, <1>6, <2>1, <2>3, <2>6, Zenon DEF list
  <1>7. CASE Clear
    <2>1. /\ pc \in Preparing /\ pc \in Initialising /\ pc = "clear" /\ pc' = "prodIds"
          /\ Listing' = Listing /\ todo' = todo
      BY <1>7 DEF Clear, Preparing, Initialising, Listing
    <2>2. /\ IsSeq(requests') /\ Len(requests') \in Nat
          /\ \A i \in 1 .. Len(requests') : requests'[i].kind # "sensor"
      BY <1>7, Cleared, Zenon
    <2>3. PICK m \in Nat : Enabling(requests, Listing, todo, 0, m)
      BY <1>3, <2>1, Zenon
    <2>4. Enabling(requests', Listing, todo, 0, Len(requests'))
      <3>1. todo = [i \in 1 .. Len(Listing) - 0 |-> Listing[0 + i]]
        BY <2>3, Zenon DEF Enabling
      <3>2. Len(requests') = Len(requests') + 0 /\ \A i \in 1 .. 0 : FALSE
        BY <2>2
      <3> QED
        BY <2>2, <3>1, <3>2, Zenon DEF Enabling
    <2>5. 0 \in 0 .. Len(Listing) /\ pc' # "enable" /\ pc' # "clear" /\ pc' \in Preparing
      BY <1>4, <2>1 DEF Preparing
    <2>6. To(pc', requests', Listing, todo)
      BY <2>2, <2>4, <2>5, Zenon
    <2> QED
      BY <1>2, <2>1, <2>6, Zenon
  <1>8. CASE SetDcdAutoSave
    <2> DEFINE x == [kind |-> "dcdAutoSave", is |-> appConfig.dcdAutoSave]
               r == <<x>>
    <2>1. x.kind # "sensor"
      OBVIOUS
    <2>2. /\ pc \in Preparing /\ pc' \in Preparing /\ pc' # "clear"
          /\ Listing' = Listing /\ todo' = todo
      BY <1>8 DEF SetDcdAutoSave, Preparing, Listing
    <2>3. requests' = requests \o r
      BY <1>8, Zenon DEF SetDcdAutoSave, Ask
    <2> HIDE DEF x
    <2>4. IsSeq(r) /\ \A i \in 1 .. Len(r) : r[i].kind # "sensor"
      <3>1. IsSeq(r) /\ Len(r) = 1 /\ r[1] = x
        BY Single, Zenon
      <3> HIDE DEF r
      <3> QED
        BY <2>1, <3>1
    <2> HIDE DEF r
    <2> QED
      BY <1>5, <2>2, <2>3, <2>4, Zenon
  <1>9. CASE SetCalConfig
    <2> DEFINE x == [kind |-> "calConfig", mask |-> appConfig.calEnableMask]
               r == <<x>>
    <2>1. x.kind # "sensor"
      OBVIOUS
    <2>2. /\ pc \in Preparing /\ pc' \in Preparing /\ pc' # "clear"
          /\ Listing' = Listing /\ todo' = todo
      BY <1>9 DEF SetCalConfig, Preparing, Listing
    <2>3. requests' = requests \o r
      BY <1>9, Zenon DEF SetCalConfig, Ask
    <2> HIDE DEF x
    <2>4. IsSeq(r) /\ \A i \in 1 .. Len(r) : r[i].kind # "sensor"
      <3>1. IsSeq(r) /\ Len(r) = 1 /\ r[1] = x
        BY Single, Zenon
      <3> HIDE DEF r
      <3> QED
        BY <2>1, <3>1
    <2> HIDE DEF r
    <2> QED
      BY <1>5, <2>2, <2>3, <2>4, Zenon
  <1>10. CASE GetProdIds
    <2>1. /\ pc \in Initialising /\ pc \in Preparing /\ pc' \in Preparing /\ pc' # "clear" /\ pc' # "enable"
          /\ requests' = requests /\ Listing' = Listing /\ todo' = todo
      BY <1>10 DEF GetProdIds, Preparing, Initialising, Listing
    <2>2. To(pc', requests, Listing, todo)
      BY <1>3, <2>1, Zenon
    <2> QED
      BY <1>2, <2>1, <2>2, Zenon
  <1>11. CASE LogAllFrsRecords
    <2>1. /\ pc \in Initialising /\ pc \in Preparing /\ pc' \notin Preparing /\ pc' = "enable" /\ pc' # "clear"
          /\ requests' = requests /\ Listing' = Listing /\ todo' = todo
      BY <1>11 DEF LogAllFrsRecords, Preparing, Initialising, Listing
    <2>2. 0 < Len(Listing)
      BY <1>4, <2>1
    <2>3. To(pc', requests, Listing, todo)
      BY <1>3, <2>1, <2>2, Zenon
    <2> QED
      BY <1>2, <2>1, <2>3, Zenon
  <1>12. CASE EnableSensor
    <2>1. /\ pc = "enable" /\ pc \in Initialising /\ Listing' = Listing
          /\ pc' = (IF todo' = <<>> THEN "log" ELSE "enable")
          /\ todo' = Tail(todo)
      BY <1>12 DEF EnableSensor, Initialising, Listing
    <2>2. PICK n \in 0 .. Len(Listing), m \in Nat :
             /\ Enabling(requests, Listing, todo, n, m)
             /\ pc = "enable" <=> pc \notin Preparing /\ n < Len(Listing)
      BY <1>3, <2>1, Zenon
    <2>3. n \in Nat /\ n + 1 \in 0 .. Len(Listing) /\ n < Len(Listing)
      BY <1>4, <2>1, <2>2
    <2>4. /\ Enabling(requests \o <<SensorConfig(Head(todo))>>, Listing, Tail(todo), n + 1, m)
          /\ Tail(todo) = <<>> <=> ~(n + 1 < Len(Listing))
      BY <1>0, <1>4, <2>1, <2>2, <2>3, AskedNext, Zenon
    <2>5. requests' = requests \o <<SensorConfig(Head(todo))>>
      BY <1>12, Zenon DEF EnableSensor, Ask
    <2>6. /\ pc' \notin Preparing /\ pc' # "clear"
          /\ pc' = "enable" <=> n + 1 < Len(Listing)
      BY <2>1, <2>4 DEF Preparing
    <2>7. To(pc', requests', Listing, todo')
      BY <2>1, <2>3, <2>4, <2>5, <2>6, Zenon
    <2> QED
      BY <1>2, <2>1, <2>7, Zenon
  <1>13. CASE LogSample
    <2>1. pc \in Initialising /\ pc' = pc /\ requests' = requests /\ Listing' = Listing /\ todo' = todo
      BY <1>13 DEF LogSample, Initialising, Listing
    <2> QED
      BY <1>2, <1>3, <2>1, Zenon
  <1>14. CASE UNCHANGED vars
    <2>1. pc' = pc /\ requests' = requests /\ Listing' = Listing /\ todo' = todo
      BY <1>14 DEF vars, Listing
    <2> QED
      BY <1>1, <1>2, <1>3, <2>1, Zenon
  <1>15. CASE Finish
    <2>1. pc' \notin Initialising
      BY <1>15 DEF Finish, End, Initialising, Preparing
    <2> QED
      BY <1>1, <2>1, Zenon
  <1>16. CASE Next
    BY <1>1, <1>6, <1>7, <1>8, <1>9, <1>10, <1>11, <1>12, <1>13, <1>15, <1>16, Kinds, Zenon
  <1> QED
    BY <1>14, <1>16

-----------------------------------------------------------------------------
(* What is written.                                                        *)

Frs(record, name) == [kind |-> "frs", record |-> record, name |-> name]
Message           == [kind |-> "message"]
OtherNames        == {Sh2FrsRecords[i] : i \in 1 .. 46}

\* No record of the table has the name of the static calibration.
LEMMA RecordNames == DOMAIN Sh2FrsRecords = 1 .. 46 /\ "scd" \notin OtherNames
  <1>1. DOMAIN Sh2FrsRecords = 1 .. 46
    BY DEF Sh2FrsRecords
  <1>2. \A i \in 1 .. 46 : Sh2FrsRecords[i] # "scd"
    BY DEF Sh2FrsRecords
  <1> QED
    BY <1>1, <1>2, Zenon DEF OtherNames

\* The records of the table, as they are written.
LEMMA OtherRecords ==
    FlattenSeq([i \in DOMAIN Sh2FrsRecords |-> LogFrsRecord(Sh2FrsRecords[i], Sh2FrsRecords[i])])
       \in Seq([kind: {"frs"}, record: OtherNames, name: OtherNames])
  <1> DEFINE R == [kind: {"frs"}, record: OtherNames, name: OtherNames]
             f == [i \in DOMAIN Sh2FrsRecords |-> LogFrsRecord(Sh2FrsRecords[i], Sh2FrsRecords[i])]
  <1>1. ASSUME NEW n \in OtherNames
        PROVE  LogFrsRecord(n, n) \in Seq(R)
    <2>1. [kind |-> "frs", record |-> n, name |-> n] \in R
      OBVIOUS
    <2> HIDE DEF R
    <2> QED
      BY <2>1 DEF LogFrsRecord
  <1>2. \A i \in 1 .. 46 : Sh2FrsRecords[i] \in OtherNames
    BY Zenon DEF OtherNames
  <1> HIDE DEF R
  <1>3. f \in [1 .. 46 -> Seq(R)]
    BY <1>1, <1>2, RecordNames, Zenon
  <1> HIDE DEF f
  <1>4. 46 \in Nat
    OBVIOUS
  <1>5. FlattenSeq(f) \in Seq(R)
    BY <1>3, <1>4, Flattened, Zenon
  <1> QED
    BY <1>5, Zenon DEF f, R

\* A sequence of one.
LEMMA OneOf == ASSUME NEW S, NEW x \in S PROVE <<x>> \in Seq(S) /\ Len(<<x>>) = 1 /\ <<x>>[1] = x
  OBVIOUS

\* The static calibration, or the nominal one with a message.
LEMMA ScdWritten ==
    ASSUME NEW a, NEW has,
           a = (IF "scd" \in has THEN <<Frs("scd", "scd")>>
                ELSE <<Message>> \o (IF "nominal_scd" \in has THEN <<Frs("nominal_scd", "scd")>>
                                     ELSE <<>>))
    PROVE  /\ IsSeq(a)
           /\ \A i \in DOMAIN a : a[i].kind \in {"frs", "message"}
           /\ Documents(a, has)
  <1> DEFINE own == Frs("scd", "scd")
             nom == Frs("nominal_scd", "scd")
             S   == {own, nom, Message}
  <1>1. /\ IsScd(own) /\ IsScd(nom) /\ ~IsScd(Message)
        /\ own.record = "scd" /\ nom.record = "nominal_scd" /\ Message.kind = "message"
        /\ own.kind = "frs" /\ nom.kind = "frs" /\ "frs" # "message" /\ "nominal_scd" # "scd"
    BY DEF Frs, Message, IsScd
  <1> HIDE DEF own, nom
  <1>2. CASE "scd" \in has
    <2>1. a = <<own>>
      BY <1>2, Zenon DEF own
    <2>2. a \in Seq(S) /\ DOMAIN a = {1} /\ a[1] = own
      <3>1. a \in Seq(S) /\ Len(a) = 1 /\ a[1] = own
        <4>1. own \in S
          OBVIOUS
        <4> QED
          BY <2>1, <4>1, OneOf, Zenon
      <3>2. DOMAIN a = 1 .. 1 /\ 1 .. 1 = {1}
        BY <3>1
      <3> QED
        BY <3>1, <3>2
    <2>3. IsSeq(a) /\ {1} \in SUBSET (DOMAIN a) /\ has \cap {"scd", "nominal_scd"} # {}
      BY <1>2, <2>2, Zenon DEF IsSeq
    <2>4. Documents(a, has)
      BY <1>1, <1>2, <2>2, <2>3, Zenon DEF Documents
    <2> QED
      BY <1>1, <2>2, <2>3, <2>4, Zenon
  <1>3. CASE "scd" \notin has /\ "nominal_scd" \in has
    <2> DEFINE s == <<Message>>
               t == <<nom>>
    <2>1. a = s \o t
      BY <1>3, Zenon DEF nom
    <2>2. s \in Seq(S) /\ t \in Seq(S) /\ Len(s) = 1 /\ Len(t) = 1 /\ s[1] = Message /\ t[1] = nom
      OBVIOUS
    <2> HIDE DEF s, t
    <2>3. a \in Seq(S) /\ DOMAIN a = {1, 2} /\ a[1] = Message /\ a[2] = nom
      BY <2>1, <2>2, SMTT(30)
    <2>4. IsSeq(a) /\ {2} \in SUBSET (DOMAIN a) /\ has \cap {"scd", "nominal_scd"} # {}
      BY <1>3, <2>3, Zenon DEF IsSeq
    <2>5. \A i \in DOMAIN a : i \in {2} <=> IsScd(a[i])
      BY <1>1, <2>3
    <2>6. Documents(a, has)
      BY <1>1, <1>3, <2>3, <2>4, <2>5, Zenon DEF Documents
    <2> QED
      BY <1>1, <2>3, <2>4, <2>6, Zenon
  <1>4. CASE "scd" \notin has /\ "nominal_scd" \notin has
    <2> DEFINE s == <<Message>>
               t == <<>>
    <2>1. a = s \o t
      BY <1>4, Zenon
    <2>2. s \in Seq(S) /\ t \in Seq(S) /\ Len(s) = 1 /\ Len(t) = 0 /\ s[1] = Message
      OBVIOUS
    <2> HIDE DEF s, t
    <2>3. a \in Seq(S) /\ DOMAIN a = {1} /\ a[1] = Message
      <3>1. a \in Seq(S) /\ Len(a) = 1 /\ a[1] = Message
        BY <2>1, <2>2
      <3>2. DOMAIN a = 1 .. 1 /\ 1 .. 1 = {1}
        BY <3>1
      <3> QED
        BY <3>1, <3>2
    <2>4. IsSeq(a) /\ {} \in SUBSET (DOMAIN a) /\ has \cap {"scd", "nominal_scd"} = {}
      BY <1>4, <2>3, Zenon DEF IsSeq
    <2>5. \A i \in DOMAIN a : i \in {} <=> IsScd(a[i])
      BY <1>1, <2>3, Zenon
    <2>6. Documents(a, has)
      BY <1>1, <1>4, <2>3, <2>4, <2>5, Zenon DEF Documents
    <2> QED
      BY <1>1, <2>3, <2>4, <2>6, Zenon
  <1> QED
    BY <1>2, <1>3, <1>4, Zenon

\* Records come after others, and others after them.
LEMMA DocumentsMore ==
    ASSUME NEW records, IsSeq(records), NEW r, IsSeq(r), NEW has, Documents(records, has),
           \A i \in DOMAIN r : ~IsScd(r[i]) /\ r[i].kind # "message"
    PROVE  Documents(records \o r, has)
  <1> DEFINE t == records \o r
             n == Len(records)
  <1>1. /\ n \in Nat /\ Len(r) \in Nat /\ DOMAIN records = 1 .. n /\ DOMAIN t = 1 .. n + Len(r)
        /\ DOMAIN r = 1 .. Len(r)
        /\ \A i \in 1 .. n : t[i] = records[i]
        /\ \A i \in 1 .. n + Len(r) :
              i \in 1 .. n \/ (i - n \in 1 .. Len(r) /\ t[i] = r[i - n])
    BY Joining, ZenonT(60)
  <1> HIDE DEF t, n
  <1>2. PICK scd \in SUBSET (DOMAIN records) :
          /\ \A i \in DOMAIN records : i \in scd <=> IsScd(records[i])
          /\ IF has \cap {"scd", "nominal_scd"} = {} THEN scd = {} ELSE \E i : scd = {i}
          /\ \A i \in scd : records[i].record = "scd" <=> "scd" \in has
          /\ (\E i \in DOMAIN records : records[i].kind = "message") <=> "scd" \notin has
    BY Zenon DEF Documents
  <1>3. \A i \in 1 .. n : i \in 1 .. n + Len(r)
    BY <1>1
  <1>4. scd \in SUBSET (DOMAIN t)
    BY <1>1, <1>2, <1>3
  <1>5. \A i \in DOMAIN t : i \notin 1 .. n => ~IsScd(t[i]) /\ t[i].kind # "message"
    BY <1>1, Zenon
  <1>6. \A i \in DOMAIN t : i \in scd <=> IsScd(t[i])
    BY <1>1, <1>2, <1>5, Zenon
  <1>7. \A i \in scd : t[i].record = "scd" <=> "scd" \in has
    <2>1. \A i \in scd : t[i] = records[i]
      BY <1>1, <1>2, Zenon
    <2> QED
      BY <1>2, <2>1, Zenon
  <1>8. (\E i \in DOMAIN t : t[i].kind = "message") <=> "scd" \notin has
    BY <1>1, <1>2, <1>3, <1>5, Zenon
  <1> QED
    BY <1>2, <1>4, <1>6, <1>7, <1>8, Zenon DEF Documents, t

\* What is written before has no part in the static calibration.
LEMMA DocumentsAfter ==
    ASSUME NEW before, IsSeq(before), NEW records, IsSeq(records), NEW has, Documents(records, has),
           \A i \in DOMAIN before : ~IsScd(before[i]) /\ before[i].kind # "message"
    PROVE  Documents(before \o records, has)
  <1> DEFINE t == before \o records
             n == Len(before)
             L == Len(records)
  <1>1. /\ n \in Nat /\ L \in Nat /\ DOMAIN before = 1 .. n /\ DOMAIN t = 1 .. n + L
        /\ DOMAIN records = 1 .. L
        /\ \A i \in 1 .. n : t[i] = before[i]
        /\ \A i \in 1 .. L : t[n + i] = records[i]
        /\ \A i \in 1 .. n + L : i \in 1 .. n \/ (i - n \in 1 .. L /\ t[i] = records[i - n])
    BY Joining
  <1> HIDE DEF t, n, L
  <1>2. PICK scd \in SUBSET (DOMAIN records) :
          /\ \A i \in DOMAIN records : i \in scd <=> IsScd(records[i])
          /\ IF has \cap {"scd", "nominal_scd"} = {} THEN scd = {} ELSE \E i : scd = {i}
          /\ \A i \in scd : records[i].record = "scd" <=> "scd" \in has
          /\ (\E i \in DOMAIN records : records[i].kind = "message") <=> "scd" \notin has
    BY Zenon DEF Documents
  <1> DEFINE moved == {n + i : i \in scd}
  <1>3. \A i \in DOMAIN t : i \in moved <=> i - n \in scd
    <2>1. \A i \in DOMAIN t : n + (i - n) = i /\ \A j \in scd : i = n + j => i - n = j
      BY <1>1, <1>2
    <2> QED
      BY <2>1, Zenon
  <1>4. moved \in SUBSET (DOMAIN t)
    BY <1>1, <1>2
  <1>5. \A i \in DOMAIN t :
           \/ i \in 1 .. n /\ i \notin moved /\ ~IsScd(t[i]) /\ t[i].kind # "message"
           \/ i - n \in DOMAIN records /\ t[i] = records[i - n]
    <2>1. \A i \in 1 .. n : i - n \notin scd
      BY <1>1, <1>2
    <2> QED
      BY <1>1, <1>3, <2>1, Zenon
  <1>6. \A i \in DOMAIN t : i \in moved <=> IsScd(t[i])
    <2>1. \A i \in DOMAIN t : i - n \in DOMAIN records => (i - n \in scd <=> IsScd(records[i - n]))
      BY <1>2
    <2> QED
      BY <1>3, <1>5, <2>1, Zenon
  <1>7. IF has \cap {"scd", "nominal_scd"} = {} THEN moved = {} ELSE \E i : moved = {i}
    <2>1. CASE has \cap {"scd", "nominal_scd"} = {}
      BY <1>2, <2>1, Zenon
    <2>2. CASE has \cap {"scd", "nominal_scd"} # {}
      <3>1. PICK j : scd = {j}
        BY <1>2, <2>2, Zenon
      <3>2. moved = {n + j}
        BY <3>1, Zenon
      <3> QED
        BY <2>2, <3>2, Zenon
    <2> QED
      BY <2>1, <2>2, Zenon
  <1>8. \A i \in moved : t[i].record = "scd" <=> "scd" \in has
    <2>1. \A j \in scd : t[n + j] = records[j]
      BY <1>1, <1>2, Zenon
    <2>2. ASSUME NEW j \in scd
          PROVE  t[n + j].record = "scd" <=> "scd" \in has
      BY <1>2, <2>1, Zenon
    <2> QED
      BY <2>2, Zenon
  <1>9. (\E i \in DOMAIN t : t[i].kind = "message") <=> "scd" \notin has
    <2>1. ASSUME NEW j \in DOMAIN records
          PROVE  n + j \in DOMAIN t /\ t[n + j] = records[j]
      BY <1>1
    <2>2. ASSUME NEW i \in DOMAIN t, t[i].kind = "message"
          PROVE  \E j \in DOMAIN records : records[j].kind = "message"
      BY <1>5, <2>2, Zenon
    <2> QED
      BY <1>2, <2>1, <2>2, Zenon
  <1> HIDE DEF moved
  <1> QED
    BY <1>4, <1>6, <1>7, <1>8, <1>9, Zenon DEF Documents, t

\* What LogAllFrsRecords appends.
LEMMA RecordsWritten ==
    ASSUME LogAllFrsRecords, IsSeq(log)
    PROVE  \E r : /\ IsSeq(r) /\ log' = log \o r
                  /\ \A i \in DOMAIN r : r[i].kind \in {"frs", "message"}
                  /\ Documents(r, hub.records)
  <1> DEFINE own == Frs("scd", "scd")
             a   == IF "scd" \in hub.records THEN <<own>>
                    ELSE <<Message>> \o (IF "nominal_scd" \in hub.records
                                         THEN <<Frs("nominal_scd", "scd")>> ELSE <<>>)
             f   == FlattenSeq([i \in DOMAIN Sh2FrsRecords |->
                        LogFrsRecord(Sh2FrsRecords[i], Sh2FrsRecords[i])])
             R   == [kind: {"frs"}, record: OtherNames, name: OtherNames]
  <1>1. log' = log \o a \o f
    <2> DEFINE scd == LogFrsRecord("scd", "scd")
    <2>1. log' = log \o (IF scd # <<>> THEN scd
                         ELSE <<Message>> \o LogFrsRecord("nominal_scd", "scd")) \o f
      BY Zenon DEF LogAllFrsRecords, Message
    <2>2. CASE "scd" \in hub.records
      <3>1. scd = <<own>>
        BY <2>2, Zenon DEF LogFrsRecord, Frs
      <3>2. <<own>> # <<>>
        OBVIOUS
      <3> HIDE DEF f, own
      <3> QED
        BY <2>1, <2>2, <3>1, <3>2, Zenon
    <2>3. CASE "scd" \notin hub.records
      <3>1. scd = <<>>
        BY <2>3, Zenon DEF LogFrsRecord
      <3>2. LogFrsRecord("nominal_scd", "scd")
               = IF "nominal_scd" \in hub.records THEN <<Frs("nominal_scd", "scd")>> ELSE <<>>
        BY Zenon DEF LogFrsRecord, Frs
      <3> HIDE DEF f, own, scd
      <3> QED
        BY <2>1, <2>3, <3>1, <3>2, Zenon
    <2> QED
      BY <2>2, <2>3
  <1>2. /\ IsSeq(a)
        /\ \A i \in DOMAIN a : a[i].kind \in {"frs", "message"}
        /\ Documents(a, hub.records)
    BY ScdWritten, Zenon
  <1>3. f \in Seq(R)
    BY OtherRecords, Zenon
  <1> HIDE DEF a, f
  <1>4. IsSeq(f) /\ \A i \in DOMAIN f : f[i] \in R
    <2>1. \A i \in DOMAIN f : f[i] \in R
      <3> HIDE DEF R
      <3> QED
        BY <1>3
    <2> QED
      BY <1>3, <2>1, Zenon DEF IsSeq
  <1>5. \A i \in DOMAIN f : f[i].kind = "frs" /\ f[i].name \in OtherNames
    BY <1>4
  <1>6. \A i \in DOMAIN f : ~IsScd(f[i]) /\ f[i].kind # "message" /\ f[i].kind \in {"frs", "message"}
    BY <1>5, RecordNames DEF IsScd
  <1>7. Documents(a \o f, hub.records)
    BY <1>2, <1>4, <1>6, DocumentsMore, Zenon
  <1>8. IsSeq(a \o f) /\ \A i \in DOMAIN (a \o f) : (a \o f)[i].kind \in {"frs", "message"}
    <2> DEFINE t == a \o f
    <2>1. /\ IsSeq(t) /\ DOMAIN a = 1 .. Len(a) /\ DOMAIN f = 1 .. Len(f)
          /\ DOMAIN t = 1 .. Len(a) + Len(f)
          /\ \A i \in 1 .. Len(a) : t[i] = a[i]
          /\ \A i \in 1 .. Len(a) + Len(f) :
                i \in 1 .. Len(a) \/ (i - Len(a) \in 1 .. Len(f) /\ t[i] = f[i - Len(a)])
      BY <1>2, <1>4, Joining
    <2> HIDE DEF t
    <2> QED
      BY <1>2, <1>6, <2>1, Zenon DEF t
  <1>9. log' = log \o (a \o f)
    <2>1. PICK A : log \in Seq(A)
      BY Zenon DEF IsSeq
    <2>2. PICK B : a \in Seq(B)
      BY <1>2, Zenon DEF IsSeq
    <2> HIDE DEF R
    <2> DEFINE U == A \cup B \cup R
    <2>3. log \in Seq(U) /\ a \in Seq(U) /\ f \in Seq(U)
      BY <1>3, <2>1, <2>2
    <2> HIDE DEF U
    <2>4. ASSUME NEW S, NEW s \in Seq(S), NEW t \in Seq(S), NEW u \in Seq(S)
          PROVE  (s \o t) \o u = s \o (t \o u)
      BY ConcatAssociative
    <2>5. (log \o a) \o f = log \o (a \o f)
      BY <2>3, <2>4
    <2> QED
      BY <1>1, <2>5, Zenon
  <1> QED
    BY <1>7, <1>8, <1>9, Zenon

\* What is appended to a log that describes itself: definitions, or samples of
\* channels that are defined.
LEMMA DescribesMore ==
    ASSUME NEW records, NEW ids, NEW ned, NEW sample, Describes(records, ids, ned, sample),
           NEW r, IsSeq(r), NEW more,
           \A i \in DOMAIN r : r[i].kind = "definition" => AsDefined(r[i], ned),
           \A i \in DOMAIN r : r[i].kind = "sample" =>
               AsLogged(r[i], ned, sample) /\ \E j \in DOMAIN records : Defines(records[j], r[i].sensor),
           \A id \in more : \E i \in DOMAIN r : Defines(r[i], id)
    PROVE  Describes(records \o r, ids \cup more, ned, sample)
  <1> DEFINE t == records \o r
             n == Len(records)
             L == Len(r)
  <1>0. IsSeq(records)
    BY DEF Describes
  <1>1. /\ n \in Nat /\ L \in Nat /\ DOMAIN records = 1 .. n /\ DOMAIN t = 1 .. n + L
        /\ DOMAIN r = 1 .. L /\ IsSeq(t)
        /\ \A i \in 1 .. n : t[i] = records[i]
        /\ \A i \in 1 .. L : t[n + i] = r[i]
        /\ \A i \in 1 .. n + L : i \in 1 .. n \/ (i - n \in 1 .. L /\ t[i] = r[i - n])
    BY <1>0, Joining
  <1> HIDE DEF t, n, L
  <1>2. \A i \in 1 .. n : i \in DOMAIN t /\ t[i] = records[i]
    BY <1>1
  <1>3. \A i \in 1 .. L : n + i \in DOMAIN t /\ t[n + i] = r[i]
    BY <1>1
  <1>4. ASSUME NEW id \in ids \cup more
        PROVE  \E i \in DOMAIN t : Defines(t[i], id)
    <2>1. CASE id \in ids
      BY <1>1, <1>2, <2>1, Zenon DEF Describes
    <2>2. CASE id \in more
      BY <1>1, <1>3, <2>2, Zenon
    <2> QED
      BY <2>1, <2>2
  <1>5. ASSUME NEW i \in DOMAIN t, t[i].kind = "definition"
        PROVE  AsDefined(t[i], ned)
    <2>1. CASE i \in 1 .. n
      BY <1>1, <1>5, <2>1, Zenon DEF Describes
    <2>2. CASE i \notin 1 .. n
      BY <1>1, <1>5, <2>2, Zenon
    <2> QED
      BY <2>1, <2>2
  <1>6. ASSUME NEW i \in DOMAIN t, t[i].kind = "sample"
        PROVE  AsLogged(t[i], ned, sample) /\ \E j \in 1 .. i - 1 : Defines(t[j], t[i].sensor)
    <2>1. CASE i \in 1 .. n
      <3>1. t[i] = records[i] /\ i \in DOMAIN records
        BY <1>1, <2>1, Zenon
      <3>2. /\ AsLogged(records[i], ned, sample)
            /\ \E j \in 1 .. i - 1 : Defines(records[j], records[i].sensor)
        BY <1>6, <3>1, Zenon DEF Describes
      <3>3. \A j \in 1 .. i - 1 : j \in 1 .. n
        BY <1>1, <2>1
      <3> QED
        BY <1>2, <3>1, <3>2, <3>3, Zenon
    <2>2. CASE i \notin 1 .. n
      <3>1. i - n \in DOMAIN r /\ t[i] = r[i - n]
        BY <1>1, <2>2, Zenon
      <3>2. AsLogged(t[i], ned, sample) /\ \E j \in DOMAIN records : Defines(records[j], t[i].sensor)
        BY <1>6, <3>1, Zenon
      <3>3. \A j \in 1 .. n : j \in 1 .. i - 1
        BY <1>1, <2>2
      <3> QED
        BY <1>1, <1>2, <3>2, <3>3, Zenon
    <2> QED
      BY <2>1, <2>2
  <1> QED
    BY <1>1, <1>4, <1>5, <1>6, Zenon DEF Describes, t

\* Only do_logging changes the configuration, and nothing changes the hub.
LEMMA Stays ==
    ASSUME Next
    PROVE  hub' = hub /\ (appConfig' = appConfig \/ do_logging)
  <1>1. CASE parseArgs \/ do_dfu
    BY <1>1 DEF parseArgs, do_dfu, inputVars
  <1>2. CASE do_template \/ do_logging
    BY <1>2, Templating, Logging DEF inputVars
  <1>3. CASE EditTemplate
    BY <1>3 DEF EditTemplate
  <1>4. CASE Fail \/ Clear \/ GetProdIds \/ SetDcdAutoSave \/ SetCalConfig \/ LogAllFrsRecords
             \/ EnableSensor \/ LogSample \/ Finish
    BY <1>4 DEF Fail, Clear, GetProdIds, SetDcdAutoSave, SetCalConfig, LogAllFrsRecords,
                EnableSensor, LogSample, Finish, inputVars
  <1> QED
    BY <1>1, <1>2, <1>3, <1>4 DEF Next

\* The product is written at the end of the log.
LEMMA ProductWritten ==
    ASSUME GetProdIds, IsSeq(log)
    PROVE  log' = log \o <<[kind |-> "product"]>>
  <1>1. PICK S : log \in Seq(S)
    BY Zenon DEF IsSeq
  <1>2. log' = Append(log, [kind |-> "product"])
    BY Zenon DEF GetProdIds
  <1>3. ASSUME NEW x
        PROVE  Append(log, x) = log \o <<x>>
    <2>1. log \in Seq(S \cup {x}) /\ x \in S \cup {x}
      BY <1>1
    <2> QED
      BY <2>1
  <1> QED
    BY <1>2, <1>3, Zenon

\* The sensors that are enabled are sensors.
LEMMA EnabledTyped == TypeOK => Enabled \subseteq SensorIds
  <1> SUFFICES ASSUME TypeOK, NEW i \in DOMAIN requests, requests[i].kind = "sensor"
               PROVE  requests[i].sensorId \in SensorIds
    BY Zenon DEF Enabled, SensorRequests
  <1> DEFINE r == requests[i]
  <1>1. r \in Requests
    BY DEF TypeOK
  <1> HIDE DEF r
  <1>2. r.kind = "sensor"
    BY DEF r
  <1>3. r.sensorId \in SensorIds
    BY <1>1, <1>2 DEF Requests
  <1> QED
    BY <1>3 DEF r

\* A sample, after a definition if its channel has none.
LEMMA SampleWritten ==
    ASSUME ConfiguredInv, LogSample
    PROVE  /\ DefinedInv' /\ defined' \subseteq SensorIds
           /\ \E r : /\ IsSeq(r) /\ log' = log \o r
                     /\ \A i \in DOMAIN r : r[i].kind \in {"definition", "sample"}
  <1>1. PICK id \in Enabled :
          /\ HasChannel(id)
          /\ defined' = defined \cup {id}
          /\ log' = log
                 \o (IF id \in defined THEN <<>>
                     ELSE <<[kind |-> "definition", sensor |-> id, is |-> ChannelDefinition(id, Ned)]>>)
                 \o <<[kind |-> "sample", sensor |-> id, fields |-> LoggedFields(id, HubSample, Ned)]>>
    BY Zenon DEF LogSample, Ned
  <1> DEFINE def    == [kind |-> "definition", sensor |-> id, is |-> ChannelDefinition(id, Ned)]
             sample == [kind |-> "sample", sensor |-> id, fields |-> LoggedFields(id, HubSample, Ned)]
             d      == IF id \in defined THEN <<>> ELSE <<def>>
             s      == <<sample>>
  <1>2. id \in SensorIds /\ defined \subseteq SensorIds
    <2>1. TypeOK
      BY DEF ConfiguredInv
    <2> QED
      BY <2>1, EnabledTyped DEF TypeOK
  <1>3. Describes(log, defined, Ned, HubSample) /\ IsSeq(log)
    BY Zenon DEF ConfiguredInv, DefinedInv, Describes
  <1>4. /\ def.kind = "definition" /\ sample.kind = "sample" /\ sample.sensor = id
        /\ Defines(def, id) /\ AsDefined(def, Ned) /\ AsLogged(sample, Ned, HubSample)
    <2>1. /\ def.kind = "definition" /\ def.sensor = id /\ def.is = ChannelDefinition(id, Ned)
          /\ sample.kind = "sample" /\ sample.sensor = id
          /\ sample.fields = LoggedFields(id, HubSample, Ned)
      BY Zenon
    <2> HIDE DEF def, sample
    <2> QED
      BY <1>1, <1>2, <2>1, Zenon DEF Defines, AsDefined, AsLogged
  <1>5. log' = log \o d \o s
    BY <1>1, Zenon
  <1> HIDE DEF def, sample
  <1>6. IsSeq(s) /\ DOMAIN s = 1 .. 1 /\ s[1] = sample
    <2>1. s \in Seq({sample}) /\ DOMAIN s = 1 .. 1 /\ s[1] = sample
      OBVIOUS
    <2> QED
      BY <2>1, Zenon DEF IsSeq
  <1>7. IsSeq(d) /\ \A i \in DOMAIN d : d[i] = def
    <2>1. CASE id \in defined
      <3>1. <<>> \in Seq({def}) /\ DOMAIN <<>> = {}
        OBVIOUS
      <3>2. d = <<>>
        BY <2>1, Zenon
      <3> QED
        BY <3>1, <3>2, Zenon DEF IsSeq
    <2>2. CASE id \notin defined
      <3>1. <<def>> \in Seq({def}) /\ \A i \in DOMAIN <<def>> : <<def>>[i] = def
        OBVIOUS
      <3>2. d = <<def>>
        BY <2>2, Zenon
      <3> QED
        BY <3>1, <3>2, Zenon DEF IsSeq
    <2> QED
      BY <2>1, <2>2
  <1>8. id \notin defined => \E i \in DOMAIN d : d[i] = def
    <2>1. 1 \in DOMAIN <<def>> /\ <<def>>[1] = def
      OBVIOUS
    <2> QED
      BY <2>1, Zenon
  <1> HIDE DEF d, s
  <1>9. Describes(log \o d, defined \cup {id}, Ned, HubSample)
    <2> DEFINE more == IF id \in defined THEN {} ELSE {id}
    <2>1. \A i \in DOMAIN d : d[i].kind = "definition" => AsDefined(d[i], Ned)
      BY <1>4, <1>7, Zenon
    <2>2. \A i \in DOMAIN d : d[i].kind = "sample" =>
             AsLogged(d[i], Ned, HubSample) /\ \E j \in DOMAIN log : Defines(log[j], d[i].sensor)
      <3>1. "definition" # "sample"
        OBVIOUS
      <3> QED
        BY <1>4, <1>7, <3>1, Zenon
    <2>3. \A x \in more : \E i \in DOMAIN d : Defines(d[i], x)
      BY <1>4, <1>8, Zenon
    <2>4. defined \cup more = defined \cup {id}
      OBVIOUS
    <2> HIDE DEF more
    <2>5. Describes(log \o d, defined \cup more, Ned, HubSample)
      BY <1>3, <1>7, <2>1, <2>2, <2>3, DescribesMore, Zenon
    <2> QED
      BY <2>4, <2>5, Zenon
  <1>10. Describes((log \o d) \o s, defined \cup {id}, Ned, HubSample)
    <2>1. \A i \in DOMAIN s : s[i] = sample
      BY <1>6
    <2>2. \A i \in DOMAIN s : s[i].kind = "definition" => AsDefined(s[i], Ned)
      <3>1. "definition" # "sample"
        OBVIOUS
      <3> QED
        BY <1>4, <2>1, <3>1, Zenon
    <2>3. \E j \in DOMAIN (log \o d) : Defines((log \o d)[j], id)
      BY <1>9, Zenon DEF Describes
    <2>4. \A i \in DOMAIN s : s[i].kind = "sample" =>
             /\ AsLogged(s[i], Ned, HubSample)
             /\ \E j \in DOMAIN (log \o d) : Defines((log \o d)[j], s[i].sensor)
      BY <1>4, <2>1, <2>3, Zenon
    <2>5. \A x \in {} : \E i \in DOMAIN s : Defines(s[i], x)
      OBVIOUS
    <2> DEFINE before == log \o d
               ids    == defined \cup {id}
    <2> HIDE DEF before
    <2>6. Describes(before \o s, ids \cup {}, Ned, HubSample)
      <3> HIDE DEF ids
      <3>1. Describes(before, ids, Ned, HubSample)
        BY <1>9, Zenon DEF before, ids
      <3>2. \A i \in DOMAIN s : s[i].kind = "sample" =>
               AsLogged(s[i], Ned, HubSample) /\ \E j \in DOMAIN before : Defines(before[j], s[i].sensor)
        BY <2>4, Zenon DEF before
      <3> QED
        BY <1>6, <2>2, <2>5, <3>1, <3>2, DescribesMore, Zenon
    <2>7. ids \cup {} = ids
      OBVIOUS
    <2> QED
      BY <2>6, <2>7, Zenon DEF before
  <1>11. DefinedInv'
    <2>1. Ned' = Ned /\ HubSample' = HubSample
      BY Zenon DEF LogSample, inputVars, Ned, HubSample
    <2> QED
      BY <1>1, <1>5, <1>10, <2>1, Zenon DEF DefinedInv
  <1>12. /\ IsSeq(d \o s)
         /\ \A i \in DOMAIN (d \o s) : (d \o s)[i].kind \in {"definition", "sample"}
    <2> DEFINE t == d \o s
    <2>0. IsSeq(d) /\ IsSeq(s)
      BY <1>6, <1>7
    <2>1. /\ IsSeq(t) /\ DOMAIN d = 1 .. Len(d) /\ DOMAIN s = 1 .. Len(s)
          /\ DOMAIN t = 1 .. Len(d) + Len(s)
          /\ \A i \in 1 .. Len(d) : t[i] = d[i]
          /\ \A i \in 1 .. Len(d) + Len(s) :
                i \in 1 .. Len(d) \/ (i - Len(d) \in 1 .. Len(s) /\ t[i] = s[i - Len(d)])
      BY <2>0, Joining
    <2>2. \A i \in DOMAIN s : s[i].kind \in {"definition", "sample"}
      BY <1>4, <1>6
    <2>3. \A i \in DOMAIN d : d[i].kind \in {"definition", "sample"}
      BY <1>4, <1>7
    <2> HIDE DEF t
    <2> QED
      BY <2>1, <2>2, <2>3, Zenon DEF t
  <1>13. log' = log \o (d \o s)
    <2>1. PICK A : log \in Seq(A)
      BY <1>3, Zenon DEF IsSeq
    <2>2. PICK B : d \in Seq(B)
      BY <1>7, Zenon DEF IsSeq
    <2>3. PICK C : s \in Seq(C)
      BY <1>6, Zenon DEF IsSeq
    <2> DEFINE U == A \cup B \cup C
    <2>4. log \in Seq(U) /\ d \in Seq(U) /\ s \in Seq(U)
      BY <2>1, <2>2, <2>3
    <2> HIDE DEF U
    <2>5. ASSUME NEW S, NEW a \in Seq(S), NEW b \in Seq(S), NEW c \in Seq(S)
          PROVE  (a \o b) \o c = a \o (b \o c)
      BY ConcatAssociative
    <2>6. (log \o d) \o s = log \o (d \o s)
      BY <2>4, <2>5
    <2> QED
      BY <1>5, <2>6, Zenon
  <1>14. defined' \subseteq SensorIds
    BY <1>1, <1>2
  <1> QED
    BY <1>11, <1>12, <1>13, <1>14, Zenon

-----------------------------------------------------------------------------
(* The list and what the file wants.                                       *)

\* The members of the list are the sensors that are wanted, but for those
\* whose period does not fit, and each has the period nearest to its rate.
LEMMA KeptAreWanted ==
    ASSUME IsFile(file), ParseJsonBatchFile(file) = "true"
    PROVE  LET K == Kept(file.members["sensorList"], saturates)
           IN  /\ \A c \in K :
                     /\ c.sensorId \in Wanted
                     /\ TooSlow(c.sensorId)
                           \/ Nearest(c.reportInterval_us, RateOf(Entry(c.sensorId)))
                     /\ c.sensorSpecific = OptionValue(Entry(c.sensorId), "sensorSpecific")
                     /\ c.sniffEnabled = OptionValue(Entry(c.sensorId), "sniffEnabled")
               /\ \A id \in Wanted : TooSlow(id) \/ \E c \in K : c.sensorId = id
  <1> DEFINE list == file.members["sensorList"]
             K    == Kept(list, saturates)
  <1>1. \A k \in Keys(list) : IsEntry(list.members[k]) /\ ~EntryThrows(list.members[k])
    BY ParsedFile, Zenon
  <1>2. ASSUME NEW id \in SensorIds
        PROVE  /\ Entry(id) = list.members[NameOf(id)]
               /\ Listed(id) <=> Named(list, id)
    BY Zenon DEF Entry, Listed, Named
  <1>3. ASSUME NEW id \in SensorIds, Named(list, id)
        PROVE  IsRate(RateOf(Entry(id)))
    <2>1. IsEntry(Entry(id)) /\ ~EntryThrows(Entry(id))
      BY <1>1, <1>2, <1>3, Zenon DEF Named
    <2> QED
      BY <2>1, RatesTyped, Zenon
  <1> HIDE DEF list
  <1>4. ASSUME NEW c \in K
        PROVE  /\ c.sensorId \in Wanted
               /\ TooSlow(c.sensorId) \/ Nearest(c.reportInterval_us, RateOf(Entry(c.sensorId)))
               /\ c.sensorSpecific = OptionValue(Entry(c.sensorId), "sensorSpecific")
               /\ c.sniffEnabled = OptionValue(Entry(c.sensorId), "sniffEnabled")
    <2> DEFINE id   == c.sensorId
               rate == RateOf(Entry(id))
               p    == Interval(rate, saturates)
    <2>1. ComesFrom(c, list, saturates)
      BY KeptEntries, Zenon
    <2>2. id \in SensorIds /\ Named(list, id)
      BY <2>1, Zenon DEF ComesFrom
    <2>3. /\ c.reportInterval_us = p /\ p > 0
          /\ c.sensorSpecific = OptionValue(Entry(id), "sensorSpecific")
          /\ c.sniffEnabled = OptionValue(Entry(id), "sniffEnabled")
      BY <1>2, <2>1, <2>2, Zenon DEF ComesFrom
    <2>4. IsRate(rate)
      BY <1>3, <2>2, Zenon
    <2>5. rate.num > 0 /\ ~(rate.num > 2 * Second * rate.den)
      BY <2>3, <2>4, IntervalsFit, Zenon
    <2>6. id \in Wanted
      BY <1>2, <2>2, <2>5, Zenon DEF Wanted, TooFast
    <2>7. TooSlow(id) \/ Nearest(p, rate)
      BY <2>4, <2>5, IntervalsFit, Zenon DEF TooSlow
    <2> QED
      BY <2>3, <2>6, <2>7, Zenon
  <1>5. ASSUME NEW id \in Wanted, ~TooSlow(id)
        PROVE  \E c \in K : c.sensorId = id
    <2> DEFINE rate == RateOf(Entry(id))
    <2>1. id \in SensorIds /\ Listed(id) /\ rate.num > 0 /\ ~TooFast(id)
      BY Zenon DEF Wanted
    <2>2. Named(list, id) /\ Entry(id) = list.members[NameOf(id)]
      BY <1>2, <2>1, Zenon
    <2>3. IsRate(rate)
      BY <1>3, <2>1, <2>2, Zenon
    <2>4. Interval(rate, saturates) > 0
      BY <1>5, <2>1, <2>3, IntervalsFit, Zenon DEF TooFast, TooSlow
    <2> QED
      BY <2>1, <2>2, <2>4, KeptEntries, ZenonT(60)
  <1> QED
    BY <1>4, <1>5, Zenon DEF list

\* A step keeps the log described: LogSample writes the definition first.
LEMMA NextDefined == ConfiguredInv /\ [Next]_vars => DefinedInv'
  <1> SUFFICES ASSUME ConfiguredInv, [Next]_vars PROVE DefinedInv'
    OBVIOUS
  <1>0. Describes(log, defined, Ned, HubSample) /\ IsSeq(log)
    BY Zenon DEF ConfiguredInv, DefinedInv, Describes
  <1>1. ASSUME appConfig' = appConfig, hub' = hub, Describes(log', defined', Ned, HubSample)
        PROVE  DefinedInv'
    <2>1. Ned' = Ned /\ HubSample' = HubSample
      BY <1>1, Zenon DEF Ned, HubSample
    <2> QED
      BY <1>1, <2>1, Zenon DEF DefinedInv
  <1>2. ASSUME appConfig' = appConfig, hub' = hub, log' = log, defined' = defined
        PROVE  DefinedInv'
    BY <1>0, <1>1, <1>2, Zenon
  <1>3. ASSUME appConfig' = appConfig, hub' = hub, defined' = defined,
               NEW r, IsSeq(r), log' = log \o r,
               \A i \in DOMAIN r : r[i].kind # "definition" /\ r[i].kind # "sample"
        PROVE  DefinedInv'
    <2>1. Describes(log \o r, defined \cup {}, Ned, HubSample)
      BY <1>0, <1>3, DescribesMore, Zenon
    <2>2. defined \cup {} = defined
      OBVIOUS
    <2> QED
      BY <1>1, <1>3, <2>1, <2>2, Zenon
  <1>4. CASE do_logging
    <2>1. pc = "run" /\ defined' = defined /\ (log' = log \/ log' = <<>>)
      BY <1>4, Logging, Zenon
    <2>2. log = <<[kind |-> "old"]>> /\ defined = {}
      BY <2>1 DEF ConfiguredInv, Untouched
    <2>3. IsSeq(log') /\ \A i \in DOMAIN log' : log'[i].kind = "old"
      <3>1. CASE log' = log
        BY <1>0, <2>2, <3>1
      <3>2. CASE log' = <<>>
        <4>1. log' \in Seq({}) /\ DOMAIN log' = {}
          BY <3>2
        <4> QED
          BY <4>1, Zenon DEF IsSeq
      <3> QED
        BY <2>1, <3>1, <3>2
    <2>4. defined' = {} /\ "old" # "definition" /\ "old" # "sample"
      BY <2>1, <2>2
    <2>5. Describes(log', defined', Ned', HubSample')
      BY <2>3, <2>4, Zenon DEF Describes
    <2> QED
      BY <2>5, Zenon DEF DefinedInv
  <1>5. CASE GetProdIds
    <2> DEFINE x == [kind |-> "product"]
               r == <<x>>
    <2>1. appConfig' = appConfig /\ hub' = hub /\ defined' = defined
      BY <1>5 DEF GetProdIds, inputVars
    <2>2. log' = log \o r
      BY <1>0, <1>5, ProductWritten, Zenon
    <2>3. x.kind = "product" /\ "product" # "definition" /\ "product" # "sample"
      OBVIOUS
    <2> HIDE DEF x
    <2>4. r \in Seq({x}) /\ \A i \in DOMAIN r : r[i] = x
      OBVIOUS
    <2>5. IsSeq(r)
      BY <2>4, Zenon DEF IsSeq
    <2>6. \A i \in DOMAIN r : r[i].kind # "definition" /\ r[i].kind # "sample"
      BY <2>3, <2>4, Zenon
    <2> HIDE DEF r
    <2> QED
      BY <1>3, <2>1, <2>2, <2>5, <2>6, Zenon
  <1>6. CASE LogAllFrsRecords
    <2>1. appConfig' = appConfig /\ hub' = hub /\ defined' = defined
      BY <1>6 DEF LogAllFrsRecords, inputVars
    <2>2. PICK r : IsSeq(r) /\ log' = log \o r /\ \A i \in DOMAIN r : r[i].kind \in {"frs", "message"}
      BY <1>0, <1>6, RecordsWritten, Zenon
    <2>3. \A i \in DOMAIN r : r[i].kind # "definition" /\ r[i].kind # "sample"
      BY <2>2
    <2> QED
      BY <1>3, <2>1, <2>2, <2>3, Zenon
  <1>7. CASE LogSample
    BY <1>7, SampleWritten, Zenon
  <1>8. CASE Clear \/ SetDcdAutoSave \/ SetCalConfig \/ EnableSensor \/ Finish
    <2>1. appConfig' = appConfig /\ hub' = hub /\ log' = log /\ defined' = defined
      BY <1>8 DEF Clear, SetDcdAutoSave, SetCalConfig, EnableSensor, Finish, inputVars
    <2> QED
      BY <1>2, <2>1, Zenon
  <1>9. CASE UNCHANGED vars
    <2>1. appConfig' = appConfig /\ hub' = hub /\ log' = log /\ defined' = defined
      BY <1>9 DEF vars, inputVars
    <2> QED
      BY <1>2, <2>1, Zenon
  <1>10. CASE Next
    <2>1. CASE UNCHANGED <<requests, defined, samples>> /\ appConfig' = appConfig /\ log' = log
      BY <1>2, <1>10, <2>1, Stays, Zenon
    <2> QED
      BY <1>4, <1>5, <1>6, <1>7, <1>8, <1>10, <2>1, Kinds, Zenon
  <1> QED
    BY <1>9, <1>10

\* A step keeps the records of the hub documented.
LEMMA NextRecords == ConfiguredInv /\ [Next]_vars => RecordsInv'
  <1> SUFFICES ASSUME ConfiguredInv, [Next]_vars PROVE RecordsInv'
    OBVIOUS
  <1> DEFINE Only(records) == \A i \in DOMAIN records : records[i].kind = "product"
  <1>0. /\ pc \in Preparing => Only(log)
        /\ pc \in {"enable", "log"} => Documents(log, hub.records)
        /\ IsSeq(log)
    BY Zenon DEF ConfiguredInv, RecordsInv, DefinedInv, Describes
  <1>1. CASE pc' \notin Initialising
    BY <1>1 DEF RecordsInv, Initialising
  <1>2. CASE do_logging /\ pc' = "clear"
    <2>1. log' = <<>>
      <3>1. "clear" # "ended"
        OBVIOUS
      <3> QED
        BY <1>2, <3>1, Logging, Zenon
    <2>2. DOMAIN log' = {}
      BY <2>1
    <2> QED
      BY <1>2, <2>2 DEF RecordsInv
  <1>3. ASSUME pc \in Preparing, pc' \in Preparing, log' = log
        PROVE  RecordsInv'
    <2>1. pc' \notin {"enable", "log"}
      BY <1>3 DEF Preparing
    <2> QED
      BY <1>0, <1>3, <2>1, Zenon DEF RecordsInv
  <1>4. CASE Clear \/ SetDcdAutoSave \/ SetCalConfig
    <2>1. pc \in Preparing /\ pc' \in Preparing /\ log' = log
      BY <1>4 DEF Clear, SetDcdAutoSave, SetCalConfig, Preparing
    <2> QED
      BY <1>3, <2>1, Zenon
  <1>5. CASE GetProdIds
    <2> DEFINE x == [kind |-> "product"]
               t == log \o <<x>>
    <2>1. pc \in Preparing /\ pc' \in Preparing /\ pc' \notin {"enable", "log"}
      BY <1>5 DEF GetProdIds, Preparing
    <2>2. x.kind = "product"
      OBVIOUS
    <2>3. log' = t
      BY <1>0, <1>5, ProductWritten, Zenon
    <2> HIDE DEF x
    <2>4. /\ DOMAIN log = 1 .. Len(log)
          /\ \A i \in 1 .. Len(log) : t[i] = log[i]
          /\ \A i \in DOMAIN t : i \in DOMAIN log \/ t[i] = x
      BY <1>0, OneMore, Zenon
    <2> HIDE DEF t
    <2>5. Only(t)
      BY <1>0, <2>1, <2>2, <2>4, Zenon
    <2> QED
      BY <2>1, <2>3, <2>5, Zenon DEF RecordsInv
  <1>6. CASE LogAllFrsRecords
    <2>1. pc \in Preparing /\ pc' \notin Preparing /\ hub' = hub
      BY <1>6 DEF LogAllFrsRecords, Preparing, inputVars
    <2>2. PICK r : IsSeq(r) /\ log' = log \o r /\ Documents(r, hub.records)
      BY <1>0, <1>6, RecordsWritten, Zenon
    <2>3. \A i \in DOMAIN log : ~IsScd(log[i]) /\ log[i].kind # "message"
      <3>1. "product" # "frs" /\ "product" # "message"
        OBVIOUS
      <3> QED
        BY <1>0, <2>1, <3>1, Zenon DEF IsScd
    <2>4. Documents(log \o r, hub.records)
      BY <1>0, <2>2, <2>3, DocumentsAfter, Zenon
    <2> QED
      BY <2>1, <2>2, <2>4, Zenon DEF RecordsInv
  <1>7. CASE EnableSensor
    <2>1. pc = "enable" /\ pc' \notin Preparing /\ log' = log /\ hub' = hub
      BY <1>7 DEF EnableSensor, Preparing, inputVars
    <2> QED
      BY <1>0, <2>1 DEF RecordsInv
  <1>8. CASE LogSample
    <2>1. pc \in {"enable", "log"} /\ pc' = pc /\ pc' \notin Preparing /\ hub' = hub
      BY <1>8 DEF LogSample, Preparing, inputVars
    <2>2. PICK r : IsSeq(r) /\ log' = log \o r
                   /\ \A i \in DOMAIN r : r[i].kind \in {"definition", "sample"}
      BY <1>8, SampleWritten, Zenon
    <2>3. \A i \in DOMAIN r : ~IsScd(r[i]) /\ r[i].kind # "message"
      BY <2>2 DEF IsScd
    <2>4. Documents(log \o r, hub.records)
      BY <1>0, <2>1, <2>2, <2>3, DocumentsMore, Zenon
    <2> QED
      BY <2>1, <2>2, <2>4, Zenon DEF RecordsInv
  <1>9. CASE Finish
    <2>1. pc' \notin Initialising
      BY <1>9 DEF Finish, End, Initialising, Preparing
    <2> QED
      BY <1>1, <2>1, Zenon
  <1>10. CASE UNCHANGED vars
    BY <1>0, <1>10 DEF RecordsInv, vars, inputVars
  <1>11. CASE Next
    BY <1>1, <1>2, <1>4, <1>5, <1>6, <1>7, <1>8, <1>9, <1>11, Kinds, Zenon
  <1> QED
    BY <1>10, <1>11

\* The old log is given up by do_logging only.
LEMMA NextOldLog == ConfiguredInv /\ [Next]_vars => OldLogInv'
  <1> SUFFICES ASSUME ConfiguredInv, [Next]_vars PROVE OldLogInv'
    OBVIOUS
  <1> DEFINE Old == <<[kind |-> "old"]>>
  <1>0. /\ pc # "ended" => exit = "none"
        /\ log # Old =>
              exit # "aborted" /\ options.in /\ options.out /\ options.device /\ Wanted # {}
        /\ pc \in {"start", "run"} => log = Old
    BY DEF ConfiguredInv, OldLogInv, Untouched
  <1> HIDE DEF Old
  <1>1. ASSUME log' = Old, pc' # "ended" => exit' = "none"
        PROVE  OldLogInv'
    BY <1>1, Zenon DEF OldLogInv, Old
  <1>2. ASSUME UNCHANGED inputVars, log # Old, pc' # "ended" => exit' = "none", exit' # "aborted"
        PROVE  OldLogInv'
    <2>1. options' = options /\ Wanted' = Wanted
      BY <1>2, Zenon DEF inputVars, Wanted, Listed, Entry, TooFast
    <2> QED
      BY <1>0, <1>2, <2>1, Zenon DEF OldLogInv
  <1>3. ASSUME UNCHANGED inputVars, log' = log, pc' # "ended" => exit' = "none", exit' # "aborted"
        PROVE  OldLogInv'
    BY <1>1, <1>2, <1>3, Zenon
  <1>4. CASE parseArgs \/ do_dfu
    <2>1. pc \in {"start", "run"} /\ log' = log /\ (pc' # "ended" => exit' = exit)
      BY <1>4 DEF parseArgs, do_dfu, End
    <2>2. pc # "ended"
      BY <2>1
    <2> QED
      BY <1>0, <1>1, <2>1, <2>2, Zenon
  <1>5. CASE do_template
    <2>1. pc = "run" /\ log' = log /\ pc' = "ended"
      BY <1>5, Templating, Zenon
    <2>2. log = Old
      BY <1>0, <2>1
    <2> QED
      BY <1>1, <2>1, <2>2, Zenon
  <1>6. CASE EditTemplate
    <2>1. options.cmd # "log" /\ log' = log /\ exit' = "none"
      BY <1>6 DEF EditTemplate
    <2>2. log = Old
      BY <2>1 DEF ConfiguredInv, Untouched, Old
    <2> QED
      BY <1>1, <2>1, <2>2, Zenon
  <1>7. CASE do_logging
    <2>1. pc = "run" /\ log = Old /\ exit = "none" /\ UNCHANGED inputVars
      <3>1. pc = "run" /\ UNCHANGED inputVars
        BY <1>7, Logging DEF inputVars
      <3> QED
        BY <1>0, <3>1
    <2>2. CASE pc' = "ended" /\ log' = log
      BY <1>1, <2>1, <2>2, Zenon
    <2>3. CASE /\ pc' = "clear" /\ exit' = exit
               /\ ParseJsonBatchFile(file) = "true" /\ appConfig' = Configured
               /\ todo' = appConfig'.pSensorsToEnable /\ todo' # <<>>
               /\ options.in /\ options.out /\ options.device
      <3> DEFINE all == file.members["sensorList"]
      <3>1. IsFile(file)
        BY DEF ConfiguredInv, FileInv
      <3>2. todo' = SensorList(all, saturates)
        BY <2>3, <3>1, ConfiguredParts, Zenon
      <3>3. todo' \in Seq(Kept(all, saturates))
        BY <3>2, Lists, Zenon
      <3>4. todo'[1] \in Kept(all, saturates)
        BY <2>3, <3>3
      <3>5. Wanted # {}
        BY <2>3, <3>1, <3>4, KeptAreWanted, Zenon
      <3>6. options' = options /\ Wanted' = Wanted
        BY <2>1, Zenon DEF inputVars, Wanted, Listed, Entry, TooFast
      <3>7. "none" # "aborted"
        OBVIOUS
      <3> QED
        BY <2>1, <2>3, <3>5, <3>6, <3>7, Zenon DEF OldLogInv
    <2> QED
      BY <1>7, <2>2, <2>3, Logging, Zenon
  <1>8. CASE Fail \/ Finish
    <2>1. UNCHANGED inputVars /\ log' = log /\ pc' = "ended" /\ exit' # "aborted"
      BY <1>8 DEF Fail, Finish, End
    <2> QED
      BY <1>3, <2>1, Zenon
  <1>9. CASE Clear \/ GetProdIds \/ SetDcdAutoSave \/ SetCalConfig \/ LogAllFrsRecords
             \/ EnableSensor \/ LogSample
    <2>1. pc \in Initialising /\ pc # "ended" /\ UNCHANGED inputVars /\ exit' = exit
      BY <1>9 DEF Clear, GetProdIds, SetDcdAutoSave, SetCalConfig, LogAllFrsRecords,
                  EnableSensor, LogSample, Initialising, Preparing
    <2>2. log # Old
      <3>1. CASE pc \in Preparing
        <4>1. \A i \in DOMAIN log : log[i].kind = "product"
          BY <3>1 DEF ConfiguredInv, RecordsInv
        <4>2. 1 \in DOMAIN Old /\ Old[1].kind = "old"
          BY DEF Old
        <4> QED
          BY <4>1, <4>2
      <3>2. CASE pc \in {"enable", "log"}
        <4>1. Documents(log, hub.records)
          BY <3>2 DEF ConfiguredInv, RecordsInv
        <4>2. DOMAIN Old = {1} /\ Old[1].kind = "old"
          BY DEF Old
        <4>3. (\E i \in DOMAIN log : IsScd(log[i])) \/ (\E i \in DOMAIN log : log[i].kind = "message")
          <5>1. CASE "scd" \in hub.records
            BY <4>1, <5>1 DEF Documents
          <5>2. CASE "scd" \notin hub.records
            BY <4>1, <5>2, Zenon DEF Documents
          <5> QED
            BY <5>1, <5>2
        <4> QED
          BY <4>2, <4>3 DEF IsScd
      <3> QED
        BY <2>1, <3>1, <3>2 DEF Initialising
    <2>3. exit = "none"
      BY <1>0, <2>1
    <2> QED
      BY <1>2, <2>1, <2>2, <2>3
  <1>10. CASE UNCHANGED vars
    <2>1. UNCHANGED inputVars /\ log' = log /\ pc' = pc /\ exit' = exit
      BY <1>10 DEF vars
    <2>2. options' = options /\ Wanted' = Wanted
      BY <2>1, Zenon DEF inputVars, Wanted, Listed, Entry, TooFast
    <2> QED
      BY <1>0, <2>1, <2>2, Zenon DEF OldLogInv, Old
  <1> QED
    BY <1>4, <1>5, <1>6, <1>7, <1>8, <1>9, <1>10 DEF Next

\* A step keeps the types.
LEMMA NextType == ConfiguredInv /\ [Next]_vars => TypeOK'
  <1> SUFFICES ASSUME ConfiguredInv, [Next]_vars PROVE TypeOK'
    OBVIOUS
  <1> DEFINE Kind == {"old", "product", "message", "frs", "definition", "sample"}
             Only(records) == \A i \in DOMAIN records : records[i].kind \in Kind
             Good(c) == /\ c.calEnableMask \in 0 .. 255
                        /\ \A k \in Flags : c[k] \in BOOLEAN
                        /\ c.orientationNed \in BOOLEAN
             Pc   == {"start", "run", "clear", "prodIds", "dcdAutoSave", "calConfig", "frs",
                      "enable", "log", "ended"}
             Exit == {"none", "usage", "0", "-1", "aborted"}
  <1>0. /\ pc \in Pc /\ exit \in Exit /\ Good(appConfig)
        /\ defined \subseteq SensorIds /\ samples \in 0 .. MaxSamples /\ Only(log) /\ IsSeq(log)
    BY Zenon DEF ConfiguredInv, TypeOK, DefinedInv, Describes
  <1>1. \A i \in DOMAIN requests' : requests'[i] \in Requests
    <2>1. requests' \in Seq(Requests)
      BY NextRequests
    <2> QED
      BY <2>1
  <1>2. pc' \in Pc /\ exit' \in Exit
    <2>1. CASE parseArgs \/ do_dfu \/ Fail \/ Finish
      BY <1>0, <2>1 DEF parseArgs, do_dfu, Fail, Finish, End
    <2>2. CASE do_template \/ do_logging
      BY <1>0, <2>2, Templating, Logging
    <2>3. CASE EditTemplate
      BY <2>3 DEF EditTemplate
    <2>4. CASE Clear \/ GetProdIds \/ SetDcdAutoSave \/ SetCalConfig \/ LogAllFrsRecords
               \/ EnableSensor \/ LogSample
      BY <1>0, <2>4 DEF Clear, GetProdIds, SetDcdAutoSave, SetCalConfig, LogAllFrsRecords,
                        EnableSensor, LogSample
    <2>5. CASE UNCHANGED vars
      BY <1>0, <2>5 DEF vars
    <2> QED
      BY <2>1, <2>2, <2>3, <2>4, <2>5 DEF Next
  <1>3. Good(appConfig')
    <2>1. CASE appConfig' = appConfig
      BY <1>0, <2>1, Zenon
    <2>2. CASE do_logging
      <3>1. CASE ParseJsonBatchFile(file) = "true" /\ appConfig' = Configured
        <4>1. IsFile(file)
          BY DEF ConfiguredInv, FileInv
        <4>2. Good(Configured)
          BY <3>1, <4>1, ConfiguredParts, Zenon
        <4> QED
          BY <3>1, <4>2, Zenon
      <3> QED
        BY <2>1, <2>2, <3>1, Logging, Zenon
    <2>3. CASE UNCHANGED vars
      BY <2>1, <2>3 DEF vars
    <2> QED
      BY <2>1, <2>2, <2>3, Stays, Zenon
  <1>4. defined' \subseteq SensorIds /\ samples' \in 0 .. MaxSamples
    <2>1. CASE LogSample
      <3>1. defined' \subseteq SensorIds
        BY <2>1, SampleWritten, Zenon
      <3>2. samples' \in 0 .. MaxSamples
        BY <1>0, <2>1, HubAssumption DEF LogSample
      <3> QED
        BY <3>1, <3>2
    <2>2. CASE defined' = defined /\ samples' = samples
      BY <1>0, <2>2
    <2>3. CASE Clear \/ GetProdIds \/ SetDcdAutoSave \/ SetCalConfig \/ LogAllFrsRecords
               \/ EnableSensor \/ Finish
      BY <2>2, <2>3 DEF Clear, GetProdIds, SetDcdAutoSave, SetCalConfig, LogAllFrsRecords,
                        EnableSensor, Finish
    <2>4. CASE UNCHANGED vars
      BY <2>2, <2>4 DEF vars
    <2>5. CASE do_logging
      BY <2>2, <2>5, Logging
    <2>6. CASE Next
      BY <2>1, <2>2, <2>3, <2>5, <2>6, Kinds, Zenon
    <2> QED
      BY <2>4, <2>6
  <1>5. ASSUME NEW r, IsSeq(r), Only(r), log' = log \o r
        PROVE  Only(log')
    <2> DEFINE t == log \o r
    <2>1. /\ DOMAIN t = 1 .. Len(log) + Len(r) /\ DOMAIN log = 1 .. Len(log)
          /\ DOMAIN r = 1 .. Len(r)
          /\ \A i \in 1 .. Len(log) : t[i] = log[i]
          /\ \A i \in 1 .. Len(log) + Len(r) :
                i \in 1 .. Len(log) \/ (i - Len(log) \in 1 .. Len(r) /\ t[i] = r[i - Len(log)])
      BY <1>0, <1>5, Joining, ZenonT(60)
    <2> HIDE DEF t
    <2>2. Only(t)
      <3> HIDE DEF Kind
      <3> QED
        BY <1>0, <1>5, <2>1, Zenon
    <2> QED
      BY <1>5, <2>2, Zenon DEF t
  <1>6. Only(log')
    <2>1. CASE log' = log
      BY <1>0, <2>1, Zenon
    <2>2. CASE GetProdIds
      <3> DEFINE x == [kind |-> "product"]
                 r == <<x>>
      <3>1. log' = log \o r
        BY <1>0, <2>2, ProductWritten, Zenon
      <3>2. x.kind \in Kind
        OBVIOUS
      <3> HIDE DEF x
      <3>3. r \in Seq({x}) /\ \A i \in DOMAIN r : r[i] = x
        OBVIOUS
      <3>4. IsSeq(r) /\ Only(r)
        BY <3>2, <3>3, Zenon DEF IsSeq
      <3> HIDE DEF r
      <3> QED
        BY <1>5, <3>1, <3>4, Zenon
    <2>3. CASE LogAllFrsRecords
      <3>1. PICK r : IsSeq(r) /\ log' = log \o r /\ \A i \in DOMAIN r : r[i].kind \in {"frs", "message"}
        BY <1>0, <2>3, RecordsWritten, Zenon
      <3>2. Only(r)
        BY <3>1
      <3> QED
        BY <1>5, <3>1, <3>2, Zenon
    <2>4. CASE LogSample
      <3>1. PICK r : IsSeq(r) /\ log' = log \o r
                     /\ \A i \in DOMAIN r : r[i].kind \in {"definition", "sample"}
        BY <2>4, SampleWritten, Zenon
      <3>2. Only(r)
        BY <3>1
      <3> QED
        BY <1>5, <3>1, <3>2, Zenon
    <2>5. CASE do_logging
      <3>1. CASE log' = <<>>
        BY <3>1
      <3> QED
        BY <2>1, <2>5, <3>1, Logging, Zenon
    <2>6. CASE Clear \/ SetDcdAutoSave \/ SetCalConfig \/ EnableSensor \/ Finish
      BY <2>1, <2>6 DEF Clear, SetDcdAutoSave, SetCalConfig, EnableSensor, Finish
    <2>7. CASE UNCHANGED vars
      BY <2>1, <2>7 DEF vars
    <2>8. CASE Next
      BY <2>1, <2>2, <2>3, <2>4, <2>5, <2>6, <2>8, Kinds, Zenon
    <2> QED
      BY <2>7, <2>8
  <1> QED
    BY <1>1, <1>2, <1>3, <1>4, <1>6, Zenon DEF TypeOK

-----------------------------------------------------------------------------
(* The invariant and what follows from it.                                 *)

\* The inductive invariant: what is read is a file, the configuration is what
\* file and command line make of it, the requests for sensors go through its
\* list, and the log has only what the tables make of the sensors enabled.
THEOREM ConfiguredInvariant == Spec => []ConfiguredInv
  <1>1. Init => ConfiguredInv
    BY InitConfigured
  <1>2. ConfiguredInv /\ [Next]_vars => ConfiguredInv'
    <2> SUFFICES ASSUME ConfiguredInv, [Next]_vars PROVE ConfiguredInv'
      OBVIOUS
    <2>1. TypeOK' /\ FileInv' /\ Untouched' /\ ConfigInv'
      BY NextType, NextFile, NextUntouched, NextConfig
    <2>2. ErasedInv' /\ AutoSaveInv' /\ EnabledInv'
      BY NextErased, NextAutoSave, NextEnabled
    <2>3. DefinedInv' /\ RecordsInv' /\ OldLogInv'
      BY NextDefined, NextRecords, NextOldLog
    <2> QED
      BY <2>1, <2>2, <2>3 DEF ConfiguredInv
  <1> QED
    BY <1>1, <1>2, PTL DEF Spec

\* All variables keep their types: what is asked of the hub is a request it
\* understands, whatever the file and the command line.
THEOREM ConfiguredTypes == Spec => []TypeOK
  <1>1. ConfiguredInv => TypeOK
    BY DEF ConfiguredInv
  <1> QED
    BY <1>1, ConfiguredInvariant, PTL

\* The sensors that are enabled at the end are those of the list.
LEMMA AllEnabled ==
    ASSUME ConfiguredInv, pc = "log"
    PROVE  SensorsAsConfigured
  <1> DEFINE all == file.members["sensorList"]
             K   == Kept(all, saturates)
             L   == Len(Listing)
  <1>1. pc \in Initialising /\ pc \notin Preparing
    BY DEF Initialising, Preparing
  <1>2. /\ Listing = SensorList(all, saturates) /\ Listing \in Seq(K)
        /\ \A i \in 1 .. L :
              LET c == Listing[i]
              IN  /\ c.sensorId \in SensorIds /\ c.reportInterval_us \in 1 .. Word - 1
                  /\ c.sensorSpecific \in 0 .. Word - 1
                  /\ c.sniffEnabled \in 0 .. Word - 1
    BY <1>1, ListingIs, Zenon DEF ConfiguredInv
  <1>3. L \in Nat
    <2> HIDE DEF K
    <2> QED
      BY <1>2
  <1>4. PICK n \in 0 .. L, m \in Nat :
           /\ Enabling(requests, Listing, todo, n, m)
           /\ pc = "enable" <=> pc \notin Preparing /\ n < L
    BY <1>1, Zenon DEF ConfiguredInv, EnabledInv
  <1>5. n = L
    BY <1>1, <1>3, <1>4
  <1>6. DOMAIN requests = 1 .. m + L
    <2>1. PICK S : requests \in Seq(S)
      BY Zenon DEF ConfiguredInv, EnabledInv, IsSeq
    <2>2. Len(requests) = m + L
      BY <1>4, <1>5, Zenon DEF Enabling
    <2> QED
      BY <2>1, <2>2
  <1>7. /\ \A i \in 1 .. m : requests[i].kind # "sensor"
        /\ \A i \in 1 .. L : requests[m + i] = SensorConfig(Listing[i])
    BY <1>4, <1>5, Zenon DEF Enabling
  <1>8. ASSUME NEW i \in 1 .. L
        PROVE  /\ m + i \in SensorRequests
               /\ requests[m + i].sensorId = Listing[i].sensorId
               /\ requests[m + i].interval = Listing[i].reportInterval_us
               /\ requests[m + i].sensorSpecific = Listing[i].sensorSpecific
               /\ requests[m + i].sniffEnabled = (Listing[i].sniffEnabled # 0)
    <2> DEFINE c == Listing[i]
    <2>1. /\ c.sensorId \in SensorIds /\ c.reportInterval_us \in 1 .. Word - 1
          /\ c.sensorSpecific \in 0 .. Word - 1 /\ c.sniffEnabled \in 0 .. Word - 1
      BY <1>2, Zenon
    <2>2. /\ SensorConfig(c).kind = "sensor" /\ SensorConfig(c).sensorId = c.sensorId
          /\ SensorConfig(c).interval = c.reportInterval_us
          /\ SensorConfig(c).sensorSpecific = c.sensorSpecific
          /\ SensorConfig(c).sniffEnabled = (c.sniffEnabled # 0)
      BY <2>1, SensorTypes, Zenon
    <2>3. m + i \in DOMAIN requests
      BY <1>3, <1>6
    <2>4. requests[m + i] = SensorConfig(c)
      BY <1>7, Zenon
    <2> QED
      BY <2>2, <2>3, <2>4, Zenon DEF SensorRequests
  <1>9. ASSUME NEW j \in SensorRequests
        PROVE  j - m \in 1 .. L /\ j = m + (j - m)
    <2>1. j \in 1 .. m + L /\ requests[j].kind = "sensor"
      BY <1>6, Zenon DEF SensorRequests
    <2>2. j \notin 1 .. m
      BY <1>7, <2>1, Zenon
    <2> QED
      BY <1>3, <2>1, <2>2
  <1>10. /\ \A c \in K :
               /\ c.sensorId \in Wanted
               /\ TooSlow(c.sensorId)
                     \/ Nearest(c.reportInterval_us, RateOf(Entry(c.sensorId)))
               /\ c.sensorSpecific = OptionValue(Entry(c.sensorId), "sensorSpecific")
               /\ c.sniffEnabled = OptionValue(Entry(c.sensorId), "sniffEnabled")
         /\ \A id \in Wanted : TooSlow(id) \/ \E c \in K : c.sensorId = id
    <2>1. IsFile(file) /\ ParseJsonBatchFile(file) = "true"
      BY <1>1 DEF ConfiguredInv, FileInv, ConfigInv
    <2> QED
      BY <2>1, KeptAreWanted, Zenon
  <1>11. /\ \A c \in K : \E i \in 1 .. L : Listing[i] = c
         /\ \A i, j \in 1 .. L : i < j => Listing[i].sensorId < Listing[j].sensorId
    <2> DEFINE sorted == SensorList(all, saturates)
    <2>1. /\ \A c \in K : \E i \in 1 .. Len(sorted) : sorted[i] = c
          /\ \A i, j \in 1 .. Len(sorted) : i < j => sorted[i].sensorId < sorted[j].sensorId
      <3> HIDE DEF all
      <3> QED
        BY Lists, SMTT(30) DEF K
    <2>2. Listing = sorted
      BY <1>2, Zenon
    <2> HIDE DEF sorted, K
    <2> QED
      BY <2>1, <2>2
  <1> HIDE DEF K, all, L
  <1>12. \A i \in 1 .. L : Listing[i] \in K
    BY <1>2 DEF L
  <1>13. \A id : id \in Enabled <=> \E i \in 1 .. L : id = Listing[i].sensorId
    <2>1. ASSUME NEW j \in SensorRequests
          PROVE  \E i \in 1 .. L : requests[j].sensorId = Listing[i].sensorId
      BY <1>8, <1>9
    <2>2. ASSUME NEW i \in 1 .. L
          PROVE  \E j \in SensorRequests : requests[j].sensorId = Listing[i].sensorId
      BY <1>8, Zenon
    <2>3. \A id : id \in Enabled <=> \E j \in SensorRequests : requests[j].sensorId = id
      BY DEF Enabled
    <2>4. ASSUME NEW id
          PROVE  id \in Enabled <=> \E i \in 1 .. L : id = Listing[i].sensorId
      <3>1. ASSUME id \in Enabled
            PROVE  \E i \in 1 .. L : id = Listing[i].sensorId
        <4>1. PICK j \in SensorRequests : requests[j].sensorId = id
          BY <2>3, <3>1, Zenon
        <4> QED
          BY <2>1, <4>1, Zenon
      <3>2. ASSUME NEW i \in 1 .. L, id = Listing[i].sensorId
            PROVE  id \in Enabled
        BY <2>2, <2>3, <3>2, Zenon
      <3> QED
        BY <3>1, <3>2, Zenon
    <2> QED
      BY <2>4, Zenon
  <1>14. Enabled \ ({id \in Wanted : TooSlow(id)} \cup Contested)
           = {id \in Wanted : ~TooSlow(id)} \ Contested
    <2>1. Enabled \subseteq Wanted
      <3> SUFFICES ASSUME NEW id \in Enabled PROVE id \in Wanted
        OBVIOUS
      <3>1. PICK i \in 1 .. L : id = Listing[i].sensorId
        BY <1>13, Zenon
      <3>2. Listing[i].sensorId \in Wanted
        BY <1>10, <1>12, Zenon
      <3> QED
        BY <3>1, <3>2
    <2>2. ASSUME NEW id \in Wanted, ~TooSlow(id)
          PROVE  id \in Enabled
      BY <1>10, <1>11, <1>13, <2>2, Zenon
    <2> HIDE DEF Wanted, TooSlow, Contested
    <2> QED
      BY <2>1, <2>2, Zenon
  <1>15. ASSUME NEW i \in SensorRequests, NEW j \in SensorRequests, i < j
         PROVE  requests[i].sensorId < requests[j].sensorId
    <2>1. /\ requests[i].sensorId = Listing[i - m].sensorId
          /\ requests[j].sensorId = Listing[j - m].sensorId
          /\ i - m \in 1 .. L /\ j - m \in 1 .. L
      BY <1>8, <1>9, ZenonT(60)
    <2>2. i - m < j - m
      <3>1. i \in Int /\ j \in Int
        BY <1>6 DEF SensorRequests
      <3> QED
        BY <1>15, <3>1
    <2> QED
      BY <1>11, <2>1, <2>2, Zenon
  <1>16. ASSUME NEW j \in SensorRequests
         PROVE  LET id == requests[j].sensorId
                IN  /\ TooSlow(id) \/ Nearest(requests[j].interval, RateOf(Entry(id)))
                    /\ requests[j].sensorSpecific = OptionValue(Entry(id), "sensorSpecific")
                    /\ requests[j].sniffEnabled = (OptionValue(Entry(id), "sniffEnabled") # 0)
    <2> DEFINE c == Listing[j - m]
    <2>1. /\ requests[j].sensorId = c.sensorId /\ requests[j].interval = c.reportInterval_us
          /\ requests[j].sensorSpecific = c.sensorSpecific
          /\ requests[j].sniffEnabled = (c.sniffEnabled # 0)
          /\ c \in K
      BY <1>8, <1>9, <1>12, Zenon
    <2> QED
      BY <1>10, <2>1, Zenon
  <1> QED
    BY <1>14, <1>15, <1>16, Zenon DEF SensorsAsConfigured

\* What has been erased at the end, and whether the calibration is saved.
LEMMA AllErased ==
    ASSUME ConfiguredInv, pc = "log"
    PROVE  /\ ErasedAsConfigured
           /\ [kind |-> "dcdAutoSave", is |-> SaysTrue("dcdAutoSave")] \in ToSet(requests)
  <1>1. /\ pc \in Initialising /\ pc \in Initialising \ {"clear"}
        /\ pc \in Initialising \ {"clear", "prodIds", "dcdAutoSave"}
    BY DEF Initialising
  <1>2. IsFile(file) /\ ParseJsonBatchFile(file) = "true" /\ appConfig = Configured
    BY <1>1 DEF ConfiguredInv, FileInv, ConfigInv
  <1>3. /\ appConfig.clearDcd = Override(options.clearDcd, Flag(file, "clearDcd"))
        /\ appConfig.clearOfCal = Override(options.clearOfCal, Flag(file, "clearOfCal"))
        /\ appConfig.dcdAutoSave = Flag(file, "dcdAutoSave")
        /\ \A k \in Flags : appConfig[k] \in BOOLEAN
    BY <1>2, ConfiguredParts, Zenon
  <1>4. \A k \in Flags : (Flag(file, k) <=> SaysTrue(k)) /\ Flag(file, k) \in BOOLEAN
    BY <1>2, ParsedFile, Zenon DEF SaysTrue
  <1>5. /\ Erasing(requests, "DYNAMIC_CALIBRATION") <=> appConfig.clearDcd
        /\ Erasing(requests, "DR_CAL") <=> appConfig.clearOfCal
        /\ Resets(requests)
    BY <1>1, Zenon DEF ConfiguredInv, ErasedInv
  <1>6. \A what : Erasing(requests, what) <=> Erased(what)
    BY Zenon DEF Erasing, Erased
  <1>7. ASSUME NEW set, NEW value \in BOOLEAN
        PROVE  Override(set, value) <=> (set = "1" \/ (set = "unset" /\ value))
    <2>1. "unset" # "1"
      OBVIOUS
    <2> QED
      BY <1>7, <2>1, Zenon DEF Override
  <1>8. "clearDcd" \in Flags /\ "clearOfCal" \in Flags /\ "dcdAutoSave" \in Flags
    BY DEF Flags
  <1>9. Erased("DYNAMIC_CALIBRATION")
           <=> (options.clearDcd = "1" \/ (options.clearDcd = "unset" /\ SaysTrue("clearDcd")))
    BY <1>3, <1>4, <1>5, <1>6, <1>7, <1>8, Zenon
  <1>10. Erased("DR_CAL")
           <=> (options.clearOfCal = "1" \/ (options.clearOfCal = "unset" /\ SaysTrue("clearOfCal")))
    BY <1>3, <1>4, <1>5, <1>6, <1>7, <1>8, Zenon
  <1>11. /\ Erased("DYNAMIC_CALIBRATION")
              = (options.clearDcd = "1" \/ (options.clearDcd = "unset" /\ SaysTrue("clearDcd")))
         /\ Erased("DR_CAL")
              = (options.clearOfCal = "1" \/ (options.clearOfCal = "unset" /\ SaysTrue("clearOfCal")))
    BY <1>9, <1>10, Zenon DEF Erased, SaysTrue
  <1>12. ErasedAsConfigured
    BY <1>5, <1>11, Zenon DEF ErasedAsConfigured, Resets
  <1>13. [kind |-> "dcdAutoSave", is |-> SaysTrue("dcdAutoSave")] \in ToSet(requests)
    <2>1. \E i \in DOMAIN requests :
             requests[i] = [kind |-> "dcdAutoSave", is |-> appConfig.dcdAutoSave]
      BY <1>1, Zenon DEF ConfiguredInv, AutoSaveInv
    <2>2. appConfig.dcdAutoSave = SaysTrue("dcdAutoSave")
      <3>1. Flag(file, "dcdAutoSave") <=> SaysTrue("dcdAutoSave")
        BY <1>4, <1>8, Zenon
      <3>2. Flag(file, "dcdAutoSave") \in BOOLEAN /\ SaysTrue("dcdAutoSave") \in BOOLEAN
        BY <1>4, <1>8, Zenon DEF SaysTrue
      <3>3. Flag(file, "dcdAutoSave") = SaysTrue("dcdAutoSave")
        BY <3>1, <3>2
      <3> QED
        BY <1>3, <3>3, Zenon
    <2>3. \A x : x \in ToSet(requests) <=> \E i \in DOMAIN requests : requests[i] = x
      BY DEF ToSet
    <2> QED
      BY <2>1, <2>2, <2>3, Zenon
  <1> QED
    BY <1>12, <1>13, Zenon

\* What is running is what the command line and the file asked for: the
\* sensors that have a rate (but for those the repository contradicts itself
\* about), each with the period nearest to the rate that the float holds and
\* its own options, in the order of their ids, after what had to be erased has
\* been erased and the hub has restarted; an existing log is given up only for
\* such a session. For every file the JSON library can hand over and every
\* command line.
THEOREM ConfiguredAsAsked == Spec => []AsConfigured
  <1>1. ASSUME ConfiguredInv
        PROVE  AsConfigured
    <2>1. pc = "log" =>
             /\ SensorsAsConfigured
             /\ ErasedAsConfigured
             /\ [kind |-> "dcdAutoSave", is |-> SaysTrue("dcdAutoSave")] \in ToSet(requests)
      BY <1>1, AllEnabled, AllErased, Zenon
    <2>2. log # <<[kind |-> "old"]>> =>
             exit # "aborted" /\ options.in /\ options.out /\ options.device /\ Wanted # {}
      BY <1>1, Zenon DEF ConfiguredInv, OldLogInv
    <2> QED
      BY <2>1, <2>2, Zenon DEF AsConfigured
  <1> QED
    BY <1>1, ConfiguredInvariant, PTL

-----------------------------------------------------------------------------
(* Samples and columns.                                                    *)

\* The parts of a sample, and how many fields each has.
Parts       == {"vector", "rotation", "raw", "plain", "pair", "confidences", "empty"}
Numeric     == {"plain", "pair", "confidences", "empty"}
Width(part) == CASE part = "vector" -> 3 [] part = "rotation" -> 4 [] part = "raw" -> 3
                 [] part = "plain" -> 1 [] part = "pair" -> 2 [] part = "confidences" -> 10
                 [] part = "empty" -> 0
IsSample(sample) == sample.vector \in [1 .. 3 -> Int] /\ sample.rotation \in [1 .. 4 -> Int]

\* The fields of a part.
LEMMA PartsWide ==
    ASSUME NEW part \in Parts, NEW sample, IsSample(sample), NEW ned
    PROVE  /\ PartFields(part, sample, ned) \in Seq(Int)
           /\ Len(PartFields(part, sample, ned)) = Width(part)
           /\ Width(part) \in Nat
  <1> DEFINE v == sample.vector
             q == sample.rotation
  <1>1. /\ v \in Seq(Int) /\ Len(v) = 3 /\ v[1] \in Int /\ v[2] \in Int /\ v[3] \in Int
        /\ q \in Seq(Int) /\ Len(q) = 4 /\ q[1] \in Int /\ q[2] \in Int /\ q[3] \in Int /\ q[4] \in Int
    <2>1. v \in [1 .. 3 -> Int] /\ q \in [1 .. 4 -> Int]
      BY Zenon DEF IsSample
    <2>2. ASSUME NEW n \in Nat, NEW f \in [1 .. n -> Int]
          PROVE  f \in Seq(Int) /\ Len(f) = n /\ \A i \in 1 .. n : f[i] \in Int
      OBVIOUS
    <2> HIDE DEF v, q
    <2>3. v \in Seq(Int) /\ Len(v) = 3 /\ q \in Seq(Int) /\ Len(q) = 4
      <3>1. 3 \in Nat /\ 4 \in Nat
        OBVIOUS
      <3>2. v \in Seq(Int) /\ Len(v) = 3
        BY <2>1, <2>2, <3>1, Zenon
      <3>3. q \in Seq(Int) /\ Len(q) = 4
        BY <2>1, <2>2, <3>1, Zenon
      <3> QED
        BY <3>2, <3>3
    <2>4. v[1] \in Int /\ v[2] \in Int /\ v[3] \in Int
      BY <2>1
    <2>5. q[1] \in Int /\ q[2] \in Int /\ q[3] \in Int /\ q[4] \in Int
      BY <2>1
    <2> QED
      BY <2>3, <2>4, <2>5
  <1> HIDE DEF v, q
  <1>2. VectorToNed(v) \in Seq(Int) /\ Len(VectorToNed(v)) = 3
    BY <1>1 DEF VectorToNed
  <1>3. RotationToNed(q) \in Seq(Int) /\ Len(RotationToNed(q)) = 4
    BY <1>1 DEF RotationToNed
  <1>4. CASE part = "vector"
    <2>1. Width(part) = 3
      BY <1>4 DEF Width
    <2>2. PartFields(part, sample, ned) = IF ned THEN VectorToNed(v) ELSE v
      BY <1>4 DEF PartFields, v
    <2> QED
      BY <1>1, <1>2, <2>1, <2>2
  <1>5. CASE part = "rotation"
    <2>1. Width(part) = 4
      BY <1>5 DEF Width
    <2>2. PartFields(part, sample, ned) = IF ned THEN RotationToNed(q) ELSE q
      BY <1>5 DEF PartFields, q
    <2> QED
      BY <1>1, <1>3, <2>1, <2>2
  <1>6. CASE part = "raw"
    <2>1. Width(part) = 3
      BY <1>6 DEF Width
    <2>2. PartFields(part, sample, ned) = v
      BY <1>6 DEF PartFields, v
    <2> QED
      BY <1>1, <2>1, <2>2
  <1>7. CASE part = "plain"
    <2>1. Width(part) = 1
      BY <1>7 DEF Width
    <2>2. PartFields(part, sample, ned) = <<0>>
      BY <1>7 DEF PartFields
    <2> QED
      BY <2>1, <2>2
  <1>8. CASE part = "pair"
    <2>1. Width(part) = 2
      BY <1>8 DEF Width
    <2>2. PartFields(part, sample, ned) = <<0, 0>>
      BY <1>8 DEF PartFields
    <2> QED
      BY <2>1, <2>2
  <1>9. CASE part = "confidences"
    <2>1. Width(part) = 10
      BY <1>9 DEF Width
    <2>2. PartFields(part, sample, ned) = [k \in 1 .. 10 |-> 0]
      BY <1>9 DEF PartFields
    <2> QED
      BY <2>1, <2>2
  <1>10. CASE part = "empty"
    <2>1. Width(part) = 0
      BY <1>10 DEF Width
    <2>2. PartFields(part, sample, ned) = <<>>
      BY <1>10 DEF PartFields
    <2> QED
      BY <2>1, <2>2
  <1> QED
    BY <1>4, <1>5, <1>6, <1>7, <1>8, <1>9, <1>10, Zenon DEF Parts

\* The parts of a sample are as wide as the columns of its channel, and what is
\* beyond the columns is empty; what is left raw has no frame, and what is not
\* has one.
FitsTable(id) ==
    LET parts == LoggedParts(id)  widths == sensorColumns(id)
    IN  /\ \E m \in Nat, n \in Nat :
              /\ n <= m /\ parts \in [1 .. m -> Parts] /\ widths \in [1 .. n -> Nat]
              /\ \A i \in 1 .. n : widths[i] = Width(parts[i])
              /\ \A i \in n + 1 .. m : parts[i] = "empty"
        /\ Has(id, "vector") \/ Has(id, "rotation") => id \notin NoCoordinateSystem
        /\ Has(id, "raw") => id \in NoCoordinateSystem

\* How many fields the parts have.
LEMMA Widths ==
    /\ Width("vector") = 3 /\ Width("rotation") = 4 /\ Width("raw") = 3 /\ Width("plain") = 1
    /\ Width("pair") = 2 /\ Width("confidences") = 10
  BY DEF Width

\* Whether coordinates and frame fit.
LEMMA FramesFit ==
    ASSUME NEW id, NEW m \in Nat, NEW parts \in [1 .. m -> Parts], LoggedParts(id) = parts,
           \A i \in 1 .. m : parts[i] \in Numeric \/ (parts[i] = "raw" <=> id \in NoCoordinateSystem)
    PROVE  /\ Has(id, "vector") \/ Has(id, "rotation") => id \notin NoCoordinateSystem
           /\ Has(id, "raw") => id \in NoCoordinateSystem
  <1>1. DOMAIN parts = 1 .. m
    OBVIOUS
  <1>2. /\ "vector" \notin Numeric /\ "rotation" \notin Numeric /\ "raw" \notin Numeric
        /\ "vector" # "raw" /\ "rotation" # "raw"
    BY DEF Numeric
  <1> QED
    BY <1>1, <1>2, ZenonT(60) DEF Has

\* A sensor with as many parts as columns.
LEMMA Fits ==
    ASSUME NEW id, NEW n \in Nat, NEW parts \in [1 .. n -> Parts],
           NEW widths \in [1 .. n -> Nat], LoggedParts(id) = parts, sensorColumns(id) = widths,
           \A i \in 1 .. n : widths[i] = Width(parts[i]),
           \A i \in 1 .. n : parts[i] \in Numeric \/ (parts[i] = "raw" <=> id \in NoCoordinateSystem)
    PROVE  FitsTable(id)
  <1>1. n <= n /\ \A i \in n + 1 .. n : parts[i] = "empty"
    OBVIOUS
  <1> QED
    BY <1>1, FramesFit, Zenon DEF FitsTable

\* Accelerometers, gyroscopes and magnetometers.
LEMMA InertialFits ==
    ASSUME NEW id \in {1, 2, 3, 4, 6, 7, 15, 20, 21, 22}
    PROVE  FitsTable(id)
  <1>1. CASE id \in {1, 2, 3, 4, 6}
    <2> DEFINE parts  == <<"vector">>
               widths == <<3>>
    <2>1. LoggedParts(id) = parts /\ sensorColumns(id) = widths
      BY <1>1 DEF LoggedParts, InertialParts, sensorColumns
    <2>2. id \notin NoCoordinateSystem
      BY <1>1 DEF NoCoordinateSystem
    <2>3. /\ parts \in [1 .. 1 -> Parts] /\ widths \in [1 .. 1 -> Nat]
          /\ parts[1] = "vector"
          /\ widths[1] = 3
      BY DEF Parts
    <2> HIDE DEF parts, widths
    <2>4. \A i \in 1 .. 1 : widths[i] = Width(parts[i])
      BY <2>3, Widths
    <2>5. \A i \in 1 .. 1 : parts[i] \in Numeric \/ parts[i] # "raw"
      BY <2>3 DEF Numeric
    <2>6. 1 \in Nat
      OBVIOUS
    <2>7. \A i \in 1 .. 1 : parts[i] \in Numeric \/ (parts[i] = "raw" <=> id \in NoCoordinateSystem)
      BY <2>2, <2>5, Zenon
    <2>8. FitsTable(id)
      BY <2>1, <2>3, <2>4, <2>6, <2>7, Fits, ZenonT(60)
    <2> QED
      BY <2>8
  <1>2. CASE id \in {7, 15}
    <2> DEFINE parts  == <<"vector", "vector">>
               widths == <<3, 3>>
    <2>1. LoggedParts(id) = parts /\ sensorColumns(id) = widths
      BY <1>2 DEF LoggedParts, InertialParts, sensorColumns
    <2>2. id \notin NoCoordinateSystem
      BY <1>2 DEF NoCoordinateSystem
    <2>3. /\ parts \in [1 .. 2 -> Parts] /\ widths \in [1 .. 2 -> Nat]
          /\ parts[1] = "vector" /\ parts[2] = "vector"
          /\ widths[1] = 3 /\ widths[2] = 3
      BY DEF Parts
    <2> HIDE DEF parts, widths
    <2>4. \A i \in 1 .. 2 : widths[i] = Width(parts[i])
      BY <2>3, Widths
    <2>5. \A i \in 1 .. 2 : parts[i] \in Numeric \/ parts[i] # "raw"
      BY <2>3 DEF Numeric
    <2>6. 2 \in Nat
      OBVIOUS
    <2>7. \A i \in 1 .. 2 : parts[i] \in Numeric \/ (parts[i] = "raw" <=> id \in NoCoordinateSystem)
      BY <2>2, <2>5, Zenon
    <2>8. FitsTable(id)
      BY <2>1, <2>3, <2>4, <2>6, <2>7, Fits, ZenonT(60)
    <2> QED
      BY <2>8
  <1>3. CASE id \in {20, 22}
    <2> DEFINE parts  == <<"raw", "plain">>
               widths == <<3, 1>>
    <2>1. LoggedParts(id) = parts /\ sensorColumns(id) = widths
      BY <1>3 DEF LoggedParts, InertialParts, sensorColumns
    <2>2. id \in NoCoordinateSystem
      BY <1>3 DEF NoCoordinateSystem
    <2>3. /\ parts \in [1 .. 2 -> Parts] /\ widths \in [1 .. 2 -> Nat]
          /\ parts[1] = "raw" /\ parts[2] = "plain"
          /\ widths[1] = 3 /\ widths[2] = 1
      BY DEF Parts
    <2> HIDE DEF parts, widths
    <2>4. \A i \in 1 .. 2 : widths[i] = Width(parts[i])
      BY <2>3, Widths
    <2>5. \A i \in 1 .. 2 : parts[i] \in Numeric \/ parts[i] = "raw"
      BY <2>3 DEF Numeric
    <2>6. 2 \in Nat
      OBVIOUS
    <2>7. \A i \in 1 .. 2 : parts[i] \in Numeric \/ (parts[i] = "raw" <=> id \in NoCoordinateSystem)
      BY <2>2, <2>5, Zenon
    <2>8. FitsTable(id)
      BY <2>1, <2>3, <2>4, <2>6, <2>7, Fits, ZenonT(60)
    <2> QED
      BY <2>8
  <1>4. CASE id \in {21}
    <2> DEFINE parts  == <<"raw", "plain", "plain">>
               widths == <<3, 1, 1>>
    <2>1. LoggedParts(id) = parts /\ sensorColumns(id) = widths
      BY <1>4 DEF LoggedParts, InertialParts, sensorColumns
    <2>2. id \in NoCoordinateSystem
      BY <1>4 DEF NoCoordinateSystem
    <2>3. /\ parts \in [1 .. 3 -> Parts] /\ widths \in [1 .. 3 -> Nat]
          /\ parts[1] = "raw" /\ parts[2] = "plain" /\ parts[3] = "plain"
          /\ widths[1] = 3 /\ widths[2] = 1 /\ widths[3] = 1
      BY DEF Parts
    <2> HIDE DEF parts, widths
    <2>4. \A i \in 1 .. 3 : widths[i] = Width(parts[i])
      BY <2>3, Widths
    <2>5. \A i \in 1 .. 3 : parts[i] \in Numeric \/ parts[i] = "raw"
      BY <2>3 DEF Numeric
    <2>6. 3 \in Nat
      OBVIOUS
    <2>7. \A i \in 1 .. 3 : parts[i] \in Numeric \/ (parts[i] = "raw" <=> id \in NoCoordinateSystem)
      BY <2>2, <2>5, Zenon
    <2>8. FitsTable(id)
      BY <2>1, <2>3, <2>4, <2>6, <2>7, Fits, ZenonT(60)
    <2> QED
      BY <2>8
  <1> QED
    BY <1>1, <1>2, <1>3, <1>4

\* Rotation vectors.
LEMMA RotationFits ==
    ASSUME NEW id \in {5, 8, 9}
    PROVE  FitsTable(id)
  <1>1. CASE id \in {5, 9}
    <2> DEFINE parts  == <<"rotation", "plain">>
               widths == <<4, 1>>
    <2>1. LoggedParts(id) = parts /\ sensorColumns(id) = widths
      <3>1. LoggedParts(id) = parts
        BY <1>1 DEF LoggedParts, RotationParts
      <3>2. sensorColumns(id) = widths
        BY <1>1, SMTT(30) DEF sensorColumns
      <3> QED
        BY <3>1, <3>2, Zenon
    <2>2. id \notin NoCoordinateSystem
      BY <1>1 DEF NoCoordinateSystem
    <2>3. /\ parts \in [1 .. 2 -> Parts] /\ widths \in [1 .. 2 -> Nat]
          /\ parts[1] = "rotation" /\ parts[2] = "plain"
          /\ widths[1] = 4 /\ widths[2] = 1
      BY DEF Parts
    <2> HIDE DEF parts, widths
    <2>4. \A i \in 1 .. 2 : widths[i] = Width(parts[i])
      BY <2>3, Widths
    <2>5. \A i \in 1 .. 2 : parts[i] \in Numeric \/ parts[i] # "raw"
      BY <2>3 DEF Numeric
    <2>6. 2 \in Nat
      OBVIOUS
    <2>7. \A i \in 1 .. 2 : parts[i] \in Numeric \/ (parts[i] = "raw" <=> id \in NoCoordinateSystem)
      BY <2>2, <2>5, Zenon
    <2>8. FitsTable(id)
      BY <2>1, <2>3, <2>4, <2>6, <2>7, Fits, ZenonT(60)
    <2> QED
      BY <2>8
  <1>2. CASE id \in {8}
    <2> DEFINE parts  == <<"rotation">>
               widths == <<4>>
    <2>1. LoggedParts(id) = parts /\ sensorColumns(id) = widths
      BY <1>2 DEF LoggedParts, RotationParts, sensorColumns
    <2>2. id \notin NoCoordinateSystem
      BY <1>2 DEF NoCoordinateSystem
    <2>3. /\ parts \in [1 .. 1 -> Parts] /\ widths \in [1 .. 1 -> Nat]
          /\ parts[1] = "rotation"
          /\ widths[1] = 4
      BY DEF Parts
    <2> HIDE DEF parts, widths
    <2>4. \A i \in 1 .. 1 : widths[i] = Width(parts[i])
      BY <2>3, Widths
    <2>5. \A i \in 1 .. 1 : parts[i] \in Numeric \/ parts[i] # "raw"
      BY <2>3 DEF Numeric
    <2>6. 1 \in Nat
      OBVIOUS
    <2>7. \A i \in 1 .. 1 : parts[i] \in Numeric \/ (parts[i] = "raw" <=> id \in NoCoordinateSystem)
      BY <2>2, <2>5, Zenon
    <2>8. FitsTable(id)
      BY <2>1, <2>3, <2>4, <2>6, <2>7, Fits, ZenonT(60)
    <2> QED
      BY <2>8
  <1> QED
    BY <1>1, <1>2

\* Stabilized rotations and the pose.
LEMMA FusionFits ==
    ASSUME NEW id \in {40, 41, 42, 45}
    PROVE  FitsTable(id)
  <1>1. CASE id \in {40}
    <2> DEFINE parts  == <<"rotation", "plain">>
               widths == <<4, 1>>
    <2>1. LoggedParts(id) = parts /\ sensorColumns(id) = widths
      BY <1>1 DEF LoggedParts, FusionParts, sensorColumns
    <2>2. id \notin NoCoordinateSystem
      BY <1>1 DEF NoCoordinateSystem
    <2>3. /\ parts \in [1 .. 2 -> Parts] /\ widths \in [1 .. 2 -> Nat]
          /\ parts[1] = "rotation" /\ parts[2] = "plain"
          /\ widths[1] = 4 /\ widths[2] = 1
      BY DEF Parts
    <2> HIDE DEF parts, widths
    <2>4. \A i \in 1 .. 2 : widths[i] = Width(parts[i])
      BY <2>3, Widths
    <2>5. \A i \in 1 .. 2 : parts[i] \in Numeric \/ parts[i] # "raw"
      BY <2>3 DEF Numeric
    <2>6. 2 \in Nat
      OBVIOUS
    <2>7. \A i \in 1 .. 2 : parts[i] \in Numeric \/ (parts[i] = "raw" <=> id \in NoCoordinateSystem)
      BY <2>2, <2>5, Zenon
    <2>8. FitsTable(id)
      BY <2>1, <2>3, <2>4, <2>6, <2>7, Fits, ZenonT(60)
    <2> QED
      BY <2>8
  <1>2. CASE id \in {41}
    <2> DEFINE parts  == <<"rotation">>
               widths == <<4>>
    <2>1. LoggedParts(id) = parts /\ sensorColumns(id) = widths
      BY <1>2 DEF LoggedParts, FusionParts, sensorColumns
    <2>2. id \notin NoCoordinateSystem
      BY <1>2 DEF NoCoordinateSystem
    <2>3. /\ parts \in [1 .. 1 -> Parts] /\ widths \in [1 .. 1 -> Nat]
          /\ parts[1] = "rotation"
          /\ widths[1] = 4
      BY DEF Parts
    <2> HIDE DEF parts, widths
    <2>4. \A i \in 1 .. 1 : widths[i] = Width(parts[i])
      BY <2>3, Widths
    <2>5. \A i \in 1 .. 1 : parts[i] \in Numeric \/ parts[i] # "raw"
      BY <2>3 DEF Numeric
    <2>6. 1 \in Nat
      OBVIOUS
    <2>7. \A i \in 1 .. 1 : parts[i] \in Numeric \/ (parts[i] = "raw" <=> id \in NoCoordinateSystem)
      BY <2>2, <2>5, Zenon
    <2>8. FitsTable(id)
      BY <2>1, <2>3, <2>4, <2>6, <2>7, Fits, ZenonT(60)
    <2> QED
      BY <2>8
  <1>3. CASE id \in {42}
    <2> DEFINE parts  == <<"rotation", "vector">>
               widths == <<4, 3>>
    <2>1. LoggedParts(id) = parts /\ sensorColumns(id) = widths
      BY <1>3 DEF LoggedParts, FusionParts, sensorColumns
    <2>2. id \notin NoCoordinateSystem
      BY <1>3 DEF NoCoordinateSystem
    <2>3. /\ parts \in [1 .. 2 -> Parts] /\ widths \in [1 .. 2 -> Nat]
          /\ parts[1] = "rotation" /\ parts[2] = "vector"
          /\ widths[1] = 4 /\ widths[2] = 3
      BY DEF Parts
    <2> HIDE DEF parts, widths
    <2>4. \A i \in 1 .. 2 : widths[i] = Width(parts[i])
      BY <2>3, Widths
    <2>5. \A i \in 1 .. 2 : parts[i] \in Numeric \/ parts[i] # "raw"
      BY <2>3 DEF Numeric
    <2>6. 2 \in Nat
      OBVIOUS
    <2>7. \A i \in 1 .. 2 : parts[i] \in Numeric \/ (parts[i] = "raw" <=> id \in NoCoordinateSystem)
      BY <2>2, <2>5, Zenon
    <2>8. FitsTable(id)
      BY <2>1, <2>3, <2>4, <2>6, <2>7, Fits, ZenonT(60)
    <2> QED
      BY <2>8
  <1>4. CASE id \in {45}
    <2> DEFINE parts  == <<"vector", "rotation", "vector", "vector", "plain">>
               widths == <<3, 4, 3, 3, 1>>
    <2>1. LoggedParts(id) = parts /\ sensorColumns(id) = widths
      BY <1>4 DEF LoggedParts, FusionParts, sensorColumns
    <2>2. id \notin NoCoordinateSystem
      BY <1>4 DEF NoCoordinateSystem
    <2>3. /\ parts \in [1 .. 5 -> Parts] /\ widths \in [1 .. 5 -> Nat]
          /\ parts[1] = "vector" /\ parts[2] = "rotation" /\ parts[3] = "vector" /\ parts[4] = "vector" /\ parts[5] = "plain"
          /\ widths[1] = 3 /\ widths[2] = 4 /\ widths[3] = 3 /\ widths[4] = 3 /\ widths[5] = 1
      BY DEF Parts
    <2> HIDE DEF parts, widths
    <2>4. \A i \in 1 .. 5 : widths[i] = Width(parts[i])
      BY <2>3, Widths
    <2>5. \A i \in 1 .. 5 : parts[i] \in Numeric \/ parts[i] # "raw"
      BY <2>3 DEF Numeric
    <2>6. 5 \in Nat
      OBVIOUS
    <2>7. \A i \in 1 .. 5 : parts[i] \in Numeric \/ (parts[i] = "raw" <=> id \in NoCoordinateSystem)
      BY <2>2, <2>5, Zenon
    <2>8. FitsTable(id)
      BY <2>1, <2>3, <2>4, <2>6, <2>7, Fits, ZenonT(60)
    <2> QED
      BY <2>8
  <1> QED
    BY <1>1, <1>2, <1>3, <1>4

\* A sensor with plain parts only, one for each column.
LEMMA PlainFits ==
    ASSUME NEW id, NEW n \in Nat, LoggedParts(id) = Plain(n),
           NEW widths \in [1 .. n -> Nat], sensorColumns(id) = widths,
           \A i \in 1 .. n : widths[i] = 1
    PROVE  FitsTable(id)
  <1> DEFINE parts == Plain(n)
  <1>1. parts \in [1 .. n -> Parts] /\ \A i \in 1 .. n : parts[i] = "plain"
    BY DEF Plain, Parts
  <1>2. "plain" \in Numeric
    BY DEF Numeric
  <1> HIDE DEF parts
  <1>3. \A i \in 1 .. n : widths[i] = Width(parts[i])
    BY <1>1, Widths, Zenon
  <1>4. \A i \in 1 .. n : parts[i] \in Numeric
    BY <1>1, <1>2, Zenon
  <1> QED
    BY <1>1, <1>3, <1>4, Fits, Zenon DEF parts

\* The others, the classifier and the optical flow.
LEMMA OthersFit ==
    ASSUME NEW id \in SensorIds, HasChannel(id),
           id \notin {1, 2, 3, 4, 6, 7, 15, 20, 21, 22, 5, 8, 9, 40, 41, 42, 45}
    PROVE  FitsTable(id)
  <1>0. id \in 0 .. 46 /\ id \notin {0, 23, 29} \cup 36 .. 39
    <2>1. id \in 0 .. 46
      BY DEF SensorIds, SH2_MAX_SENSOR_ID
    <2>2. sensorColumns(id) # <<>>
      BY DEF HasChannel
    <2>3. ASSUME id \in {0, 23, 29} \cup 36 .. 39
          PROVE  sensorColumns(id) = <<>>
      BY <2>3 DEF sensorColumns
    <2> QED
      BY <2>1, <2>2, <2>3
  <1>1. CASE id \in {17, 43}
    <2>1. LoggedParts(id) = Plain(2) /\ sensorColumns(id) = <<1, 1>>
      <3>1. CASE id = 17
        BY <3>1 DEF LoggedParts, EventParts, sensorColumns
      <3>2. CASE id = 43
        BY <3>2 DEF LoggedParts, FusionParts, sensorColumns
      <3> QED
        BY <1>1, <3>1, <3>2
    <2> DEFINE widths == <<1, 1>>
    <2>2. widths \in [1 .. 2 -> Nat] /\ (\A i \in 1 .. 2 : widths[i] = 1) /\ 2 \in Nat
      BY <1>1
    <2> HIDE DEF widths
    <2> QED
      BY <2>1, <2>2, PlainFits, Zenon DEF widths
  <1>2. CASE id = 46
    <2>1. LoggedParts(id) = Plain(4) /\ sensorColumns(id) = <<1, 1, 1, 1>>
      BY <1>2 DEF LoggedParts, FusionParts, sensorColumns
    <2> DEFINE widths == <<1, 1, 1, 1>>
    <2>2. widths \in [1 .. 4 -> Nat] /\ (\A i \in 1 .. 4 : widths[i] = 1) /\ 4 \in Nat
      BY <1>2
    <2> HIDE DEF widths
    <2> QED
      BY <2>1, <2>2, PlainFits, Zenon DEF widths
  <1>3. CASE id \notin {17, 43, 46, 30, 44}
    <2>1. LoggedParts(id) = Plain(1) /\ sensorColumns(id) = <<1>>
      BY <1>0, <1>3 DEF LoggedParts, EventParts, sensorColumns
    <2> DEFINE widths == <<1>>
    <2>2. widths \in [1 .. 1 -> Nat] /\ (\A i \in 1 .. 1 : widths[i] = 1) /\ 1 \in Nat
      BY <1>3
    <2> HIDE DEF widths
    <2> QED
      BY <2>1, <2>2, PlainFits, Zenon DEF widths
  <1>4. CASE id = 44
    <2> DEFINE parts  == <<"plain", "plain", "pair", "plain", "pair",
                           "plain", "plain", "plain", "plain", "plain", "plain">>
               widths == <<1, 1, 2, 1, 2, 1, 1, 1, 1, 1, 1>>
    <2>1. LoggedParts(id) = parts /\ sensorColumns(id) = widths
      BY <1>4 DEF LoggedParts, FusionParts, sensorColumns
    <2>2. /\ parts \in [1 .. 11 -> Parts]
          /\ \A i \in 1 .. 11 : parts[i] = IF i \in {3, 5} THEN "pair" ELSE "plain"
      BY DEF Parts
    <2>3. /\ widths \in [1 .. 11 -> Nat]
          /\ \A i \in 1 .. 11 : widths[i] = IF i \in {3, 5} THEN 2 ELSE 1
      OBVIOUS
    <2> HIDE DEF parts, widths
    <2>4. \A i \in 1 .. 11 : widths[i] = Width(parts[i])
      BY <2>2, <2>3, Widths
    <2>5. \A i \in 1 .. 11 : parts[i] \in Numeric
      BY <2>2 DEF Numeric
    <2>6. 11 \in Nat
      OBVIOUS
    <2>7. \A i \in 1 .. 11 : parts[i] \in Numeric \/ (parts[i] = "raw" <=> id \in NoCoordinateSystem)
      BY <2>5, Zenon
    <2>8. parts \in [1 .. 11 -> Parts] /\ widths \in [1 .. 11 -> Nat]
      BY <2>2, <2>3, Zenon
    <2> QED
      BY <2>1, <2>4, <2>6, <2>7, <2>8, Fits, ZenonT(60)
  <1>5. CASE id = 30
    <2> DEFINE parts  == <<"plain", "confidences", "empty">>
               widths == <<1, 10>>
    <2>1. LoggedParts(id) = parts /\ sensorColumns(id) = widths
      BY <1>5 DEF LoggedParts, EventParts, sensorColumns
    <2>2. /\ parts \in [1 .. 3 -> Parts] /\ widths \in [1 .. 2 -> Nat]
          /\ parts[1] = "plain" /\ parts[2] = "confidences" /\ parts[3] = "empty"
          /\ widths[1] = 1 /\ widths[2] = 10
      BY DEF Parts
    <2> HIDE DEF parts, widths
    <2>3. \A i \in 1 .. 2 : widths[i] = Width(parts[i])
      BY <2>2, Widths
    <2>4. \A i \in 2 + 1 .. 3 : parts[i] = "empty"
      BY <2>2
    <2>5. \A i \in 1 .. 3 : parts[i] \in Numeric
      BY <2>2 DEF Numeric
    <2>6. 2 \in Nat /\ 3 \in Nat /\ 2 <= 3
      OBVIOUS
    <2>7. /\ Has(id, "vector") \/ Has(id, "rotation") => id \notin NoCoordinateSystem
          /\ Has(id, "raw") => id \in NoCoordinateSystem
      BY <2>1, <2>2, <2>5, <2>6, FramesFit, ZenonT(60)
    <2>8. /\ LoggedParts(id) \in [1 .. 3 -> Parts] /\ sensorColumns(id) \in [1 .. 2 -> Nat]
          /\ \A i \in 1 .. 2 : sensorColumns(id)[i] = Width(LoggedParts(id)[i])
          /\ \A i \in 2 + 1 .. 3 : LoggedParts(id)[i] = "empty"
      BY <2>1, <2>2, <2>3, <2>4, Zenon
    <2> QED
      BY <2>6, <2>7, <2>8, Zenon DEF FitsTable
  <1> QED
    BY <1>1, <1>2, <1>3, <1>4, <1>5, Zenon

\* Every sensor with a channel fits the tables.
LEMMA TableFits ==
    ASSUME NEW id \in SensorIds, HasChannel(id)
    PROVE  FitsTable(id)
  <1>1. CASE id \in {1, 2, 3, 4, 6, 7, 15, 20, 21, 22}
    BY <1>1, InertialFits, ZenonT(60)
  <1>2. CASE id \in {5, 8, 9}
    BY <1>2, RotationFits, ZenonT(60)
  <1>3. CASE id \in {40, 41, 42, 45}
    BY <1>3, FusionFits, ZenonT(60)
  <1>4. CASE id \notin {1, 2, 3, 4, 6, 7, 15, 20, 21, 22, 5, 8, 9, 40, 41, 42, 45}
    BY <1>4, OthersFit, Zenon
  <1> QED
    BY <1>1, <1>2, <1>3, <1>4

\* A sample has a value for each column of its channel, with as many fields as
\* the column has letters, and what follows is empty.
LEMMA Fit ==
    ASSUME NEW id \in SensorIds, HasChannel(id), NEW sample, IsSample(sample), NEW ned
    PROVE  /\ DOMAIN sensorColumns(id) \subseteq DOMAIN LoggedFields(id, sample, ned)
           /\ \A c \in DOMAIN LoggedFields(id, sample, ned) :
                 Len(LoggedFields(id, sample, ned)[c])
                    = IF c \in DOMAIN sensorColumns(id) THEN sensorColumns(id)[c] ELSE 0
  <1> DEFINE parts   == LoggedParts(id)
             columns == sensorColumns(id)
             values  == LoggedFields(id, sample, ned)
  <1>1. PICK m \in Nat, n \in Nat :
           /\ n <= m /\ parts \in [1 .. m -> Parts] /\ columns \in [1 .. n -> Nat]
           /\ \A i \in 1 .. n : columns[i] = Width(parts[i])
           /\ \A i \in n + 1 .. m : parts[i] = "empty"
    BY TableFits, ZenonT(60) DEF FitsTable
  <1>2. DOMAIN parts = 1 .. m /\ DOMAIN columns = 1 .. n /\ \A i \in 1 .. m : parts[i] \in Parts
    BY <1>1, Zenon
  <1>3. DOMAIN values = 1 .. m /\ \A i \in 1 .. m : values[i] = PartFields(parts[i], sample, ned)
    BY <1>2, Zenon DEF LoggedFields
  <1> HIDE DEF parts, columns, values
  <1>4. \A i \in 1 .. m : Len(values[i]) = Width(parts[i])
    BY <1>2, <1>3, PartsWide, Zenon
  <1>5. 1 .. n \subseteq 1 .. m /\ \A i \in 1 .. m : i \in 1 .. n \/ i \in n + 1 .. m
    BY <1>1
  <1>6. Width("empty") = 0
    BY DEF Width
  <1>7. \A i \in 1 .. m : Len(values[i]) = IF i \in 1 .. n THEN columns[i] ELSE 0
    BY <1>1, <1>4, <1>5, <1>6, Zenon
  <1> QED
    BY <1>2, <1>3, <1>5, <1>7, Zenon DEF parts, columns, values

\* In a channel with a frame a column of three letters is for an x, y, z, and
\* one of four for an attitude.
LEMMA CoordinatesIn ==
    ASSUME NEW id \in SensorIds, HasChannel(id), id \notin NoCoordinateSystem,
           NEW c \in DOMAIN sensorColumns(id)
    PROVE  /\ c \in DOMAIN LoggedParts(id)
           /\ sensorColumns(id)[c] = 3 => LoggedParts(id)[c] = "vector"
           /\ sensorColumns(id)[c] = 4 => LoggedParts(id)[c] = "rotation"
  <1> DEFINE parts   == LoggedParts(id)
             columns == sensorColumns(id)
  <1>1. FitsTable(id)
    BY TableFits, ZenonT(60)
  <1>2. PICK m \in Nat, n \in Nat :
           /\ n <= m /\ parts \in [1 .. m -> Parts] /\ columns \in [1 .. n -> Nat]
           /\ \A i \in 1 .. n : columns[i] = Width(parts[i])
    BY <1>1, ZenonT(60) DEF FitsTable
  <1>3. c \in 1 .. n /\ DOMAIN parts = 1 .. m
    BY <1>2, Zenon
  <1>4. c \in 1 .. m
    BY <1>2, <1>3
  <1>5. parts[c] \in Parts /\ columns[c] = Width(parts[c])
    BY <1>2, <1>3, <1>4, Zenon
  <1>6. ~Has(id, "raw")
    BY <1>1, Zenon DEF FitsTable
  <1>7. parts[c] # "raw"
    BY <1>3, <1>4, <1>6, Zenon DEF Has
  <1>8. \A p \in Parts : /\ Width(p) = 3 => p = "vector" \/ p = "raw"
                         /\ Width(p) = 4 => p = "rotation"
    BY DEF Parts, Width
  <1> QED
    BY <1>3, <1>4, <1>5, <1>7, <1>8, Zenon

\* What the hub reports has three and four coordinates.
LEMMA HubReports ==
    ASSUME FileInv
    PROVE  /\ HubSample.rotation = hub.attitude /\ hub.attitude \in [1 .. 4 -> Int]
           /\ LET q == hub.attitude
              IN  HubSample.vector = Rotate(<<q[1], -q[2], -q[3], -q[4]>>, <<0, 0, 1>>)
           /\ IsSample(HubSample)
  <1>1. hub.attitude \in [1 .. 4 -> Int]
    BY HubAssumption DEF FileInv
  <1> DEFINE q == hub.attitude
             p == <<q[1], -q[2], -q[3], -q[4]>>
             v == <<0, 0, 1>>
  <1>2. HubSample.rotation = q /\ HubSample.vector = Rotate(p, v)
    BY DEF HubSample
  <1>3. q[1] \in Int /\ q[2] \in Int /\ q[3] \in Int /\ q[4] \in Int
    BY <1>1
  <1>4. ASSUME NEW a \in Int, NEW b \in Int, NEW c \in Int, NEW d \in Int
        PROVE  Rotate(<<a, b, c, d>>, <<0, 0, 1>>) \in [1 .. 3 -> Int]
    BY DEF Rotate
  <1>5. -q[2] \in Int /\ -q[3] \in Int /\ -q[4] \in Int
    BY <1>3
  <1>6. Rotate(p, v) \in [1 .. 3 -> Int]
    BY <1>3, <1>4, <1>5, Zenon
  <1> QED
    BY <1>1, <1>2, <1>6, Zenon DEF IsSample

\* The columns and the frame that a channel declares.
LEMMA Framed ==
    ASSUME NEW id \in SensorIds, HasChannel(id), NEW ned \in BOOLEAN
    PROVE  /\ ChannelDefinition(id, ned).widths = sensorColumns(id)
           /\ ChannelDefinition(id, ned).frame =
                 IF id \in NoCoordinateSystem THEN "none" ELSE IF ned THEN "NED" ELSE "ENU"
           /\ Has(id, "vector") \/ Has(id, "rotation") =>
                 ChannelDefinition(id, ned).frame # "none"
           /\ Has(id, "raw") => ChannelDefinition(id, ned).frame = "none"
  <1> DEFINE d == ChannelDefinition(id, ned)
  <1>1. /\ d.widths = sensorColumns(id)
        /\ d.frame = IF id \in NoCoordinateSystem THEN "none" ELSE IF ned THEN "NED" ELSE "ENU"
    BY DEF ChannelDefinition
  <1>2. /\ Has(id, "vector") \/ Has(id, "rotation") => id \notin NoCoordinateSystem
        /\ Has(id, "raw") => id \in NoCoordinateSystem
    BY TableFits, Zenon DEF FitsTable
  <1>3. "NED" # "none" /\ "ENU" # "none"
    OBVIOUS
  <1> HIDE DEF d
  <1>4. id \notin NoCoordinateSystem => d.frame # "none"
    BY <1>1, <1>3
  <1>5. id \in NoCoordinateSystem => d.frame = "none"
    BY <1>1, Zenon
  <1> QED
    BY <1>1, <1>2, <1>4, <1>5, Zenon DEF d

\* A sample of a log, and the definition of its channel before it.
LEMMA Logged ==
    ASSUME ConfiguredInv, NEW i \in DOMAIN log, log[i].kind = "sample"
    PROVE  /\ log[i].sensor \in SensorIds /\ HasChannel(log[i].sensor)
           /\ log[i].fields = LoggedFields(log[i].sensor, HubSample, Ned)
           /\ \E j \in 1 .. i - 1 : log[j].kind = "definition" /\ log[j].sensor = log[i].sensor
           /\ \A j \in 1 .. i - 1 : j \in DOMAIN log
  <1>1. DefinedInv
    BY Zenon DEF ConfiguredInv
  <1>2. /\ AsLogged(log[i], Ned, HubSample)
        /\ \E j \in 1 .. i - 1 : Defines(log[j], log[i].sensor)
    BY <1>1, Zenon DEF DefinedInv, Describes
  <1>3. \A j \in 1 .. i - 1 : j \in DOMAIN log
    <2>1. ASSUME NEW S, NEW s \in Seq(S), NEW k \in DOMAIN s
          PROVE  \A j \in 1 .. k - 1 : j \in DOMAIN s
      OBVIOUS
    <2>2. \E S : log \in Seq(S)
      BY <1>1, Zenon DEF DefinedInv, Describes, IsSeq
    <2> QED
      BY <2>1, <2>2, Zenon
  <1> QED
    BY <1>2, <1>3, Zenon DEF AsLogged, Defines

\* The frame of a log is the one or the other.
LEMMA NedIsBoolean ==
    ASSUME ConfiguredInv
    PROVE  Ned \in BOOLEAN
  BY Zenon DEF ConfiguredInv, TypeOK, Ned

\* A definition is that of its channel.
LEMMA DefinedAs ==
    ASSUME ConfiguredInv, NEW j \in DOMAIN log, log[j].kind = "definition"
    PROVE  log[j].sensor \in SensorIds /\ log[j].is = ChannelDefinition(log[j].sensor, Ned)
  BY Zenon DEF ConfiguredInv, DefinedInv, Describes, AsDefined

\* The samples of a log fit their channels.
LEMMA AllSamplesFit ==
    ASSUME ConfiguredInv
    PROVE  SamplesFit
  <1> SUFFICES ASSUME NEW i \in DOMAIN log, log[i].kind = "sample"
               PROVE  \E j \in 1 .. i - 1 :
                         /\ log[j].kind = "definition" /\ log[j].sensor = log[i].sensor
                         /\ LET id == log[i].sensor  columns == log[j].is.widths
                                values == log[i].fields
                            IN  /\ DOMAIN columns \subseteq DOMAIN values
                                /\ \A c \in DOMAIN values :
                                      Len(values[c]) = IF c \in DOMAIN columns THEN columns[c] ELSE 0
                                /\ Has(id, "vector") \/ Has(id, "rotation") =>
                                      log[j].is.frame # "none"
                                /\ Has(id, "raw") => log[j].is.frame = "none"
    BY Zenon DEF SamplesFit
  <1> DEFINE id == log[i].sensor
  <1>1. /\ id \in SensorIds /\ HasChannel(id)
        /\ log[i].fields = LoggedFields(id, HubSample, Ned)
    BY Logged, Zenon
  <1>2. PICK j \in 1 .. i - 1 : /\ log[j].kind = "definition" /\ log[j].sensor = id
                                /\ j \in DOMAIN log
    BY Logged, Zenon
  <1>3. log[j].is = ChannelDefinition(id, Ned)
    BY <1>2, DefinedAs, Zenon
  <1> DEFINE columns == log[j].is.widths
             values  == log[i].fields
             channel == ChannelDefinition(id, Ned)
  <1>4. /\ columns = sensorColumns(id)
        /\ Has(id, "vector") \/ Has(id, "rotation") => log[j].is.frame # "none"
        /\ Has(id, "raw") => log[j].is.frame = "none"
    <2>1. Ned \in BOOLEAN
      BY NedIsBoolean, Zenon
    <2>2. /\ channel.widths = sensorColumns(id)
          /\ Has(id, "vector") \/ Has(id, "rotation") => channel.frame # "none"
          /\ Has(id, "raw") => channel.frame = "none"
      <3> HIDE DEF id
      <3> QED
        BY <1>1, <2>1, Framed, Zenon
    <2> HIDE DEF id, channel
    <2> QED
      BY <1>3, <2>2, Zenon DEF channel
  <1>5. IsSample(HubSample)
    BY HubReports, Zenon DEF ConfiguredInv
  <1>6. /\ DOMAIN columns \subseteq DOMAIN values
        /\ \A c \in DOMAIN values : Len(values[c]) = IF c \in DOMAIN columns THEN columns[c] ELSE 0
    <2> DEFINE table  == sensorColumns(id)
               fields == LoggedFields(id, HubSample, Ned)
    <2>1. /\ DOMAIN table \subseteq DOMAIN fields
          /\ \A c \in DOMAIN fields : Len(fields[c]) = IF c \in DOMAIN table THEN table[c] ELSE 0
      <3> HIDE DEF id
      <3> QED
        BY <1>1, <1>5, Fit
    <2>2. columns = table /\ values = fields
      BY <1>1, <1>4, Zenon
    <2> HIDE DEF columns, values, table, fields, id
    <2> QED
      BY <2>1, <2>2
  <1> HIDE DEF columns, values, id
  <1> QED
    BY <1>2, <1>4, <1>6, Zenon DEF columns, values, id

\* The records of a log are those of the hub.
LEMMA AllDocumented ==
    ASSUME ConfiguredInv, pc \in {"enable", "log"}
    PROVE  LET scd == {i \in DOMAIN log : log[i].kind = "frs" /\ log[i].name = "scd"}
           IN  /\ Cardinality(scd) = IF hub.records \cap {"scd", "nominal_scd"} = {} THEN 0 ELSE 1
               /\ \A i \in scd : log[i].record = "scd" <=> "scd" \in hub.records
               /\ (\E i \in DOMAIN log : log[i].kind = "message") <=> "scd" \notin hub.records
  <1>1. PICK scd \in SUBSET (DOMAIN log) :
           /\ \A i \in DOMAIN log : i \in scd <=> IsScd(log[i])
           /\ IF hub.records \cap {"scd", "nominal_scd"} = {} THEN scd = {} ELSE \E i : scd = {i}
           /\ \A i \in scd : log[i].record = "scd" <=> "scd" \in hub.records
           /\ (\E i \in DOMAIN log : log[i].kind = "message") <=> "scd" \notin hub.records
    BY Zenon DEF ConfiguredInv, RecordsInv, Documents
  <1>2. scd = {i \in DOMAIN log : log[i].kind = "frs" /\ log[i].name = "scd"}
    BY <1>1, Zenon DEF IsScd
  <1>3. Cardinality(scd) = IF hub.records \cap {"scd", "nominal_scd"} = {} THEN 0 ELSE 1
    <2>1. CASE hub.records \cap {"scd", "nominal_scd"} = {}
      BY <1>1, <2>1, FS_EmptySet, Zenon
    <2>2. CASE hub.records \cap {"scd", "nominal_scd"} # {}
      BY <1>1, <2>2, FS_Singleton, Zenon
    <2> QED
      BY <2>1, <2>2, Zenon
  <1> QED
    BY <1>1, <1>2, <1>3, Zenon

\* A log describes itself: every sample has a value for each column of the
\* channel that is defined before it, with as many fields as the column has
\* letters, and nothing else but an empty end; coordinates have a frame if they
\* are not raw; and the one static calibration in the log is the hub's own if
\* it has one. For every sensor of the tables, whatever the hub has.
THEOREM LogIsDescribed == Spec => []LogDescribes
  <1>1. ASSUME ConfiguredInv
        PROVE  LogDescribes
    BY <1>1, AllSamplesFit, AllDocumented, Zenon DEF LogDescribes
  <1> QED
    BY <1>1, ConfiguredInvariant, PTL

-----------------------------------------------------------------------------
(* One frame.                                                              *)

Square(q) == q[1]*q[1] + q[2]*q[2] + q[3]*q[3] + q[4]*q[4]

\* The vertical, as the hub sees it and turned back.
LEMMA TurnedBack ==
    ASSUME NEW a \in Int, NEW b \in Int, NEW c \in Int, NEW d \in Int
    PROVE  LET n == a*a + b*b + c*c + d*d
           IN  Rotate(<<a, b, c, d>>, Rotate(<<a, -b, -c, -d>>, <<0, 0, 1>>)) = <<0, 0, n*n>>
  <1>1. Rotate(<<a, -b, -c, -d>>, <<0, 0, 1>>)
           = <<2*(b*d - a*c), 2*(c*d + a*b), a*a - b*b - c*c + d*d>>
    BY DEF Rotate
  <1> DEFINE x == 2*(b*d - a*c)  y == 2*(c*d + a*b)  z == a*a - b*b - c*c + d*d
  <1>2. (a*a + b*b - c*c - d*d) * x + 2*(b*c - a*d) * y + 2*(b*d + a*c) * z = 0
    OBVIOUS
  <1>3. 2*(b*c + a*d) * x + (a*a - b*b + c*c - d*d) * y + 2*(c*d - a*b) * z = 0
    OBVIOUS
  <1>4. 2*(b*d - a*c) * x + 2*(c*d + a*b) * y + (a*a - b*b - c*c + d*d) * z
           = (a*a + b*b + c*c + d*d) * (a*a + b*b + c*c + d*d)
    OBVIOUS
  <1> HIDE DEF x, y, z
  <1>5. Rotate(<<a, b, c, d>>, <<x, y, z>>)
           = << (a*a + b*b - c*c - d*d) * x + 2*(b*c - a*d) * y + 2*(b*d + a*c) * z,
                2*(b*c + a*d) * x + (a*a - b*b + c*c - d*d) * y + 2*(c*d - a*b) * z,
                2*(b*d - a*c) * x + 2*(c*d + a*b) * y + (a*a - b*b - c*c + d*d) * z >>
    BY DEF Rotate
  <1> QED
    BY <1>1, <1>2, <1>3, <1>4, <1>5, Zenon DEF x, y, z

\* An x, y, z and an attitude as they are written in a log.
InLog(v, ned)       == IF ned THEN VectorToNed(v) ELSE v
TurnedInLog(q, ned) == IF ned THEN RotationToNed(q) ELSE q

\* The attitude of the hub turns the vertical that it saw upright, in ENU, and
\* over, in NED.
LEMMA TurnedUpright ==
    ASSUME FileInv, NEW ned \in BOOLEAN
    PROVE  LET q == TurnedInLog(HubSample.rotation, ned)
               n == Square(q)
           IN  /\ Rotate(q, InLog(HubSample.vector, ned)) = <<0, 0, IF ned THEN -(n * n) ELSE n * n>>
               /\ n \in Int
  <1> DEFINE h == hub.attitude
  <1>1. /\ HubSample.rotation = h /\ h \in [1 .. 4 -> Int]
        /\ HubSample.vector = Rotate(<<h[1], -h[2], -h[3], -h[4]>>, <<0, 0, 1>>)
    BY HubReports, Zenon
  <1> HIDE DEF h
  <1>2. PICK a \in Int, b \in Int, c \in Int, d \in Int : h[1] = a /\ h[2] = b /\ h[3] = c /\ h[4] = d
    BY <1>1
  <1> DEFINE p == <<a, b, c, d>>
             v == Rotate(<<a, -b, -c, -d>>, <<0, 0, 1>>)
             n == a*a + b*b + c*c + d*d
  <1>3. HubSample.vector = v
    BY <1>1, <1>2, Zenon
  <1>4. HubSample.rotation = p
    <2>1. h = [k \in 1 .. 4 |-> h[k]]
      BY <1>1
    <2>2. h = p
      BY <1>2, <2>1
    <2> QED
      BY <1>1, <2>2, Zenon
  <1>5. Rotate(p, v) = <<0, 0, n * n>>
    BY TurnedBack
  <1>6. p \in Quaternions /\ v \in Vectors
    BY DEF Quaternions, Vectors, Rotate
  <1>7. Square(p) = n /\ n \in Int
    BY DEF Square
  <1>8. Square(RotationToNed(p)) = n
    <2>1. RotationToNed(p) = <<a, c, b, -d>>
      BY DEF RotationToNed
    <2>2. PICK e \in Int : e = -d
      OBVIOUS
    <2>3. Square(<<a, c, b, e>>) = a*a + c*c + b*b + e*e
      BY DEF Square
    <2>4. a*a + c*c + b*b + (-d)*(-d) = n
      OBVIOUS
    <2> QED
      BY <2>1, <2>2, <2>3, <2>4, Zenon
  <1> HIDE DEF p, v, n
  <1>9. CASE ~ned
    BY <1>3, <1>4, <1>5, <1>7, <1>9, Zenon DEF TurnedInLog, InLog
  <1>10. CASE ned
    <2>1. Rotate(RotationToNed(p), VectorToNed(v)) = VectorToNed(<<0, 0, n * n>>)
      BY <1>5, <1>6, FramesAgree, Zenon
    <2>2. VectorToNed(<<0, 0, n * n>>) = <<0, 0, -(n * n)>>
      BY DEF VectorToNed
    <2> QED
      BY <1>3, <1>4, <1>7, <1>8, <1>10, <2>1, <2>2, Zenon DEF TurnedInLog, InLog
  <1> QED
    BY <1>9, <1>10, Zenon

\* What a sample has in a column with a frame.
LEMMA CoordinatesLogged ==
    ASSUME ConfiguredInv, NEW i \in Samples, NEW d \in DOMAIN log, NEW c, NEW letters,
           Declares(d, i, c, letters)
    PROVE  /\ letters = 3 => log[i].fields[c] = InLog(HubSample.vector, Ned)
           /\ letters = 4 => log[i].fields[c] = TurnedInLog(HubSample.rotation, Ned)
           /\ log[d].is.frame = IF Ned THEN "NED" ELSE "ENU"
  <1> DEFINE id == log[i].sensor
  <1>1. i \in DOMAIN log /\ log[i].kind = "sample"
    BY Zenon DEF Samples
  <1>2. /\ id \in SensorIds /\ HasChannel(id)
        /\ log[i].fields = LoggedFields(id, HubSample, Ned)
    BY <1>1, Logged, Zenon
  <1>3. log[d].is = ChannelDefinition(id, Ned)
    BY DefinedAs, Zenon DEF Declares
  <1>4. /\ log[d].is.widths = sensorColumns(id)
        /\ log[d].is.frame = IF id \in NoCoordinateSystem THEN "none" ELSE IF Ned THEN "NED" ELSE "ENU"
    <2> DEFINE channel == ChannelDefinition(id, Ned)
    <2>1. Ned \in BOOLEAN
      BY NedIsBoolean, Zenon
    <2>2. /\ channel.widths = sensorColumns(id)
          /\ channel.frame = IF id \in NoCoordinateSystem THEN "none" ELSE IF Ned THEN "NED" ELSE "ENU"
      <3> HIDE DEF id
      <3> QED
        BY <1>2, <2>1, Framed
    <2>3. log[d].is = channel
      BY <1>3, Zenon
    <2> HIDE DEF channel, id
    <2> QED
      BY <2>2, <2>3
  <1>5. id \notin NoCoordinateSystem /\ c \in DOMAIN sensorColumns(id) /\ sensorColumns(id)[c] = letters
    BY <1>4, Zenon DEF Declares
  <1>6. /\ c \in DOMAIN LoggedParts(id)
        /\ letters = 3 => LoggedParts(id)[c] = "vector"
        /\ letters = 4 => LoggedParts(id)[c] = "rotation"
    BY <1>2, <1>5, CoordinatesIn, Zenon
  <1>7. log[i].fields[c] = PartFields(LoggedParts(id)[c], HubSample, Ned)
    BY <1>2, <1>6, Zenon DEF LoggedFields
  <1>8. /\ PartFields("vector", HubSample, Ned) = InLog(HubSample.vector, Ned)
        /\ PartFields("rotation", HubSample, Ned) = TurnedInLog(HubSample.rotation, Ned)
    BY DEF PartFields, InLog, TurnedInLog
  <1> QED
    BY <1>4, <1>5, <1>6, <1>7, <1>8, Zenon

\* All coordinates of a log are in the one frame its channels declare: the
\* vertical, wherever a sensor reports an x, y, z, turned by any attitude of the
\* same log, is upright, and the same way up in the whole log. For every sensor
\* of the tables and every attitude of the hub.
THEOREM CoordinatesAgree == Spec => []OneFrame
  <1>1. ASSUME ConfiguredInv
        PROVE  OneFrame
    <2> DEFINE up == IF Ned THEN -1 ELSE 1
    <2>1. up \in {1, -1}
      BY Zenon
    <2>2. ASSUME NEW i \in Samples, NEW j \in Samples, NEW d \in DOMAIN log, NEW e \in DOMAIN log,
                 NEW c \in DOMAIN log[i].fields, NEW k \in DOMAIN log[j].fields,
                 Declares(d, i, c, 3), Declares(e, j, k, 4)
          PROVE  LET q == log[j].fields[k]
                     n == Square(q)
                 IN  /\ Rotate(q, log[i].fields[c]) = <<0, 0, up * (n * n)>>
                     /\ log[d].is.frame = log[e].is.frame
                     /\ log[d].is.frame = "ENU" => up = 1
      <3> DEFINE q == TurnedInLog(HubSample.rotation, Ned)
                 v == InLog(HubSample.vector, Ned)
                 n == Square(q)
                 m == n * n
      <3>1. log[i].fields[c] = v /\ log[d].is.frame = IF Ned THEN "NED" ELSE "ENU"
        BY <1>1, <2>2, CoordinatesLogged, Zenon
      <3>2. log[j].fields[k] = q /\ log[e].is.frame = IF Ned THEN "NED" ELSE "ENU"
        BY <1>1, <2>2, CoordinatesLogged, Zenon
      <3>3. Rotate(q, v) = <<0, 0, IF Ned THEN -m ELSE m>> /\ n \in Int
        BY <1>1, TurnedUpright, NedIsBoolean, Zenon DEF ConfiguredInv
      <3>4. m \in Int
        BY <3>3
      <3> HIDE DEF q, v, n, m
      <3>5. (IF Ned THEN -m ELSE m) = up * m
        BY <3>4
      <3>6. log[d].is.frame = "ENU" => up = 1
        BY <3>1
      <3> HIDE DEF up
      <3>7. Rotate(q, v) = <<0, 0, up * m>>
        BY <3>3, <3>5, Zenon
      <3> QED
        BY <3>1, <3>2, <3>6, <3>7, Zenon DEF n, m
    <2> HIDE DEF up
    <2>3. \E u \in {1, -1} :
             \A i, j \in Samples, d, e \in DOMAIN log :
                \A c \in DOMAIN log[i].fields, k \in DOMAIN log[j].fields :
                   Declares(d, i, c, 3) /\ Declares(e, j, k, 4) =>
                      LET q == log[j].fields[k]
                          n == Square(q)
                      IN  /\ Rotate(q, log[i].fields[c]) = <<0, 0, u * (n * n)>>
                          /\ log[d].is.frame = log[e].is.frame
                          /\ log[d].is.frame = "ENU" => u = 1
      <3> WITNESS up \in {1, -1}
      <3> TAKE i, j \in Samples, d, e \in DOMAIN log
      <3> TAKE c \in DOMAIN log[i].fields, k \in DOMAIN log[j].fields
      <3> HAVE Declares(d, i, c, 3) /\ Declares(e, j, k, 4)
      <3> QED
        BY <2>2, Zenon
    <2> QED
      BY <2>3, Zenon DEF OneFrame, Square
  <1> QED
    BY <1>1, ConfiguredInvariant, PTL

=============================================================================
