--------------------------- MODULE FtdiFlowProofs ---------------------------
(***************************************************************************)
(* Proofs about the write flow control of the FTDI HAL, for every size of  *)
(* the hub's buffer, set of transfers, pause between queries and set of    *)
(* faults.                                                                 *)
(*                                                                         *)
(* The argument: with a prompt hub at most one frame and, behind it, one   *)
(* query are on their way to the hub; an answer is on its way back only    *)
(* when nothing is on its way to the hub; and as long as a query or its    *)
(* answer is under way the host can neither write nor ask again.  So the   *)
(* room the host counts on (Grant) is never more than there is.            *)
(***************************************************************************)
EXTENDS FtdiFlow, SequenceTheorems, TLAPS

Answers == {i \in DOMAIN fromHub : fromHub[i].kind = "BSN"}

Shape == \/ toHub = <<>>
         \/ toHub = <<BSQ>>
         \/ \E len \in Lens : toHub = <<Frame(len)>> \/ toHub = <<Frame(len), BSQ>>

\* A frame on its way to the hub will fit, and used up the last notification.
FrameFits == \A len \in Lens :
    toHub = <<Frame(len)>> \/ toHub = <<Frame(len), BSQ>>
        => used + len <= Capacity /\ lastBsn = 0

Grant == used + lastBsn <= Capacity

\* There is one answer at most, nothing was written since, and it is no more
\* than there is.
AnswerGood == \A i \in Answers :
    /\ toHub = <<>>
    /\ used + fromHub[i].room <= Capacity
    /\ \A j \in Answers : i = j

\* While a query is out the transfer that caused it waits.
Waits == QueryUnderWay => pending # 0 /\ lastBsn < pending /\ bsqAge = 0

Flow == Shape /\ FrameFits /\ Grant /\ AnswerGood /\ Waits /\ NoOverflow

Inv == TypeOK /\ (Prompt => Flow)

-----------------------------------------------------------------------------
(* Sequences.                                                              *)

\* What is left of a line when its first message is taken off.
LEMMA TakenOff ==
    ASSUME NEW S, NEW s \in Seq(S), s # <<>>
    PROVE  /\ Head(s) = s[1] /\ Head(s) \in S
           /\ Tail(s) \in Seq(S)
           /\ DOMAIN Tail(s) = 1 .. Len(s) - 1
           /\ \A i \in DOMAIN Tail(s) : i + 1 \in DOMAIN s /\ Tail(s)[i] = s[i + 1]
  BY HeadTailProperties

\* What is on a line once a message was added to it.
LEMMA Added ==
    ASSUME NEW S, NEW s \in Seq(S), NEW e \in S
    PROVE  /\ Append(s, e) \in Seq(S)
           /\ DOMAIN Append(s, e) = 1 .. Len(s) + 1
           /\ \A i \in DOMAIN s : Append(s, e)[i] = s[i]
           /\ Append(s, e)[Len(s) + 1] = e
  BY AppendProperties

-----------------------------------------------------------------------------
(* Type correctness.                                                       *)

LEMMA InitTyped == Init => TypeOK
  <1> SUFFICES ASSUME Init PROVE TypeOK
    OBVIOUS
  <1>1. <<>> \in Seq(ToHub) /\ <<>> \in Seq(FromHub)
    BY EmptySeq
  <1> QED
    <2>1. toHub \in Seq(ToHub) /\ fromHub \in Seq(FromHub)
      BY <1>1 DEF Init
    <2>2. /\ pending \in Lens \cup {0} /\ lastBsn \in 0 .. Capacity
          /\ bsqAge \in 0 .. Due /\ used \in 0 .. Capacity /\ losses \in 0 .. MaxLosses
      BY SizeAssumption, FaultAssumption DEF Init, Due
    <2> QED
      BY <2>1, <2>2 DEF Init, TypeOK

LEMMA NextTyped == TypeOK /\ [Next]_vars => TypeOK'
  <1> SUFFICES ASSUME TypeOK, [Next]_vars PROVE TypeOK'
    OBVIOUS
  <1> USE SizeAssumption, FaultAssumption
  <1>1. CASE Request
    BY <1>1 DEF TypeOK, Request, halVars, lineVars, hubVars
  <1>2. ASSUME WriteFrame \/ WriteBsq PROVE TypeOK'
    <2>1. ASSUME NEW m \in ToHub, toHub' = Append(toHub, m) PROVE toHub' \in Seq(ToHub)
      BY <2>1, Added DEF TypeOK
    <2>2. CASE WriteFrame
      <3>1. Frame(pending) \in ToHub
        BY <2>2 DEF WriteFrame, HasRoom, TypeOK, ToHub
      <3>2. toHub' \in Seq(ToHub)
        BY <2>1, <2>2, <3>1 DEF WriteFrame
      <3> QED
        BY <2>2, <3>2 DEF TypeOK, WriteFrame, Forget, Due, hubVars
    <2>3. CASE WriteBsq
      <3>1. BSQ \in ToHub
        BY DEF ToHub
      <3>2. toHub' \in Seq(ToHub)
        BY <2>1, <2>3, <3>1 DEF WriteBsq
      <3> QED
        BY <2>3, <3>2 DEF TypeOK, WriteBsq, Asked, Due, hubVars
    <2> QED
      BY <1>2, <2>2, <2>3
  <1>3. CASE WriteFrameFails \/ WriteBsqFails
    BY <1>3 DEF TypeOK, WriteFrameFails, WriteBsqFails, Forget, Asked, Due,
                lineVars, hubVars
  <1>4. CASE Read
    <2>1. fromHub' \in Seq(FromHub) /\ Head(fromHub) \in FromHub
      BY <1>4, TakenOff DEF Read, TypeOK
    <2>2. lastBsn' \in 0 .. Capacity
      BY <1>4, <2>1 DEF Read, TypeOK, FromHub, BSN, Shtp
    <2> QED
      BY <1>4, <2>1, <2>2 DEF Read, TypeOK, hubVars
  <1>5. ASSUME HubAnswers \/ HubNotifies \/ HubSends PROVE TypeOK'
    <2>1. BSN(Capacity - used) \in FromHub /\ Shtp \in FromHub
      BY DEF TypeOK, FromHub
    <2>2. fromHub' \in Seq(FromHub)
      <3>1. PICK e \in FromHub : fromHub' = Append(fromHub, e)
        BY <1>5, <2>1 DEF HubAnswers, HubNotifies, HubSends, Notify
      <3> QED
        BY <3>1, Added DEF TypeOK
    <2>3. toHub' \in Seq(ToHub)
      <3>1. toHub \in Seq(ToHub)
        BY DEF TypeOK
      <3>2. (toHub # <<>> /\ toHub' = Tail(toHub)) \/ toHub' = toHub
        BY <1>5 DEF HubAnswers, HubNotifies, HubSends
      <3> QED
        BY <3>1, <3>2, TakenOff
    <2> QED
      BY <1>5, <2>2, <2>3 DEF TypeOK, HubAnswers, HubNotifies, HubSends, halVars, hubVars
  <1>6. CASE HubTakes
    <2>1. toHub' \in Seq(ToHub) /\ Head(toHub) \in ToHub
      BY <1>6, TakenOff DEF HubTakes, TypeOK
    <2>2. Head(toHub).len \in Nat
      BY <2>1 DEF ToHub, BSQ, Frame
    <2> QED
      BY <1>6, <2>1, <2>2 DEF HubTakes, TypeOK, halVars
  <1>7. CASE HubConsumes
    BY <1>7 DEF HubConsumes, TypeOK, halVars, lineVars
  <1>8. CASE Lose
    <2>1. toHub' \in Seq(ToHub) /\ fromHub' \in Seq(FromHub)
      <3>1. CASE toHub # <<>> /\ toHub' = Tail(toHub) /\ UNCHANGED fromHub
        BY <3>1, TakenOff DEF TypeOK
      <3>2. CASE fromHub # <<>> /\ fromHub' = Tail(fromHub) /\ UNCHANGED toHub
        BY <3>2, TakenOff DEF TypeOK
      <3> QED
        BY <1>8, <3>1, <3>2 DEF Lose
    <2> QED
      BY <1>8, <2>1 DEF Lose, TypeOK, halVars, hubVars
  <1>9. CASE Tick
    BY <1>9 DEF Tick, TypeOK, Due, lineVars, hubVars
  <1>10. CASE UNCHANGED vars
    BY <1>10 DEF vars, TypeOK, halVars, lineVars, hubVars
  <1> QED
    BY <1>1, <1>2, <1>3, <1>4, <1>5, <1>6, <1>7, <1>8, <1>9, <1>10 DEF Next, Write

\* Every variable keeps its type: the announced room and the hub's level stay
\* within its buffer, and the age of a query within its bound.
THEOREM TypeCorrect == Spec => []TypeOK
  BY InitTyped, NextTyped, PTL DEF Spec

-----------------------------------------------------------------------------
(* The flow.                                                               *)

LEMMA InitFlow == Init => Flow
  BY SizeAssumption DEF Init, Flow, Shape, FrameFits, Grant, AnswerGood, Answers,
                        Waits, QueryUnderWay, NoOverflow, Frame, BSQ

\* A query is under way if and only if one of these holds.
LEMMA QueryShape ==
    ASSUME Shape
    PROVE  QueryUnderWay <=> \/ Answers # {}
                             \/ toHub = <<BSQ>>
                             \/ \E len \in Lens : toHub = <<Frame(len), BSQ>>
  <1>1. CASE toHub = <<>>
    BY <1>1 DEF QueryUnderWay, Answers, Frame, BSQ
  <1>2. CASE toHub = <<BSQ>>
    BY <1>2 DEF QueryUnderWay, Answers, Frame, BSQ
  <1>3. ASSUME NEW len \in Lens, toHub = <<Frame(len)>>
        PROVE QueryUnderWay <=> Answers # {}
    BY <1>3 DEF QueryUnderWay, Answers, Frame, BSQ
  <1>4. ASSUME NEW len \in Lens, toHub = <<Frame(len), BSQ>>
        PROVE QueryUnderWay
    <2>1. 2 \in DOMAIN toHub /\ toHub[2].kind = "BSQ"
      BY <1>4 DEF BSQ
    <2> QED
      BY <2>1 DEF QueryUnderWay
  <1>5. ASSUME NEW len \in Lens, toHub = <<Frame(len)>>
        PROVE toHub # <<BSQ>> /\ \A l \in Lens : toHub # <<Frame(l), BSQ>>
    BY <1>5 DEF Frame, BSQ
  <1> QED
    BY <1>1, <1>2, <1>3, <1>4, <1>5 DEF Shape

\* The line to the hub when one more message is added.
LEMMA AppendSteps ==
    /\ Append(<<>>, BSQ) = <<BSQ>>
    /\ \A len \in Lens : Append(<<>>, Frame(len)) = <<Frame(len)>>
    /\ \A len \in Lens : Append(<<Frame(len)>>, BSQ) = <<Frame(len), BSQ>>
  <1>1. ASSUME NEW d PROVE Append(<<>>, d) = <<d>>
    OBVIOUS
  <1>2. ASSUME NEW d, NEW e PROVE Append(<<d>>, e) = <<d, e>>
    <2>1. <<d>> \in Seq({d, e}) /\ <<d, e>> \in Seq({d, e})
      OBVIOUS
    <2>2. /\ Append(<<d>>, e) \in Seq({d, e})
          /\ Len(Append(<<d>>, e)) = 2
          /\ Append(<<d>>, e)[1] = d /\ Append(<<d>>, e)[2] = e
      BY <2>1, AppendProperties
    <2>3. \A i \in 1 .. 2 : Append(<<d>>, e)[i] = <<d, e>>[i]
      BY <2>2
    <2> QED
      BY <2>1, <2>2, <2>3, SeqEqual
  <1> QED
    BY <1>1, <1>2

\* The line to the hub, and when its first message is taken.
LEMMA ShapeSteps ==
    /\ Tail(<<BSQ>>) = <<>> /\ Head(<<BSQ>>) = BSQ
    /\ \A len \in Lens : /\ Tail(<<Frame(len)>>) = <<>>
                         /\ Head(<<Frame(len)>>) = Frame(len)
                         /\ Tail(<<Frame(len), BSQ>>) = <<BSQ>>
                         /\ Head(<<Frame(len), BSQ>>) = Frame(len)
    /\ \A len \in Lens : /\ Frame(len).kind = "frame" /\ Frame(len).len = len
                         /\ <<Frame(len)>> # <<>> /\ <<Frame(len), BSQ>> # <<>>
                         /\ <<Frame(len)>> # <<BSQ>> /\ <<Frame(len), BSQ>> # <<BSQ>>
                         /\ \A l \in Lens : <<Frame(len)>> # <<Frame(l), BSQ>>
    /\ \A len, l \in Lens : <<Frame(len)>> = <<Frame(l)>> => len = l
    /\ \A len, l \in Lens : <<Frame(len), BSQ>> = <<Frame(l), BSQ>> => len = l
    /\ <<BSQ>> # <<>> /\ BSQ.kind = "BSQ"
  <1>2. /\ Tail(<<BSQ>>) = <<>> /\ Head(<<BSQ>>) = BSQ
        /\ \A len \in Lens : /\ Tail(<<Frame(len)>>) = <<>>
                             /\ Head(<<Frame(len)>>) = Frame(len)
                             /\ Tail(<<Frame(len), BSQ>>) = <<BSQ>>
                             /\ Head(<<Frame(len), BSQ>>) = Frame(len)
    OBVIOUS
  <1>3. \A len \in Lens : /\ Frame(len).kind = "frame" /\ Frame(len).len = len
                          /\ <<Frame(len)>> # <<>> /\ <<Frame(len), BSQ>> # <<>>
                          /\ <<Frame(len)>> # <<BSQ>> /\ <<Frame(len), BSQ>> # <<BSQ>>
                          /\ \A l \in Lens : <<Frame(len)>> # <<Frame(l), BSQ>>
    BY DEF Frame, BSQ
  <1>4. \A len, l \in Lens : Frame(len) = Frame(l) => len = l
    BY DEF Frame
  <1>5. /\ \A len, l \in Lens : <<Frame(len)>> = <<Frame(l)>> => len = l
        /\ \A len, l \in Lens : <<Frame(len), BSQ>> = <<Frame(l), BSQ>> => len = l
    BY <1>4
  <1>6. <<BSQ>> # <<>> /\ BSQ.kind = "BSQ"
    BY DEF BSQ
  <1> QED
    BY <1>2, <1>3, <1>5, <1>6

LEMMA NextFlow ==
    ASSUME TypeOK, Prompt, Flow, [Next]_vars
    PROVE  Flow'
  <1> USE SizeAssumption
  <1> DEFINE Asking == \/ toHub = <<BSQ>>
                       \/ \E len \in Lens : toHub = <<Frame(len), BSQ>>
  <1>a. Shape
    BY DEF Flow
  <1>b. QueryUnderWay <=> Answers # {} \/ Asking
    BY <1>a, QueryShape
  <1>c. /\ Lens \subseteq Nat \ {0} /\ lastBsn \in Nat /\ used \in Nat /\ pending \in Nat
        /\ BsqDelay \in Nat /\ Due # 0
    BY DEF TypeOK, Due
  <1>d. ASSUME UNCHANGED lineVars PROVE Shape' /\ Answers' = Answers /\ QueryUnderWay' = QueryUnderWay
    BY <1>a, <1>d DEF lineVars, Shape, Answers, QueryUnderWay
  <1>1. CASE Request
    <2>1. ~QueryUnderWay
      BY <1>1 DEF Request, Flow, Waits
    <2> QED
      BY <1>1, <1>d, <2>1 DEF Request, Flow, FrameFits, Grant, AnswerGood, Waits, NoOverflow,
                              halVars, lineVars, hubVars
  <1>2. CASE WriteFrame
    <2>1. ~QueryUnderWay /\ lastBsn # 0 /\ lastBsn >= pending /\ pending \in Lens
      BY <1>2, <1>c DEF WriteFrame, HasRoom, Flow, Waits, TypeOK
    <2>2. toHub = <<>> /\ Answers = {}
      BY <1>a, <1>b, <2>1 DEF Shape, Flow, FrameFits
    <2>3. toHub' = <<Frame(pending)>>
      BY <1>2, <2>1, <2>2, AppendSteps DEF WriteFrame
    <2>4. Answers' = {}
      BY <1>2, <2>2 DEF WriteFrame, Answers
    <2>5. Shape' /\ FrameFits'
      BY <1>2, <1>c, <2>1, <2>3, ShapeSteps DEF WriteFrame, Forget, hubVars, Shape, FrameFits, Flow, Grant
    <2>6. ~QueryUnderWay'
      BY <2>3, <2>4, <2>1 DEF QueryUnderWay, Answers, Frame
    <2>7. Grant' /\ NoOverflow'
      BY <1>2, <1>c DEF WriteFrame, Forget, hubVars, Flow, Grant, NoOverflow, TypeOK
    <2> QED
      BY <2>4, <2>5, <2>6, <2>7 DEF Flow, AnswerGood, Waits
  <1>3. CASE WriteFrameFails
    <2>1. ~QueryUnderWay
      BY <1>3, <1>c DEF WriteFrameFails, HasRoom, Flow, Waits
    <2>2. Grant' /\ FrameFits'
      BY <1>3, <1>c DEF WriteFrameFails, Forget, lineVars, hubVars, Flow, Grant, FrameFits, TypeOK
    <2> QED
      BY <1>3, <1>d, <2>1, <2>2 DEF WriteFrameFails, Flow, AnswerGood, Waits, NoOverflow,
                              lineVars, hubVars
  <1>4. CASE WriteBsq
    <2>1. ~QueryUnderWay /\ pending # 0 /\ lastBsn < pending
      BY <1>4, <1>c DEF WriteBsq, MayAsk, Flow, Waits
    <2>2. bsqAge' = 0
      BY <1>4 DEF WriteBsq, Asked, Prompt
    <2>3. /\ Answers = {}
          /\ \/ toHub = <<>>
             \/ \E len \in Lens : toHub = <<Frame(len)>>
      BY <1>a, <1>b, <2>1 DEF Shape
    <2>4. \/ toHub' = <<BSQ>>
          \/ \E len \in Lens : toHub = <<Frame(len)>> /\ toHub' = <<Frame(len), BSQ>>
      <3>1. toHub' = Append(toHub, BSQ)
        BY <1>4 DEF WriteBsq
      <3>2. CASE toHub = <<>>
        BY <3>1, <3>2, AppendSteps
      <3>3. ASSUME NEW len \in Lens, toHub = <<Frame(len)>>
            PROVE  toHub' = <<Frame(len), BSQ>>
        BY <3>1, <3>3, AppendSteps
      <3> QED
        BY <2>3, <3>2, <3>3
    <2>5. Answers' = {}
      BY <1>4, <2>3 DEF WriteBsq, Answers
    <2>6. Shape' /\ FrameFits'
      BY <1>4, <2>4, ShapeSteps DEF WriteBsq, hubVars, Shape, Flow, FrameFits
    <2> QED
      BY <1>4, <2>1, <2>2, <2>5, <2>6
         DEF WriteBsq, hubVars, Flow, Grant, AnswerGood, Waits, NoOverflow
  <1>5. CASE WriteBsqFails
    <2>1. ~QueryUnderWay
      BY <1>5, <1>c DEF WriteBsqFails, MayAsk, Flow, Waits
    <2>2. UNCHANGED <<lastBsn, lineVars, toHub, fromHub, used, overflowed>>
      BY <1>5 DEF WriteBsqFails, lineVars, hubVars
    <2>3. Shape' /\ Answers' = Answers /\ ~QueryUnderWay'
      BY <1>d, <2>1, <2>2
    <2>4. Grant' /\ FrameFits' /\ NoOverflow'
      BY <2>2 DEF Flow, Grant, FrameFits, NoOverflow
    <2>5. AnswerGood'
      BY <2>2, <2>3 DEF Flow, AnswerGood
    <2> QED
      BY <2>3, <2>4, <2>5 DEF Flow, Waits
  <1>6. CASE Read
    <2>1. /\ Head(fromHub) = fromHub[1] /\ 1 \in DOMAIN fromHub
          /\ \A i \in DOMAIN fromHub' : i + 1 \in DOMAIN fromHub /\ fromHub'[i] = fromHub[i + 1]
          /\ DOMAIN fromHub' \subseteq Nat \ {0}
      BY <1>6, TakenOff DEF Read, TypeOK
    <2>2. UNCHANGED <<toHub, used, overflowed, pending, bsqAge>>
      BY <1>6 DEF Read, hubVars
    <2>3. Shape' /\ NoOverflow'
      BY <1>a, <2>2 DEF Shape, Flow, NoOverflow
    <2>4. CASE fromHub[1].kind = "BSN"
      <3>1. 1 \in Answers
        BY <2>1, <2>4 DEF Answers
      <3>2. toHub = <<>> /\ used + fromHub[1].room <= Capacity /\ \A j \in Answers : j = 1
        BY <3>1 DEF Flow, AnswerGood
      <3>3. Answers' = {}
        BY <2>1, <3>2 DEF Answers
      <3>4. lastBsn' = fromHub[1].room
        BY <1>6, <2>1, <2>4 DEF Read
      <3>5. ~QueryUnderWay'
        BY <2>2, <3>2, <3>3 DEF QueryUnderWay, Answers
      <3>6. Grant' /\ FrameFits'
        BY <2>2, <3>2, <3>4, ShapeSteps DEF Grant, FrameFits
      <3> QED
        BY <2>3, <3>3, <3>5, <3>6 DEF Flow, AnswerGood, Waits
    <2>5. CASE fromHub[1].kind # "BSN"
      <3>1. lastBsn' = lastBsn
        BY <1>6, <2>1, <2>5 DEF Read
      <3>2. \A i \in Answers' : i + 1 \in Answers /\ fromHub'[i] = fromHub[i + 1] /\ i \in Nat
        BY <2>1 DEF Answers
      <3>3. AnswerGood'
        BY <2>2, <3>2 DEF Flow, AnswerGood
      <3>4. QueryUnderWay' => QueryUnderWay
        BY <2>2, <3>2 DEF QueryUnderWay, Answers
      <3> QED
        BY <2>2, <2>3, <3>1, <3>3, <3>4 DEF Flow, FrameFits, Grant, Waits
    <2> QED
      BY <2>4, <2>5
  <1>7. CASE HubAnswers
    <2>1. toHub = <<BSQ>>
      BY <1>7, <1>a, ShapeSteps DEF HubAnswers, Shape
    <2>2. Answers = {} /\ QueryUnderWay
      BY <1>b, <2>1, ShapeSteps DEF Flow, AnswerGood
    <2>3. toHub' = <<>>
      BY <1>7, <2>1, ShapeSteps DEF HubAnswers
    <2>4. /\ DOMAIN fromHub' = 1 .. Len(fromHub) + 1
          /\ \A i \in DOMAIN fromHub : fromHub'[i] = fromHub[i]
          /\ fromHub'[Len(fromHub) + 1] = BSN(Capacity - used)
          /\ DOMAIN fromHub = 1 .. Len(fromHub) /\ Len(fromHub) \in Nat
      <3>1. BSN(Capacity - used) \in FromHub
        BY DEF TypeOK, FromHub
      <3> QED
        BY <1>7, <3>1, Added DEF HubAnswers, Notify, TypeOK
    <2>5. Answers' = {Len(fromHub) + 1}
      BY <2>2, <2>4 DEF Answers, BSN
    <2>6. UNCHANGED <<used, overflowed, pending, lastBsn, bsqAge>>
      BY <1>7 DEF HubAnswers, hubVars, halVars
    <2>7. Shape' /\ FrameFits'
      BY <2>3, ShapeSteps DEF Shape, FrameFits
    <2>8. AnswerGood'
      BY <1>c, <2>3, <2>4, <2>5, <2>6 DEF AnswerGood, BSN
    <2> QED
      BY <2>2, <2>6, <2>7, <2>8 DEF Flow, Grant, Waits, NoOverflow
  <1>8. CASE HubTakes
    <2>1. PICK len \in Lens : \/ toHub = <<Frame(len)>> /\ toHub' = <<>>
                              \/ toHub = <<Frame(len), BSQ>> /\ toHub' = <<BSQ>>
      BY <1>8, <1>a, ShapeSteps DEF HubTakes, Shape
    <2>2. Head(toHub).len = len /\ toHub # <<>> /\ used + len <= Capacity /\ lastBsn = 0
      BY <2>1, ShapeSteps DEF Flow, FrameFits
    <2>3. used' = used + len /\ overflowed' = overflowed
      BY <1>8, <2>2 DEF HubTakes, TypeOK
    <2>4. UNCHANGED <<pending, lastBsn, bsqAge, fromHub>>
      BY <1>8 DEF HubTakes, halVars
    <2>5. Answers = {} /\ Answers' = {}
      BY <2>2, <2>4 DEF Flow, AnswerGood, Answers
    <2>6. Shape' /\ FrameFits'
      BY <2>1, ShapeSteps DEF Shape, FrameFits
    <2>7. QueryUnderWay' => QueryUnderWay
      BY <1>b, <2>1, <2>5 DEF QueryUnderWay, Answers
    <2> QED
      BY <1>c, <2>2, <2>3, <2>4, <2>5, <2>6, <2>7 DEF Flow, Grant, AnswerGood, Waits, NoOverflow
  <1>9. CASE HubConsumes
    <2>1. used' = used - 1 /\ UNCHANGED <<halVars, lineVars, pending, overflowed>>
      BY <1>9 DEF HubConsumes
    <2>2. Grant'
      BY <1>c, <2>1 DEF Flow, Grant, halVars
    <2>3. FrameFits'
      BY <1>c, <2>1 DEF Flow, FrameFits, halVars, lineVars
    <2>4. AnswerGood'
      <3>1. \A i \in Answers : fromHub[i].room \in Nat
        BY DEF Answers, TypeOK, FromHub, BSN, Shtp
      <3> QED
        BY <1>c, <1>d, <2>1, <3>1 DEF Flow, AnswerGood, lineVars
    <2> QED
      BY <1>d, <2>1, <2>2, <2>3, <2>4 DEF Flow, Waits, NoOverflow, halVars
  <1>10. CASE HubNotifies
    BY <1>10 DEF HubNotifies, Prompt
  <1>11. CASE HubSends
    <2>1. /\ DOMAIN fromHub' = 1 .. Len(fromHub) + 1
          /\ \A i \in DOMAIN fromHub : fromHub'[i] = fromHub[i]
          /\ fromHub'[Len(fromHub) + 1] = Shtp
          /\ DOMAIN fromHub = 1 .. Len(fromHub) /\ Len(fromHub) \in Nat
      <3>1. Shtp \in FromHub
        BY DEF FromHub
      <3> QED
        BY <1>11, <3>1, Added DEF HubSends, TypeOK
    <2>2. Answers' = Answers /\ \A i \in Answers : fromHub'[i] = fromHub[i]
      BY <2>1 DEF Answers, Shtp
    <2>3. UNCHANGED <<toHub, used, overflowed, pending, lastBsn, bsqAge>>
      BY <1>11 DEF HubSends, hubVars, halVars
    <2>4. QueryUnderWay' => QueryUnderWay
      BY <2>2, <2>3 DEF QueryUnderWay, Answers
    <2>5. AnswerGood'
      BY <2>2, <2>3 DEF Flow, AnswerGood
    <2> QED
      BY <1>a, <2>3, <2>4, <2>5 DEF Flow, Shape, FrameFits, Grant, Waits, NoOverflow
  <1>12. CASE Lose
    <2>1. UNCHANGED <<used, overflowed, pending, lastBsn, bsqAge>>
      BY <1>12 DEF Lose, hubVars, halVars
    <2>2. CASE toHub # <<>> /\ toHub' = Tail(toHub) /\ UNCHANGED fromHub
      <3>1. toHub' \in {<<>>, <<BSQ>>} /\ (toHub' = <<BSQ>> => Asking)
        BY <2>2, <1>a, ShapeSteps DEF Shape
      <3>2. Answers = {} /\ Answers' = {}
        BY <2>2 DEF Flow, AnswerGood, Answers
      <3>3. Shape' /\ FrameFits'
        BY <3>1, ShapeSteps DEF Shape, FrameFits
      <3>4. QueryUnderWay' => QueryUnderWay
        BY <1>b, <3>1, <3>2 DEF QueryUnderWay, Answers
      <3> QED
        BY <2>1, <3>2, <3>3, <3>4 DEF Flow, Grant, AnswerGood, Waits, NoOverflow
    <2>3. CASE fromHub # <<>> /\ fromHub' = Tail(fromHub) /\ UNCHANGED toHub
      <3>1. /\ \A i \in DOMAIN fromHub' : i + 1 \in DOMAIN fromHub /\ fromHub'[i] = fromHub[i + 1]
            /\ DOMAIN fromHub' \subseteq Nat
        BY <2>3, TakenOff DEF TypeOK
      <3>2. \A i \in Answers' : i + 1 \in Answers /\ fromHub'[i] = fromHub[i + 1] /\ i \in Nat
        BY <3>1 DEF Answers
      <3>3. AnswerGood'
        <4>1. UNCHANGED <<toHub, used>>
          BY <2>1, <2>3
        <4> QED
          BY <3>2, <4>1 DEF Flow, AnswerGood
      <3>4. QueryUnderWay' => QueryUnderWay
        BY <2>3, <3>2 DEF QueryUnderWay, Answers
      <3> QED
        BY <1>a, <2>1, <2>3, <3>3, <3>4 DEF Flow, Shape, FrameFits, Grant, Waits, NoOverflow
    <2> QED
      BY <1>12, <2>2, <2>3 DEF Lose
  <1>13. CASE Tick
    <2>1. ~QueryUnderWay
      BY <1>13 DEF Tick, Prompt
    <2> QED
      BY <1>13, <1>d, <2>1 DEF Tick, Flow, FrameFits, Grant, AnswerGood, Waits, NoOverflow,
                               lineVars, hubVars
  <1>14. CASE UNCHANGED vars
    BY <1>14, <1>d DEF vars, Flow, FrameFits, Grant, AnswerGood, Waits, NoOverflow,
                       halVars, lineVars, hubVars
  <1> QED
    BY <1>1, <1>2, <1>3, <1>4, <1>5, <1>6, <1>7, <1>8, <1>9, <1>10, <1>11, <1>12, <1>13, <1>14
       DEF Next, Write

-----------------------------------------------------------------------------
(* Results.                                                                *)

\* The inductive invariant.
THEOREM InvariantHolds == Spec => []Inv
  <1>1. Init => Inv
    BY InitTyped, InitFlow DEF Inv
  <1>2. Inv /\ [Next]_vars => Inv'
    <2> SUFFICES ASSUME Inv, [Next]_vars PROVE Inv'
      OBVIOUS
    <2>1. faults' = faults
      BY DEF Next, Write, vars, Request, WriteFrame, WriteFrameFails, WriteBsq, WriteBsqFails,
             Read, HubAnswers, HubTakes, HubConsumes, HubNotifies, HubSends, Lose, Tick
    <2>2. Prompt' => Prompt
      BY <2>1 DEF Prompt
    <2> QED
      BY <2>2, NextTyped, NextFlow DEF Inv
  <1> QED
    BY <1>1, <1>2, PTL DEF Spec

\* With a prompt hub, no transfer is written that the hub has no room for.
THEOREM NeverOverflows == Spec => []PromptNoOverflow
  <1>1. Inv => PromptNoOverflow
    BY DEF Inv, Flow, PromptNoOverflow
  <1> QED
    BY <1>1, InvariantHolds, PTL

\* With a prompt hub, nothing is written between a query and its answer.
THEOREM NothingAfterAQuery == Spec => []QueryIsLast
  <1>1. Inv => QueryIsLast
    <2> SUFFICES ASSUME TypeOK, Prompt, Shape, AnswerGood PROVE QueryIsLast
      BY DEF Inv, Flow, QueryIsLast
    <2>1. ASSUME NEW i \in DOMAIN toHub, toHub[i].kind = "BSQ" PROVE i = Len(toHub)
      <3>1. CASE toHub = <<BSQ>>
        BY <2>1, <3>1
      <3>2. ASSUME NEW len \in Lens, toHub = <<Frame(len)>> PROVE FALSE
        BY <2>1, <3>2 DEF Frame
      <3>3. ASSUME NEW len \in Lens, toHub = <<Frame(len), BSQ>> PROVE i = 2 /\ Len(toHub) = 2
        BY <2>1, <3>3 DEF Frame
      <3>4. toHub # <<>>
        BY <2>1
      <3> QED
        BY <3>1, <3>2, <3>3, <3>4 DEF Shape
    <2>2. DOMAIN toHub # {} => toHub # <<>>
      OBVIOUS
    <2> QED
      BY <2>1, <2>2 DEF QueryIsLast, AnswerGood, Answers
  <1> QED
    BY <1>1, InvariantHolds, PTL

\* With a prompt hub, the room a transfer is written on is really there.
THEOREM RoomIsAlwaysKnown == Spec => []RoomIsKnown
  <1>1. PromptNoOverflow /\ QueryIsLast => RoomIsKnown
    BY DEF RoomIsKnown
  <1> QED
    BY <1>1, NeverOverflows, NothingAfterAQuery, PTL
=============================================================================
