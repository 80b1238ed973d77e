------------------------------ MODULE FtdiFlow ------------------------------
(***************************************************************************)
(* The write flow control of the FTDI HAL (ftdi_hal_write and the part of  *)
(* ftdi_hal_read that it depends on).  A transfer is written only when the *)
(* last buffer status notification (BSN) leaves room for all of it;        *)
(* otherwise a query (BSQ) is sent, at most every INTER_BSQ_DELAY_US, and  *)
(* the caller has to try again.                                            *)
(*                                                                         *)
(* A notification does not say which query, if any, it answers.            *)
(*                                                                         *)
(* The caller is shtp_send, which keeps trying one transfer until the HAL  *)
(* takes it or fails, and reads between two tries.  It and the hub are     *)
(* outside src/.  The times of the HAL are differences of a 32-bit clock;  *)
(* bsqAge is the only one that counts.                                     *)
(***************************************************************************)
EXTENDS Integers, Sequences

CONSTANTS
    Lens,        \* encoded lengths of the transfers
    Capacity,    \* what the hub's buffer holds, in the same units
    BsqDelay,    \* INTER_BSQ_DELAY_US, in ticks
    FaultSets,   \* what may go wrong, a subset of Faults per behaviour
    MaxLosses,   \* bound on the messages lost on the line
    MaxLine      \* bound on the messages the line holds in each direction;
                 \* the last place is left to the answer to a query

(* late: time passes while a query or its answer is under way              *)
(* unasked: the hub notifies without having been asked                     *)
(* wrap: the clock is at a multiple of 2^32 us                             *)
(* ioerror: writing fails         loss: a message is lost                  *)
Faults == {"late", "unasked", "wrap", "ioerror", "loss"}

ASSUME SizeAssumption ==
    /\ Capacity \in Nat \ {0}
    /\ Lens \subseteq 1 .. Capacity
    /\ BsqDelay \in Nat \ {0}
ASSUME FaultAssumption ==
    FaultSets \subseteq SUBSET Faults /\ MaxLosses \in Nat /\ MaxLine \in Nat

VARIABLES
    faults,      \* the faults of this behaviour (never changes)
    pending,     \* length of the transfer shtp_send is trying to write, or 0
    lastBsn,     \* room the last notification announced
    bsqAge,      \* ticks since the last query, up to Due
    toHub,       \* queries and frames on their way to the hub
    fromHub,     \* notifications and frames on their way to the host
    used,        \* what the hub's buffer holds
    overflowed,  \* TRUE once a frame reached the hub that had no room for it
    losses       \* messages lost so far

halVars  == <<lastBsn, bsqAge>>
lineVars == <<toHub, fromHub>>
hubVars  == <<used, overflowed>>
vars     == <<faults, pending, halVars, lineVars, hubVars, losses>>

-----------------------------------------------------------------------------
BSQ        == [kind |-> "BSQ", len |-> 0]
Frame(len) == [kind |-> "frame", len |-> len]
BSN(room)  == [kind |-> "BSN", room |-> room]
Shtp       == [kind |-> "shtp", room |-> 0]

\* Another query may be sent: lastBsqTime_us is 0 or long enough ago.
Due == BsqDelay + 1

\* Opening the HAL forgets all notifications and waits for the hub to boot.
Init ==
    /\ faults \in FaultSets
    /\ pending = 0
    /\ lastBsn = 0
    /\ bsqAge = Due
    /\ toHub = <<>>
    /\ fromHub = <<>>
    /\ used = 0
    /\ overflowed = FALSE
    /\ losses = 0

-----------------------------------------------------------------------------
(* The host.                                                               *)

Request ==
    /\ pending = 0
    /\ pending' \in Lens
    /\ UNCHANGED <<faults, halVars, lineVars, hubVars, losses>>

\* The device is ready for a transfer of this size.
HasRoom == pending # 0 /\ lastBsn >= pending

\* Faulty variant: the notification is kept, and used again.
Forget_Keeps == bsqAge' = Due /\ UNCHANGED lastBsn

\* By sending, the prior notification is invalidated.
Forget == lastBsn' = 0 /\ bsqAge' = Due

\* Faulty variant: any room will do, and it is counted down.
WriteFrame_CountsDown ==
    /\ pending # 0 /\ lastBsn > 0
    /\ Len(toHub) < MaxLine
    /\ lastBsn' = lastBsn - pending
    /\ bsqAge' = Due
    /\ toHub' = Append(toHub, Frame(pending))
    /\ pending' = 0
    /\ UNCHANGED <<faults, fromHub, hubVars, losses>>

WriteFrame ==
    /\ HasRoom
    /\ Len(toHub) < MaxLine
    /\ Forget
    /\ toHub' = Append(toHub, Frame(pending))
    /\ pending' = 0
    /\ UNCHANGED <<faults, fromHub, hubVars, losses>>

\* What reached the line before the error is no frame.
WriteFrameFails ==
    /\ HasRoom
    /\ "ioerror" \in faults
    /\ Forget
    /\ pending' = 0
    /\ UNCHANGED <<faults, lineVars, hubVars, losses>>

\* Faulty variant: too little room is never asked about again.
MayAsk_Blind == pending # 0 /\ lastBsn = 0 /\ bsqAge = Due

MayAsk == pending # 0 /\ lastBsn < pending /\ bsqAge = Due

\* lastBsqTime_us = now, where the time 0 also means "ask at once".
Asked == bsqAge' = 0 \/ ("wrap" \in faults /\ bsqAge' = Due)

WriteBsq ==
    /\ MayAsk
    /\ Len(toHub) < MaxLine
    /\ Asked
    /\ toHub' = Append(toHub, BSQ)
    /\ UNCHANGED <<faults, pending, lastBsn, fromHub, hubVars, losses>>

WriteBsqFails ==
    /\ MayAsk
    /\ "ioerror" \in faults
    /\ Asked
    /\ pending' = 0
    /\ UNCHANGED <<faults, lastBsn, lineVars, hubVars, losses>>

\* A control frame is kept by the HAL, any other one ends the read.
Read ==
    /\ fromHub # <<>>
    /\ fromHub' = Tail(fromHub)
    /\ lastBsn' = IF Head(fromHub).kind = "BSN" THEN Head(fromHub).room ELSE lastBsn
    /\ UNCHANGED <<faults, pending, bsqAge, toHub, hubVars, losses>>

-----------------------------------------------------------------------------
(* The hub, the line and the clock.                                        *)

Notify == fromHub' = Append(fromHub, BSN(Capacity - used))

HubAnswers ==
    /\ toHub # <<>>
    /\ Head(toHub).kind = "BSQ"
    /\ Len(fromHub) < MaxLine
    /\ toHub' = Tail(toHub)
    /\ Notify
    /\ UNCHANGED <<faults, pending, halVars, hubVars, losses>>

HubTakes ==
    /\ toHub # <<>>
    /\ Head(toHub).kind = "frame"
    /\ toHub' = Tail(toHub)
    /\ LET fits == used + Head(toHub).len <= Capacity
       IN  /\ used' = IF fits THEN used + Head(toHub).len ELSE used
           /\ overflowed' = (overflowed \/ ~fits)
    /\ UNCHANGED <<faults, pending, halVars, fromHub, losses>>

HubConsumes ==
    /\ used > 0
    /\ used' = used - 1
    /\ UNCHANGED <<faults, pending, halVars, lineVars, overflowed, losses>>

HubNotifies ==
    /\ "unasked" \in faults
    /\ Len(fromHub) + 1 < MaxLine
    /\ Notify
    /\ UNCHANGED <<faults, pending, halVars, toHub, hubVars, losses>>

HubSends ==
    /\ Len(fromHub) + 1 < MaxLine
    /\ fromHub' = Append(fromHub, Shtp)
    /\ UNCHANGED <<faults, pending, halVars, toHub, hubVars, losses>>

Lose ==
    /\ "loss" \in faults
    /\ losses < MaxLosses
    /\ losses' = losses + 1
    /\ \/ toHub # <<>> /\ toHub' = Tail(toHub) /\ UNCHANGED fromHub
       \/ fromHub # <<>> /\ fromHub' = Tail(fromHub) /\ UNCHANGED toHub
    /\ UNCHANGED <<faults, pending, halVars, hubVars>>

QueryUnderWay ==
    \/ \E i \in DOMAIN toHub : toHub[i].kind = "BSQ"
    \/ \E i \in DOMAIN fromHub : fromHub[i].kind = "BSN"

\* A difference of 32-bit times also wraps: an old query may look recent.
Tick ==
    /\ "late" \in faults \/ ~QueryUnderWay
    /\ \/ bsqAge < Due /\ bsqAge' = bsqAge + 1
       \/ bsqAge = Due /\ "wrap" \in faults /\ pending = 0 /\ bsqAge' = 0
    /\ UNCHANGED <<faults, pending, lastBsn, lineVars, hubVars, losses>>

-----------------------------------------------------------------------------
Write == WriteFrame \/ WriteFrameFails \/ WriteBsq \/ WriteBsqFails

Next == \/ Request \/ Write \/ Read
        \/ HubAnswers \/ HubTakes \/ HubConsumes \/ HubNotifies \/ HubSends
        \/ Lose \/ Tick

Spec == Init /\ [][Next]_vars

(* shtp_send writes and reads until its transfer is written; the hub takes *)
(* what reaches it and makes room; time passes.                            *)
Fairness ==
    /\ WF_vars(Write) /\ WF_vars(Read)
    /\ WF_vars(HubAnswers \/ HubTakes) /\ WF_vars(HubConsumes)
    /\ WF_vars(Tick)

FairSpec == Spec /\ Fairness

-----------------------------------------------------------------------------
(* Properties.                                                             *)

ToHub   == {BSQ} \cup {Frame(len) : len \in Lens}
FromHub == {Shtp} \cup {BSN(room) : room \in 0 .. Capacity}

TypeOK ==
    /\ faults \in FaultSets
    /\ pending \in Lens \cup {0}
    /\ lastBsn \in 0 .. Capacity
    /\ bsqAge \in 0 .. Due
    /\ toHub \in Seq(ToHub)
    /\ fromHub \in Seq(FromHub)
    /\ used \in 0 .. Capacity
    /\ overflowed \in BOOLEAN
    /\ losses \in 0 .. MaxLosses

\* The hub speaks only when asked, and its answer arrives before the HAL would
\* ask again.
Prompt == faults \cap {"late", "unasked", "wrap"} = {}

\* No frame reaches a hub that has no room for it: the notification a transfer
\* is written on is not older than the transfer before it (ftdi_hal_write).
NoOverflow == ~overflowed

PromptNoOverflow == Prompt => NoOverflow

\* While a query is out, or its answer is, nothing else is written: so the
\* answer counts all that was written before it is read.
QueryIsLast ==
    Prompt =>
        /\ \A i \in DOMAIN toHub : toHub[i].kind = "BSQ" =>
              i = Len(toHub) /\ \A j \in DOMAIN fromHub : fromHub[j].kind # "BSN"
        /\ \A i \in DOMAIN fromHub : fromHub[i].kind = "BSN" =>
              /\ toHub = <<>>
              /\ \A j \in DOMAIN fromHub : fromHub[j].kind = "BSN" => i = j

\* Queries, answers and frames never overtake each other, and so the room a frame
\* is written on is really there (ftdi_hal_write, ftdi_hal_read).
RoomIsKnown == PromptNoOverflow /\ QueryIsLast

\* Every transfer is written in the end or fails, although queries and answers
\* may be lost, or come late: a query is repeated (ftdi_hal_write's two tests).
EveryTransferEnds == pending # 0 ~> pending = 0
=============================================================================
