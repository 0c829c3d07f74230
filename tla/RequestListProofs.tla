------------------------- MODULE RequestListProofs -------------------------
(***************************************************************************)
(* For any messages, callers and number of requests, the request list      *)
(* loses no wakeup and no signal.                                          *)
(***************************************************************************)
EXTENDS RequestList, TLAPS

\* The two facts and the type invariant are inductive together: what Park found holds
\* while parked, because only a broadcast, which ends the parking, can change it.
RLInv == RLTypeOK /\ NoLostWakeup /\ NoLostSignal

\* The empty list satisfies the invariant.
LEMMA RLInitInv == RLInit => RLInv
<1> SUFFICES ASSUME RLInit PROVE RLInv
  OBVIOUS
<1>1. DOMAIN requests = {} /\ requests \in [DOMAIN requests -> Request]
  BY DEF RLInit
<1>2. requestId \in 0..MaxRequests
  BY RequestListAssumption DEF RLInit
<1>3. RLTypeOK
  BY <1>1, <1>2 DEF RLInit, RLTypeOK
<1> QED BY <1>3 DEF RLInit, RLInv, NoLostWakeup, NoLostSignal

\* The list after Put holds the new request and the old ones.
LEMMA PutType ==
  ASSUME NEW rs, NEW n \in Nat, NEW m \in Messages,
         DOMAIN rs \subseteq 1..n, rs \in [DOMAIN rs -> Request]
  PROVE  /\ DOMAIN Put(rs, n + 1, m) \subseteq 1..(n + 1)
         /\ Put(rs, n + 1, m) \in [DOMAIN Put(rs, n + 1, m) -> Request]
  BY DEF Put, Request

\* Putting a new request into a part of the list keeps the invariant: it wakes a parked loop.
LEMMA PutInv ==
  ASSUME RLInv, requestId < MaxRequests, NEW rs, NEW m \in Messages,
         DOMAIN rs \subseteq 1..requestId, rs \in [DOMAIN rs -> Request],
         requests' = Put(rs, requestId + 1, m), requestId' = requestId + 1, Broadcast,
         UNCHANGED <<interrupt, waiting, waiters, signalled, onlyNew>>
  PROVE  RLInv'
<1>1. requestId \in Nat /\ requestId + 1 \in 0..MaxRequests
  BY RequestListAssumption DEF RLInv, RLTypeOK
<1>2. RLTypeOK'
  BY <1>1, PutType DEF RLInv, RLTypeOK, Broadcast
<1> QED BY <1>2 DEF RLInv, RLTypeOK, NoLostWakeup, NoLostSignal, Broadcast

\* Adding a payload keeps it.
LEMMA AddPayloadInv ==
  ASSUME RLInv, requestId < MaxRequests, NEW m \in Payloads, AddPayloadRequest(m)
  PROVE  RLInv'
  BY PutInv DEF AddPayloadRequest, Messages, RLInv, RLTypeOK

\* Adding a fork choice keeps it: what the purge leaves is a part of the list.
LEMMA AddForkChoiceInv ==
  ASSUME RLInv, requestId < MaxRequests, NEW m \in ForkChoices, AddForkChoiceRequest(m)
  PROVE  RLInv'
<1> DEFINE kept == Purged(requests)
<1>1. DOMAIN kept \subseteq 1..requestId /\ kept \in [DOMAIN kept -> Request]
  BY DEF RLInv, RLTypeOK, Purged
<1>2. requests' = Put(kept, requestId + 1, m)
  BY DEF AddForkChoiceRequest
<1> HIDE DEF kept
<1> QED BY <1>1, <1>2, PutInv DEF AddForkChoiceRequest, Messages

\* An interrupt, a status change or a removal keeps it.  The removal wakes nobody, and can
\* only take requests away from those the loop may choose from.
LEMMA NotifyInv ==
  ASSUME RLInv, NEW id, NEW kind \in {"Synced", "Stopping"},
         Interrupt(kind) \/ Remove(id) \/ SetStatus(id, "DataWasMissing")
  PROVE  RLInv'
<1>1. CASE Interrupt(kind)
  BY <1>1 DEF Interrupt, Broadcast, RLInv, RLTypeOK, NoLostWakeup, NoLostSignal
<1>2. CASE Remove(id)
  <2>1. RLTypeOK'
    BY <1>2 DEF Remove, RLInv, RLTypeOK
  <2>2. Eligible(requests', onlyNew) \subseteq Eligible(requests, onlyNew)
    BY <1>2 DEF Remove, Eligible
  <2> QED BY <1>2, <2>1, <2>2 DEF Remove, RLInv, NoLostWakeup, NoLostSignal
<1>3. CASE SetStatus(id, "DataWasMissing")
  <2>1. RLTypeOK'
    BY <1>3 DEF SetStatus, Broadcast, RLInv, RLTypeOK, Request
  <2> QED BY <1>3, <2>1 DEF SetStatus, Broadcast, RLInv, RLTypeOK, NoLostWakeup, NoLostSignal
<1> QED BY <1>1, <1>2, <1>3

\* The steps of the loop thread keep it.
LEMMA WaitInv == ASSUME RLInv, WaitForRequest PROVE RLInv'
<1>1. CASE \E new \in BOOLEAN : EnterWait(new)
  BY <1>1 DEF EnterWait, RLInv, RLTypeOK, NoLostWakeup, NoLostSignal
<1>2. CASE ReturnInterrupt
  BY <1>2 DEF ReturnInterrupt, LeaveWait, RLInv, RLTypeOK, NoLostWakeup, NoLostSignal
<1>3. CASE ReturnRequest
  BY <1>3 DEF ReturnRequest, LeaveWait, RLInv, RLTypeOK, NoLostWakeup, NoLostSignal
<1>4. CASE Park
  BY <1>4 DEF Park, RLInv, RLTypeOK, NoLostWakeup, NoLostSignal, Eligible
<1>5. CASE Wake
  BY <1>5 DEF Wake, RLInv, RLTypeOK, NoLostWakeup, NoLostSignal
<1> QED BY <1>1, <1>2, <1>3, <1>4, <1>5 DEF WaitForRequest

\* The steps of a caller of WaitForWaiting keep it.
LEMMA CallerInv ==
  ASSUME RLInv, NEW c \in Callers, RegisterWaiter(c) \/ ReceiveWaiting(c)
  PROVE  RLInv'
  BY DEF RegisterWaiter, ReceiveWaiting, RLInv, RLTypeOK, NoLostWakeup, NoLostSignal, Eligible

\* Every step of the list keeps the invariant.
LEMMA RLNextInv == RLInv /\ [RLNext]_rlVars => RLInv'
<1> SUFFICES ASSUME RLInv, [RLNext]_rlVars PROVE RLInv'
  OBVIOUS
<1>1. CASE UNCHANGED rlVars
  BY <1>1 DEF rlVars, RLInv, RLTypeOK, NoLostWakeup, NoLostSignal, Eligible
<1>2. CASE RLNext
  BY <1>2, AddPayloadInv, AddForkChoiceInv, NotifyInv, WaitInv, CallerInv DEF RLNext
<1> QED BY <1>1, <1>2

\* In every behaviour of the request list, for all constants: the variables are well
\* typed, the loop is not parked while it has something to do, and no caller of
\* WaitForWaiting is left registered while the loop waits.
THEOREM RequestListCorrect == RLSpec => [](RLTypeOK /\ NoLostWakeup /\ NoLostSignal)
<1> QED BY RLInitInv, RLNextInv, PTL DEF RLSpec, RLInv
=============================================================================
