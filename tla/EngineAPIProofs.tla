-------------------------- MODULE EngineAPIProofs --------------------------
(***************************************************************************)
(* The pipeline of EngineAPI uses the request list through its methods     *)
(* only, so that what RequestListProofs proves of the list holds in it.    *)
(***************************************************************************)
EXTENDS EngineAPI, RequestListProofs, WellFoundedInduction

\* A non-empty set of naturals has a least element, which Min chooses.
LEMMA NatMin ==
  ASSUME NEW S \in SUBSET Nat, S # {}
  PROVE  Min(S) \in S
<1>1. IsWellFoundedOn(OpToRel(<, Nat), Nat)
  BY NatLessThanWellFounded
<1>2. PICK x \in S : \A y \in S : ~ (<<y, x>> \in OpToRel(<, Nat))
  BY <1>1, WFMin, Zenon
<1>3. \A y \in S : ~ (<<y, x>> \in {ss \in Nat \X Nat : ss[1] < ss[2]})
  BY <1>2, Zenon DEF OpToRel
<1>4. \A y \in S : x =< y
  <2> TAKE y \in S
  <2>1. ~ (<<y, x>> \in Nat \X Nat /\ y < x)
    BY <1>3
  <2>2. x \in Nat /\ y \in Nat
    OBVIOUS
  <2> QED BY <2>1, <2>2
<1> QED BY <1>4 DEF Min

\* control points of the loop at which it handles a request
Handling == {"handle", "schedule", "poll", "verify", "reply", "error"}

\* What the handlers pass to the list: messages of theirs, and ids that were given out.
ArgumentsOK ==
  /\ DOMAIN pc = Callers /\ DOMAIN call = Callers
  /\ \A c \in Callers : pc[c] \in {"busy", "channel", "lock"} => call[c] \in Messages
  /\ downloadId \in 0..MaxRequests
  /\ lpc \in Handling => cur.id \in 0..MaxRequests

PInv == RLInv /\ ArgumentsOK

USE DEF ArgumentsOK, PInv

\* The id firstRequest returns was given out before.
LEMMA FirstRequestId ==
  ASSUME RLTypeOK, NEW new \in BOOLEAN, Eligible(requests, new) # {}
  PROVE  firstRequest(requests, new) \in DOMAIN requests /\ firstRequest(requests, new) \in 0..MaxRequests
<1>1. Eligible(requests, new) \subseteq DOMAIN requests /\ DOMAIN requests \subseteq 0..MaxRequests
  BY RequestListAssumption DEF Eligible, RLTypeOK
<1>2. Eligible(requests, new) \in SUBSET Nat
  BY <1>1, RequestListAssumption
<1>3. firstRequest(requests, new) \in Eligible(requests, new)
  BY <1>2, NatMin DEF firstRequest
<1> QED BY <1>1, <1>3

\* A step of an RPC handler.
LEMMA CallerSteps ==
  ASSUME PInv, NEW c \in Callers, (\E m \in Messages : Call(c, m)) \/ Handlers(c)
  PROVE  ArgumentsOK' /\ (RLNext \/ UNCHANGED rlVars)
<1>1. CASE \E m \in Messages : Call(c, m)
  BY <1>1 DEF Call, downloadVars, loopVars
<1>2. CASE AskWaiting(c)
  BY <1>2 DEF AskWaiting, SeesWaiting, downloadVars, loopVars, RLNext
<1>3. CASE LoopBecameWaiting(c)
  BY <1>3 DEF LoopBecameWaiting, downloadVars, loopVars, RLNext
<1>4. CASE BusyTimeout(c)
  BY <1>4 DEF BusyTimeout, AbandonWait, Return, downloadVars, loopVars
<1>5. CASE Submit(c)
  BY <1>5 DEF Submit, Messages, downloadVars, loopVars, RLNext
<1>6. CASE AnswerQuickForkChoice(c) \/ Receive(c)
  BY <1>6 DEF AnswerQuickForkChoice, Receive, Return, downloadVars, loopVars
<1> QED BY <1>1, <1>2, <1>3, <1>4, <1>5, <1>6 DEF Handlers

\* The steps of the stage loop that leave the list alone.
LEMMA QuietSteps ==
  ASSUME PInv,
         LoopTop \/ RunLoop \/ SnapshotsStage \/ ExecutionStage \/ FinishStage \/ CommitCycle \/ SendPayloadStatus
         \/ FinishHandlingForkChoice \/ SaveWithoutCollector \/ EndHeadersPOS \/ HandlerError \/ StartDownload \/ StopPolling
         \/ ExecutionStageFails \/ FinishHandlingForkChoiceFails \/ EndHeadersPOSFails \/ ReadParentFails
  PROVE  ArgumentsOK' /\ UNCHANGED rlVars
<1>1. CASE LoopTop
  BY <1>1 DEF LoopTop, Handling, backendVars, downloadVars
<1>2. CASE RunLoop
  BY <1>2 DEF RunLoop, Fail, Handling, backendVars, downloadVars
<1>3. CASE SnapshotsStage
  BY <1>3 DEF SnapshotsStage, NextStage, Fail, Handling, backendVars, downloadVars
<1>4. CASE ExecutionStage
  BY <1>4 DEF ExecutionStage, NextStage, Handling, backendVars, downloadVars
<1>5. CASE FinishStage
  BY <1>5 DEF FinishStage, NextStage, Handling, backendVars, downloadVars
<1>6. CASE CommitCycle
  BY <1>6 DEF CommitCycle, Fail, Handling, backendVars, downloadVars
<1>7. CASE SendPayloadStatus
  BY <1>7 DEF SendPayloadStatus, Handling, backendVars, downloadVars
<1>8. CASE FinishHandlingForkChoice
  BY <1>8 DEF FinishHandlingForkChoice, NextStage, Handling, backendVars, downloadVars
<1>9. CASE SaveWithoutCollector
  BY <1>9 DEF SaveWithoutCollector, Fail, Handling, backendVars, downloadVars
<1>10. CASE EndHeadersPOS
  BY <1>10 DEF EndHeadersPOS, NextStage, Handling, backendVars, downloadVars
<1>11. CASE HandlerError
  BY <1>11 DEF HandlerError, Fail, Handling, backendVars, downloadVars
<1>12. CASE StartDownload
  BY <1>12 DEF StartDownload, Respond, Handling, backendVars, downloadVars
<1>13. CASE StopPolling
  BY <1>13 DEF StopPolling, Respond, Handling, backendVars, downloadVars
<1>14. CASE ExecutionStageFails
  BY <1>14 DEF ExecutionStageFails, Fail, Handling, backendVars, downloadVars
<1>15. CASE FinishHandlingForkChoiceFails
  BY <1>15 DEF FinishHandlingForkChoiceFails, Fail, Handling, backendVars, downloadVars
<1>16. CASE EndHeadersPOSFails
  BY <1>16 DEF EndHeadersPOSFails, Fail, Handling, backendVars, downloadVars
<1>17. CASE ReadParentFails
  BY <1>17 DEF ReadParentFails, HandlingPayload, Handling, backendVars, downloadVars
<1> QED BY <1>1, <1>2, <1>3, <1>4, <1>5, <1>6, <1>7, <1>8, <1>9, <1>10, <1>11, <1>12, <1>13, <1>14, <1>15, <1>16, <1>17

\* The steps of the stage loop in WaitForRequest, and those that follow it.
LEMMA WaitSteps ==
  ASSUME PInv,
         StartWait \/ StayWaiting \/ TakeRequest \/ TakeStopping \/ TakeSynced \/ SaveDownloaded
  PROVE  ArgumentsOK' /\ (RLNext \/ UNCHANGED rlVars)
<1>1. CASE StartWait
  BY <1>1 DEF StartWait, NextStage, Handling, backendVars, downloadVars, RLNext, WaitForRequest
<1>2. CASE StayWaiting
  BY <1>2 DEF StayWaiting, Handling, backendVars, downloadVars, loopVars, RLNext, WaitForRequest
<1>3. CASE TakeRequest
  <2>1. onlyNew \in BOOLEAN /\ Eligible(requests, onlyNew) # {} /\ RLTypeOK
    BY <1>3 DEF TakeRequest, ReturnRequest, RLInv, RLTypeOK
  <2>2. firstRequest(requests, onlyNew) \in 0..MaxRequests
    BY <2>1, FirstRequestId
  <2>3. cur'.id = firstRequest(requests, onlyNew)
    BY <1>3 DEF TakeRequest
  <2> QED BY <1>3, <2>2, <2>3 DEF TakeRequest, backendVars, downloadVars, RLNext, WaitForRequest
<1>4. CASE TakeStopping
  BY <1>4 DEF TakeStopping, Fail, Handling, backendVars, downloadVars, RLNext, WaitForRequest
<1>5. CASE TakeSynced
  BY <1>5 DEF TakeSynced, NextStage, Handling, backendVars, downloadVars, RLNext, WaitForRequest
<1>6. CASE SaveDownloaded
  BY <1>6 DEF SaveDownloaded, NextStage, DownloadSaved, DropBadRequest, Handling, backendVars, RLNext
<1> QED BY <1>1, <1>2, <1>3, <1>4, <1>5, <1>6

\* The steps that handle a request.
LEMMA HandlerSteps ==
  ASSUME PInv,
         ForkChoiceNoOp \/ ForkChoiceMissing \/ ForkChoiceFlush \/ ForkChoiceReorg
         \/ ForkChoiceExtend \/ ForkChoiceFails \/ PayloadMissingParent \/ ParentsInTime \/ VerifyPayload
  PROVE  ArgumentsOK' /\ (RLNext \/ UNCHANGED rlVars)
<1> USE DEF HandlingForkChoice, HandlingPayload, Respond, Handling, backendVars, downloadVars
<1>1. CASE ForkChoiceNoOp
  BY <1>1 DEF ForkChoiceNoOp, RLNext
<1>2. CASE ForkChoiceMissing
  BY <1>2 DEF ForkChoiceMissing, NeedDownload, PrepareDownload, RLNext
<1>3. CASE ForkChoiceFlush
  BY <1>3 DEF ForkChoiceFlush, RLNext
<1>4. CASE ForkChoiceReorg
  BY <1>4 DEF ForkChoiceReorg, RLNext
<1>5. CASE ForkChoiceExtend
  BY <1>5 DEF ForkChoiceExtend, RLNext
<1>6. CASE ForkChoiceFails
  BY <1>6 DEF ForkChoiceFails, RLNext
<1>7. CASE PayloadMissingParent
  BY <1>7 DEF PayloadMissingParent, NeedDownload, PrepareDownload, RLNext
<1>8. CASE ParentsInTime
  BY <1>8 DEF ParentsInTime, DownloadSaved, DropBadRequest, RLNext
<1>9. CASE VerifyPayload
  BY <1>9 DEF VerifyPayload, RLNext
<1> QED BY <1>1, <1>2, <1>3, <1>4, <1>5, <1>6, <1>7, <1>8, <1>9

\* The steps of the downloader and of the end of the node.
LEMMA DownloaderSteps ==
  ASSUME PInv, Downloader \/ Cancel \/ SignalStopping
  PROVE  ArgumentsOK' /\ (RLNext \/ UNCHANGED rlVars)
<1> USE DEF backendVars, downloadVars, loopVars
<1>1. CASE ProcessHeadersPOS
  BY <1>1 DEF ProcessHeadersPOS, RLNext
<1>2. CASE PoSTimeout
  BY <1>2 DEF PoSTimeout, RLNext
<1>3. CASE Cancel
  BY <1>3 DEF Cancel
<1>4. CASE SignalStopping
  BY <1>4 DEF SignalStopping, RLNext
<1> QED BY <1>1, <1>2, <1>3, <1>4 DEF Downloader

\* Every step of the pipeline is a step of the list, or leaves it alone.
LEMMA StepSimulation ==
  ASSUME PInv, [Next]_vars
  PROVE  PInv' /\ [RLNext]_rlVars
<1>1. CASE UNCHANGED vars
  <2>1. UNCHANGED rlVars
    BY <1>1 DEF vars
  <2>2. ArgumentsOK'
    BY <1>1 DEF vars, backendVars, downloadVars, loopVars
  <2> QED BY <2>1, <2>2, RLNextInv
<1>2. CASE Next
  <2>1. ArgumentsOK' /\ [RLNext]_rlVars
    BY <1>2, CallerSteps, QuietSteps, WaitSteps, HandlerSteps, DownloaderSteps
       DEF Next, StageLoop, Faults
  <2> QED BY <2>1, RLNextInv
<1> QED BY <1>1, <1>2

\* For all constants, the Engine API pipeline implements the request list: its RPC
\* handlers, its stage loop and its downloader only take steps RequestList allows.
THEOREM PipelineImplementsRequestList == Spec => ImplementsRequestList
<1>1. Init => RLInit /\ PInv
  <2> SUFFICES ASSUME Init PROVE RLInit /\ PInv
    OBVIOUS
  <2>1. RLInit /\ RLInv
    BY RLInitInv DEF Init
  <2>2. ArgumentsOK
    BY RequestListAssumption DEF Init, Handling
  <2> QED BY <2>1, <2>2
<1>2. PInv /\ [Next]_vars => PInv' /\ [RLNext]_rlVars
  BY StepSimulation
<1> QED BY <1>1, <1>2, PTL DEF Spec, ImplementsRequestList, RLSpec

\* Hence, for all constants, the stage loop is never parked while a request it may take is
\* in the list, and no RPC handler stays registered while the loop waits.
THEOREM PipelineLosesNoWakeup == Spec => [](NoLostWakeup /\ NoLostSignal)
<1>1. ImplementsRequestList => [](NoLostWakeup /\ NoLostSignal)
  BY RequestListCorrect, PTL DEF ImplementsRequestList
<1> QED BY <1>1, PipelineImplementsRequestList, PTL
=============================================================================
