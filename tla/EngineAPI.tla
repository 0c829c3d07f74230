------------------------------ MODULE EngineAPI ------------------------------
(***************************************************************************)
(* The Engine API pipeline: the RPC handlers of the consensus layer (CL)   *)
(* (ethdb/privateapi/ethbackend.go), the request list, the staged-sync     *)
(* loop that answers on PayloadStatusCh (turbo/stages/stageloop.go,        *)
(* eth/stagedsync/sync.go, eth/stagedsync/stage_headers.go) and the        *)
(* proof-of-stake header downloader (turbo/stages/headerdownload).         *)
(*                                                                         *)
(* The chain has passed the terminal total difficulty.  Blocks form a      *)
(* fixed tree; a block stands for its hash, header and body.  Stages       *)
(* between Headers and Finish (bodies, senders, execution, hashing, trie)  *)
(* are one stage, Execution.                                               *)
(***************************************************************************)
EXTENDS RequestList, Sequences

CONSTANTS
  Blocks, Genesis, Parent,  \* the block tree
  Height, Chain,            \* block numbers, and each block with its ancestors
  Invalid,                  \* blocks whose execution or verification fails
  None,                     \* no block, no caller, no reply
  ShortReorg,               \* ShortPoSReorgThresholdBlocks
  NearHead,                 \* distance below which a new payload waits for its parents
  KnownHeadsOnly,           \* whether the CL only chooses heads the node already has
  FaultKinds,               \* environment faults that may happen
  MaxFaults,                \* bound: number of such faults
  MayStop                   \* whether the node may be told to stop

ASSUME BlockTree ==
  /\ Genesis \in Blocks
  /\ Parent \in [Blocks \ {Genesis} -> Blocks]
  /\ Height \in [Blocks -> Nat]
  /\ Chain \in [Blocks -> SUBSET Blocks]
  /\ Height[Genesis] = 0 /\ Chain[Genesis] = {Genesis}
  /\ \A b \in Blocks \ {Genesis} : /\ Height[b] = Height[Parent[b]] + 1
                                   /\ Chain[b] = {b} \cup Chain[Parent[b]]
  /\ \A b \in Blocks : \A n \in 0..Height[b] : \E a \in Chain[b] : Height[a] = n

ASSUME EngineAPIAssumption ==
  /\ Genesis \notin Invalid
  /\ None \notin Blocks \cup Callers
  /\ \A m \in Payloads : m.block \in Blocks \ {Genesis}
  /\ \A m \in ForkChoices : m.block \in Blocks /\ m.safe \in Blocks \cup {None}
  /\ ShortReorg \in Nat /\ NearHead \in Nat /\ MaxFaults \in Nat
  /\ KnownHeadsOnly \in BOOLEAN /\ MayStop \in BOOLEAN

VARIABLES
  \* EthBackendServer: the RPC handlers
  pc, call, quick,          \* per caller: control, message, quick status
  lock,                     \* holder of s.lock
  request,                  \* id of the request a caller waits for
  ch,                       \* PayloadStatusCh, buffered with capacity 1
  \* StageLoop, Sync and the Headers stage
  lpc, out, cur,            \* control, reply being sent, request being handled
  err,
  initialCycle, firstCycle, \* of StageLoop; the argument that Sync.Run passes to the stages
  currentStage, unwindPoint, badBlock, badBlockUnwind,
  db, tx,                   \* committed and working view of the chain
  pendingStatus, pendingHash, unsettled,
  extending, sideForks,     \* ForkValidator: extendingForkHeadHash and sideForksBlock
  \* HeaderDownload: the PoS downloader
  posSync, posStatus, posAnchor, collector, downloadId, downloadTip,
  badPoS,                   \* badPoSHeaders
  shutdown,                 \* "no", "cancelled", "signalled" or "closed" (ShutdownCh)
  faults

backendVars == <<pc, call, quick, lock, request>>
syncVars == <<currentStage, unwindPoint, badBlock, badBlockUnwind>>
pendingVars == <<pendingStatus, pendingHash, unsettled>>
downloadVars == <<posSync, posStatus, posAnchor, collector, downloadId, downloadTip>>
cycleVars == <<initialCycle, firstCycle>>
loopVars == <<lpc, out, cur, err, cycleVars, db, tx, extending, sideForks>>
vars == <<rlVars, backendVars, ch, loopVars, syncVars, pendingVars, downloadVars,
          badPoS, shutdown, faults>>

\* Sync.stages: the indices of the stage list
Snapshots == 0
Headers == 1
Execution == 2
Finish == 3
Stages == 4

\* PayloadStatus; `for` is the request it answers
Reply(status, id) == [status |-> status, for |-> id]

Init ==
  /\ RLInit
  /\ pc = [c \in Callers |-> "idle"]
  /\ call = [c \in Callers |-> None]
  /\ quick = [c \in Callers |-> None]
  /\ request = [c \in Callers |-> 0]
  /\ lock = None
  /\ ch = <<>>
  /\ lpc = "top" /\ out = None /\ cur = None
  /\ err = FALSE /\ initialCycle = TRUE /\ firstCycle = TRUE
  /\ currentStage = Snapshots /\ unwindPoint = None /\ badBlock = None /\ badBlockUnwind = FALSE
  /\ tx = [known |-> {Genesis}, canonical |-> {Genesis}, headers |-> 0, headHeader |-> Genesis,
           executed |-> Genesis, finish |-> 0, headBlock |-> Genesis,
           fcHead |-> None, fcSafe |-> None]
  /\ db = tx
  /\ pendingStatus = None /\ pendingHash = None /\ unsettled = None
  /\ extending = None /\ sideForks = {}
  /\ posSync = FALSE /\ posStatus = "Idle" /\ posAnchor = None /\ collector = None
  /\ downloadId = 0 /\ downloadTip = None
  /\ badPoS = {}
  /\ shutdown = "no"
  /\ faults = 0

Fault(kind) == kind \in FaultKinds /\ faults < MaxFaults /\ faults' = faults + 1

CanonicalAt(view, n) == CHOOSE b \in view.canonical : Height[b] = n
-----------------------------------------------------------------------------
(* EthBackendServer: EngineNewPayload and EngineForkChoiceUpdated *)

KnownBad(m) == m.block \in badPoS \/ (m \in Payloads /\ Parent[m.block] \in badPoS)

\* The header whose absence makes the handler start or join a download.
Needed(m) == IF m \in Payloads THEN Parent[m.block] ELSE m.block

\* The answer that needs no stage loop, None when there is none.  The read of
\* the database and the reads of HeaderDownload are taken at one instant.
QuickStatus(m) ==
  CASE m \in ForkChoices /\ m.block = db.fcHead /\ m.safe = db.fcSafe -> "VALID"
    [] ~posSync -> "SYNCING"
    [] KnownBad(m) -> "INVALID"
    [] m \in Payloads /\ m.block \in db.canonical -> "VALID"
    [] Needed(m) \notin db.known /\ posStatus # "Idle" -> "SYNCING"
    [] m \in ForkChoices /\ m.block \in db.canonical /\ m.block # db.headBlock -> "VALID"
    [] OTHER -> None

\* callers that will add a request
Submitting(c) == pc[c] \in {"busy", "channel", "lock"} /\ quick[c] = None

\* A handler starts: getQuickPayloadStatusIfPossible up to stageLoopIsBusy.
\* An INVALID block is reported as bad once more.  A new payload with a quick status
\* returns at once; a fork choice goes on to take the lock.
Call(c, m) ==
  /\ pc[c] = "idle"
  /\ KnownHeadsOnly /\ m \in ForkChoices => m.block \in db.known
  /\ LET status == QuickStatus(m)
     IN  /\ badPoS' = IF status = "INVALID" THEN badPoS \cup {m.block} ELSE badPoS
         /\ IF status # None /\ m \in Payloads
            THEN UNCHANGED <<pc, call, quick>>
            ELSE /\ status = None =>
                      requestId + Cardinality({d \in Callers : Submitting(d)}) < MaxRequests
                 /\ pc' = [pc EXCEPT ![c] = IF status = None THEN "busy" ELSE "lock"]
                 /\ call' = [call EXCEPT ![c] = m]
                 /\ quick' = [quick EXCEPT ![c] = status]
  /\ UNCHANGED <<rlVars, lock, request, ch, loopVars, syncVars, pendingVars, downloadVars, shutdown, faults>>

\* the handler returns its answer
Return(c) ==
  /\ pc' = [pc EXCEPT ![c] = "idle"]
  /\ call' = [call EXCEPT ![c] = None]
  /\ quick' = [quick EXCEPT ![c] = None]
  /\ request' = [request EXCEPT ![c] = 0]

\* stageLoopIsBusy: the loop waits, or the caller registers a channel for it
AskWaiting(c) ==
  /\ pc[c] = "busy"
  /\ \/ SeesWaiting(c) /\ pc' = [pc EXCEPT ![c] = "lock"]
     \/ RegisterWaiter(c) /\ pc' = [pc EXCEPT ![c] = "channel"]
  /\ UNCHANGED <<call, quick, lock, request, ch, loopVars, syncVars, pendingVars,
                 downloadVars, badPoS, shutdown, faults>>

LoopBecameWaiting(c) ==
  /\ pc[c] = "channel"
  /\ ReceiveWaiting(c)
  /\ pc' = [pc EXCEPT ![c] = "lock"]
  /\ UNCHANGED <<call, quick, lock, request, ch, loopVars, syncVars, pendingVars,
                 downloadVars, badPoS, shutdown, faults>>

\* the context of one second expires first: the stage loop is busy
BusyTimeout(c) ==
  /\ pc[c] = "channel"
  /\ AbandonWait(c)
  /\ IF call[c] \in Payloads
     THEN Return(c)
     ELSE /\ quick' = [quick EXCEPT ![c] = "SYNCING"]
          /\ pc' = [pc EXCEPT ![c] = "lock"]
          /\ UNCHANGED <<call, request>>
  /\ UNCHANGED <<lock, ch, loopVars, syncVars, pendingVars, downloadVars, badPoS, shutdown, faults>>

\* mutant: the handler writes the request without the list's mutex and signal
SubmitUnlocked(c) ==
  /\ pc[c] = "lock" /\ lock = None /\ quick[c] = None
  /\ requestId < MaxRequests
  /\ requestId' = requestId + 1
  /\ requests' = Put(requests, requestId + 1, call[c])
  /\ UNCHANGED <<interrupt, waiting, waiters, signalled, loop, onlyNew>>
  /\ lock' = c
  /\ request' = [request EXCEPT ![c] = requestId + 1]
  /\ pc' = [pc EXCEPT ![c] = "await"]
  /\ UNCHANGED <<call, quick, ch, loopVars, syncVars, pendingVars, downloadVars, badPoS, shutdown, faults>>

\* mutant: the handler does not wait for s.lock
SubmitTogether(c) ==
  /\ pc[c] = "lock" /\ quick[c] = None
  /\ requestId < MaxRequests
  /\ IF call[c] \in Payloads THEN AddPayloadRequest(call[c]) ELSE AddForkChoiceRequest(call[c])
  /\ lock' = c
  /\ request' = [request EXCEPT ![c] = requestId + 1]
  /\ pc' = [pc EXCEPT ![c] = "await"]
  /\ UNCHANGED <<call, quick, ch, loopVars, syncVars, pendingVars, downloadVars, badPoS, shutdown, faults>>

\* s.lock is taken and the request is added to the list
Submit(c) ==
  /\ pc[c] = "lock" /\ lock = None /\ quick[c] = None
  /\ requestId < MaxRequests
  /\ IF call[c] \in Payloads THEN AddPayloadRequest(call[c]) ELSE AddForkChoiceRequest(call[c])
  /\ lock' = c
  /\ request' = [request EXCEPT ![c] = requestId + 1]
  /\ pc' = [pc EXCEPT ![c] = "await"]
  /\ UNCHANGED <<call, quick, ch, loopVars, syncVars, pendingVars, downloadVars, badPoS, shutdown, faults>>

\* a fork choice with a quick status takes and releases s.lock
AnswerQuickForkChoice(c) ==
  /\ pc[c] = "lock" /\ lock = None /\ quick[c] # None
  /\ Return(c)
  /\ UNCHANGED <<rlVars, lock, ch, loopVars, syncVars, pendingVars, downloadVars, badPoS, shutdown, faults>>

\* <-PayloadStatusCh, then the deferred unlock
Receive(c) ==
  /\ pc[c] = "await" /\ ch # <<>>
  /\ ch' = Tail(ch)
  /\ lock' = None
  /\ Return(c)
  /\ UNCHANGED <<rlVars, loopVars, syncVars, pendingVars, downloadVars, badPoS, shutdown, faults>>
-----------------------------------------------------------------------------
(* StageLoop, StageLoopStep and Sync.Run *)

UseExternalTx == ~initialCycle

\* What a stage writes: in the cycle's own transaction, or in a transaction of
\* the stage, committed when it ends (the first cycle).
Write(view) == tx' = view /\ db' = IF UseExternalTx THEN db ELSE view

NextStage == currentStage' = currentStage + 1 /\ lpc' = "run"

\* The stage returns an error: Sync.Run returns it and keeps currentStage and
\* unwindPoint; the deferred Rollback drops what was not committed.
Fail == lpc' = "send" /\ err' = TRUE /\ tx' = db /\ UNCHANGED db

\* The select on ShutdownCh and the start of StageLoopStep, whose first database
\* access fails once the context is cancelled.
LoopTop ==
  /\ lpc = "top"
  /\ \/ /\ shutdown = "closed"
        /\ lpc' = "stopped"
        /\ UNCHANGED err
     \/ /\ shutdown \in {"cancelled", "signalled"}
        /\ lpc' = "send"
        /\ err' = TRUE
     \/ /\ shutdown = "no"
        /\ lpc' = "run"
        /\ err' = FALSE
  /\ firstCycle' = initialCycle
  /\ UNCHANGED <<rlVars, backendVars, ch, out, cur, initialCycle, db, tx, extending, sideForks, syncVars,
                 pendingVars, downloadVars, badPoS, shutdown, faults>>

\* The chain at or below height n of block b.
AncestorAt(b, n) == CHOOSE a \in Chain[b] : Height[a] = n

\* mutant: the execution stage is not unwound
UnwoundHeadersOnly(view, n, bad) ==
  IF view.headers <= n THEN view
  ELSE [view EXCEPT !.canonical = {b \in @ : Height[b] <= n}]

\* unwindStage of every stage; one whose progress is not above the unwind point
\* is left alone.  Headers only deletes canonical markings, unless a bad block
\* caused the unwind.
Unwound(view, n, bad) ==
  LET marks == {b \in view.canonical : Height[b] <= n}
      v == [view EXCEPT
              !.finish = IF @ > n THEN n ELSE @,
              !.executed = IF Height[@] > n THEN AncestorAt(@, n) ELSE @]
  IN  IF view.headers <= n THEN v
      ELSE IF bad = None THEN [v EXCEPT !.canonical = marks]
      ELSE [v EXCEPT !.canonical = marks, !.headers = n,
                     !.headHeader = CHOOSE b \in marks : Height[b] = n]

\* One turn of the loop of Sync.Run up to the choice of the stage.
RunLoop ==
  /\ lpc = "run"
  /\ \/ /\ currentStage >= Stages /\ unwindPoint = None
        /\ currentStage' = 0
        /\ lpc' = "commit"
        /\ UNCHANGED <<firstCycle, unwindPoint, badBlock, badBlockUnwind, db, tx, err, faults>>
     \/ /\ currentStage < Stages /\ unwindPoint = None
        /\ badBlockUnwind' = FALSE
        /\ lpc' = "stage"
        /\ UNCHANGED <<firstCycle, currentStage, unwindPoint, badBlock, db, tx, err, faults>>
     \/ /\ unwindPoint # None
        /\ Write(Unwound(tx, unwindPoint, badBlock))
        /\ badBlockUnwind' = (badBlock # None)
        /\ unwindPoint' = None /\ badBlock' = None
        /\ currentStage' = 0 /\ firstCycle' = FALSE
        /\ lpc' = "stage"
        /\ UNCHANGED <<err, faults>>
     \/ /\ unwindPoint # None /\ UseExternalTx
        /\ Fault("unwind")
        /\ Fail
        /\ UNCHANGED <<firstCycle, syncVars>>
  /\ UNCHANGED <<rlVars, backendVars, ch, out, cur, initialCycle, extending, sideForks, pendingVars,
                 downloadVars, badPoS, shutdown>>

SnapshotsStage ==
  /\ lpc = "stage" /\ currentStage = Snapshots
  /\ \/ NextStage /\ UNCHANGED <<db, tx, err, faults>>
     \/ ~badBlockUnwind /\ Fault("stage") /\ Fail /\ UNCHANGED currentStage
  /\ UNCHANGED <<rlVars, backendVars, ch, out, cur, cycleVars, extending, sideForks, unwindPoint, badBlock,
                 badBlockUnwind, pendingVars, downloadVars, badPoS, shutdown>>


\* the last block executed when `bad` fails
ExecutedBefore(bad) == Parent[bad]

\* The heights up to which the bodies arrive: BodiesForward gives up on missing ones
\* after five turns without progress, except in a first cycle or right after genesis.
BodyProgress ==
  {tx.headers} \cup {n \in Height[tx.executed]..tx.headers : ~firstCycle /\ Height[tx.executed] > 0}

\* Executes the canonical chain as far as there are bodies.  A block that fails is reported
\* bad, and the stage asks for an unwind to its parent.
ExecutionStage ==
  /\ lpc = "stage" /\ currentStage = Execution
  /\ \E n \in BodyProgress :
       LET todo == {b \in tx.canonical : Height[tx.executed] < Height[b] /\ Height[b] <= n}
           wrong == todo \cap Invalid
           first == CHOOSE b \in wrong : \A w \in wrong : Height[b] <= Height[w]
       IN  \/ /\ wrong = {}
              /\ Write([tx EXCEPT !.executed = IF todo = {} THEN @ ELSE CanonicalAt(tx, n)])
              /\ UNCHANGED <<unwindPoint, badBlock, badPoS>>
           \/ /\ wrong # {}
              /\ Write([tx EXCEPT !.executed = ExecutedBefore(first)])
              /\ badPoS' = badPoS \cup {first}
              /\ unwindPoint' = Height[first] - 1
              /\ badBlock' = first
  /\ NextStage
  /\ UNCHANGED <<rlVars, backendVars, ch, out, cur, err, cycleVars, extending, sideForks, badBlockUnwind,
                 pendingVars, downloadVars, shutdown, faults>>

ExecutionStageFails ==
  /\ lpc = "stage" /\ currentStage = Execution
  /\ Fault("stage")
  /\ Fail
  /\ UNCHANGED <<rlVars, backendVars, ch, out, cur, cycleVars, extending, sideForks, syncVars,
                 pendingVars, downloadVars, badPoS, shutdown>>

\* FinishForward
FinishStage ==
  /\ lpc = "stage" /\ currentStage = Finish
  /\ IF Height[tx.executed] <= tx.finish
     THEN UNCHANGED <<db, tx, extending, sideForks>>
     ELSE /\ Write([tx EXCEPT !.headBlock = tx.headHeader, !.finish = Height[tx.executed]])
          /\ extending' = None /\ UNCHANGED sideForks
  /\ NextStage
  /\ UNCHANGED <<rlVars, backendVars, ch, out, cur, err, cycleVars, unwindPoint, badBlock,
                 badBlockUnwind, pendingVars, downloadVars, badPoS, shutdown, faults>>

\* mutant: the cycle ends without tx.Commit
CommitCycleForgotten ==
  /\ lpc = "commit"
  /\ lpc' = "send" /\ err' = (shutdown \in {"cancelled", "signalled"})
  /\ UNCHANGED <<db, tx, faults>>
  /\ UNCHANGED <<rlVars, backendVars, ch, out, cur, cycleVars, extending, sideForks, syncVars,
                 pendingVars, downloadVars, badPoS, shutdown>>

\* The commit that ends a cycle run in one transaction, then notifications and prune, which
\* fail once the context is cancelled.
CommitCycle ==
  /\ lpc = "commit"
  /\ \/ /\ db' = tx
        /\ lpc' = "send" /\ err' = (shutdown \in {"cancelled", "signalled"})
        /\ UNCHANGED <<tx, faults>>
     \/ /\ UseExternalTx /\ Fault("commit")
        /\ Fail
  /\ UNCHANGED <<rlVars, backendVars, ch, out, cur, cycleVars, extending, sideForks, syncVars,
                 pendingVars, downloadVars, badPoS, shutdown>>

\* mutant: the pending reply is not cleared once it is sent
SendPayloadStatusAgain ==
  /\ lpc = "send"
  /\ \/ /\ pendingStatus = None /\ pendingHash = None
        /\ UNCHANGED ch
     \/ /\ pendingStatus # None \/ pendingHash # None
        /\ ch = <<>>
        /\ ch' = <<IF pendingStatus # None THEN pendingStatus ELSE Reply("VALID", pendingHash.for)>>
  /\ initialCycle' = (initialCycle /\ err)
  /\ lpc' = IF err /\ shutdown \in {"cancelled", "signalled"} THEN "stopped" ELSE "top"
  /\ UNCHANGED <<rlVars, backendVars, out, cur, err, firstCycle, db, tx, extending, sideForks, syncVars, pendingVars,
                 downloadVars, badPoS, shutdown, faults>>

\* SendPayloadStatus, then the end of the iteration of StageLoop.  A cancelled
\* context ends the loop.
SendPayloadStatus ==
  /\ lpc = "send"
  /\ \/ /\ pendingStatus = None /\ pendingHash = None
        /\ UNCHANGED ch
     \/ /\ pendingStatus # None
        /\ ch = <<>>
        /\ ch' = <<IF err THEN Reply("CRITICAL", pendingStatus.for) ELSE pendingStatus>>
     \/ /\ pendingStatus = None /\ pendingHash # None
        /\ ch = <<>>
        /\ ch' = <<IF err THEN Reply("CRITICAL", pendingHash.for)
                   ELSE Reply(IF db.headBlock = pendingHash.block THEN "VALID" ELSE "INVALID",
                              pendingHash.for)>>
  /\ pendingStatus' = None /\ pendingHash' = None
  /\ initialCycle' = (initialCycle /\ err)
  /\ lpc' = IF err /\ shutdown \in {"cancelled", "signalled"} THEN "stopped" ELSE "top"
  /\ UNCHANGED <<rlVars, backendVars, out, cur, err, firstCycle, db, tx, extending, sideForks, syncVars, unsettled,
                 downloadVars, badPoS, shutdown, faults>>
-----------------------------------------------------------------------------
(* The Headers stage: SpawnStageHeaders and HeadersPOS *)

InHeaders == lpc = "stage" /\ currentStage = Headers

\* fixCanonicalChain: marks b and its ancestors, up to one that is marked already
WithCanonical(view, b) ==
  [view EXCEPT !.canonical = {a \in @ : \A x \in Chain[b] : Height[a] = Height[x] => a = x}
                             \cup Chain[b],
               !.headHeader = b, !.headers = Height[b]]

\* writeForkChoiceHashes
SafeIsCanonical(view, m) == m.safe = None \/ m.safe \in view.canonical
WithForkChoice(view, m) ==
  IF SafeIsCanonical(view, m)
  THEN [view EXCEPT !.fcHead = m.block, !.fcSafe = IF m.safe = None THEN @ ELSE m.safe]
  ELSE view

\* finishHandlingForkChoice, after the unwind of a re-org
FinishHandlingForkChoice ==
  /\ InHeaders /\ ~badBlockUnwind /\ unsettled # None
  /\ LET moved == WithCanonical(tx, unsettled.block)
         settled == SafeIsCanonical(moved, unsettled)
     IN  /\ Write(WithForkChoice(moved, unsettled))
         /\ IF ~settled /\ pendingHash # None
            THEN /\ ch = <<>>
                 /\ ch' = <<Reply("CRITICAL", pendingHash.for)>>
            ELSE UNCHANGED ch
         /\ pendingHash' = IF settled THEN pendingHash ELSE None
  /\ unsettled' = None
  /\ NextStage
  /\ UNCHANGED <<rlVars, backendVars, out, cur, err, cycleVars, extending, sideForks, unwindPoint, badBlock,
                 badBlockUnwind, pendingStatus, downloadVars, badPoS, shutdown, faults>>

FinishHandlingForkChoiceFails ==
  /\ InHeaders /\ ~badBlockUnwind /\ unsettled # None
  /\ Fault("stage")
  /\ Fail
  /\ UNCHANGED <<rlVars, backendVars, ch, out, cur, cycleVars, extending, sideForks, syncVars,
                 pendingVars, downloadVars, badPoS, shutdown>>

\* HeadersPOS up to WaitForRequest.  DefaultStages skips the stage in the turn of
\* Sync.Run that unwound a bad block.
StartWait ==
  /\ InHeaders /\ (badBlockUnwind \/ unsettled = None)
  /\ IF badBlockUnwind
     THEN NextStage /\ UNCHANGED <<rlVars, posSync>>
     ELSE /\ EnterWait(posStatus # "Idle")
          /\ posSync' = TRUE
          /\ lpc' = "wait"
          /\ UNCHANGED currentStage
  /\ UNCHANGED <<backendVars, ch, out, cur, err, cycleVars, db, tx, extending, sideForks, unwindPoint,
                 badBlock, badBlockUnwind, pendingVars, posStatus, posAnchor, collector, downloadId,
                 downloadTip, badPoS, shutdown, faults>>

StayWaiting ==
  /\ lpc = "wait"
  /\ Park \/ Wake
  /\ UNCHANGED <<backendVars, ch, loopVars, syncVars, pendingVars, downloadVars, badPoS, shutdown, faults>>

\* a request is taken; the pending replies are cleared before it is handled
TakeRequest ==
  /\ lpc = "wait"
  /\ ReturnRequest
  /\ LET id == firstRequest(requests, onlyNew)
     IN  cur' = [id |-> id, message |-> requests[id].message, new |-> requests[id].status = "New"]
  /\ pendingHash' = None /\ pendingStatus' = None
  /\ lpc' = "handle"
  /\ UNCHANGED <<backendVars, ch, out, err, cycleVars, db, tx, extending, sideForks, syncVars, unsettled,
                 downloadVars, badPoS, shutdown, faults>>

\* handleInterrupt for Stopping
TakeStopping ==
  /\ lpc = "wait" /\ interrupt = "Stopping"
  /\ ReturnInterrupt
  /\ shutdown' = "closed"
  /\ Fail
  /\ UNCHANGED <<backendVars, ch, out, cur, cycleVars, extending, sideForks, syncVars, pendingVars,
                 downloadVars, badPoS, faults>>

(***************************************************************************)
(* saveDownloadedPoSHeaders: headers are loaded in the order of their      *)
(* heights; the first one that fails verification (or validation) and all  *)
(* after it are reported bad, with the downloader's tip, and the request   *)
(* is dropped.  `bad` is None or that first header.                        *)
(***************************************************************************)
Detected == {None} \cup (collector \cap Invalid)
SavedHeaders(bad) == IF bad = None THEN collector ELSE {h \in collector : bad \notin Chain[h]}

RejectedHeaders(bad) == IF bad = None THEN {} ELSE (collector \ SavedHeaders(bad)) \cup {downloadTip}

DownloadSaved(bad) ==
  /\ badPoS' = badPoS \cup RejectedHeaders(bad)
  /\ collector' = None
  /\ posStatus' = "Idle"
  /\ UNCHANGED <<posSync, posAnchor, downloadId, downloadTip>>

\* handleInterrupt for Synced: the call returns without taking a request
TakeSynced ==
  /\ lpc = "wait" /\ interrupt = "Synced"
  /\ ReturnInterrupt
  /\ IF collector = None
     THEN /\ NextStage
          /\ UNCHANGED <<db, tx, downloadVars, badPoS>>
     ELSE /\ lpc' = "save"
          /\ UNCHANGED <<currentStage, db, tx, downloadVars, badPoS>>
  /\ UNCHANGED <<backendVars, ch, out, cur, err, cycleVars, extending, sideForks, unwindPoint, badBlock,
                 badBlockUnwind, pendingVars, shutdown, faults>>

\* Drops the request of a download whose headers are bad; keeps it otherwise.
DropBadRequest(bad) ==
  IF bad = None THEN MutexFree /\ UNCHANGED rlVars ELSE Remove(downloadId)

SaveDownloaded ==
  /\ lpc = "save" /\ collector # None
  /\ \E bad \in Detected :
       /\ Write([tx EXCEPT !.known = @ \cup SavedHeaders(bad)])
       /\ DownloadSaved(bad)
       /\ DropBadRequest(bad)
  /\ NextStage
  /\ UNCHANGED <<backendVars, ch, out, cur, err, cycleVars, extending, sideForks, unwindPoint, badBlock,
                 badBlockUnwind, pendingVars, shutdown, faults>>

\* The collector was closed under the loop's feet by a cancelled context: the
\* nil dereference is recovered by StageLoopStep.
SaveWithoutCollector ==
  /\ lpc = "save" /\ collector = None
  /\ Fail
  /\ UNCHANGED <<rlVars, backendVars, ch, out, cur, cycleVars, extending, sideForks, syncVars, pendingVars,
                 downloadVars, badPoS, shutdown, faults>>
-----------------------------------------------------------------------------
(* HeadersPOS: handling of the request that was taken *)

\* The handler is done with result r: a reply, or None
Respond(r) == out' = r /\ lpc' = "reply"

\* The end of HeadersPOS: the stage's own transaction is committed; a reply that
\* must not overtake the cycle's transaction is left to SendPayloadStatus.
EndHeadersPOS ==
  /\ lpc = "reply"
  /\ db' = IF UseExternalTx THEN db ELSE tx
  /\ \/ /\ out = None \/ ~cur.new
        /\ UNCHANGED <<ch, pendingStatus>>
     \/ /\ out # None /\ cur.new
        /\ out.status \in {"SYNCING", "ACCEPTED"} \/ ~UseExternalTx
        /\ ch = <<>> /\ ch' = <<out>>
        /\ UNCHANGED pendingStatus
     \/ /\ out # None /\ cur.new
        /\ out.status \notin {"SYNCING", "ACCEPTED"} /\ UseExternalTx
        /\ pendingStatus' = out
        /\ UNCHANGED ch
  /\ out' = None /\ cur' = None
  /\ NextStage
  /\ UNCHANGED <<rlVars, backendVars, err, cycleVars, tx, extending, sideForks, unwindPoint, badBlock,
                 badBlockUnwind, pendingHash, unsettled, downloadVars, badPoS, shutdown, faults>>

\* tx.Commit of a first-cycle Headers stage fails: the error is returned, no reply is sent
EndHeadersPOSFails ==
  /\ lpc = "reply" /\ ~UseExternalTx
  /\ Fault("stageCommit")
  /\ out' = None /\ cur' = None
  /\ Fail
  /\ UNCHANGED <<rlVars, backendVars, ch, cycleVars, extending, sideForks, syncVars, pendingVars,
                 downloadVars, badPoS, shutdown>>

\* mutant: the error is returned and the caller is not told
HandlerErrorSilent ==
  /\ lpc = "error"
  /\ cur' = None
  /\ Fail
  /\ UNCHANGED <<rlVars, backendVars, ch, out, cycleVars, extending, sideForks, syncVars, pendingVars,
                 downloadVars, badPoS, shutdown, faults>>

\* A handler returned an error: it is reported to a caller that waits, then returned
HandlerError ==
  /\ lpc = "error"
  /\ IF cur.new
     THEN ch = <<>> /\ ch' = <<Reply("CRITICAL", cur.id)>>
     ELSE UNCHANGED ch
  /\ cur' = None
  /\ Fail
  /\ UNCHANGED <<rlVars, backendVars, out, cycleVars, extending, sideForks, syncVars, pendingVars,
                 downloadVars, badPoS, shutdown, faults>>

\* schedulePoSDownload up to the collector; the status is set in a step of its own
PrepareDownload(hash, tip) ==
  /\ posAnchor' = hash
  /\ collector' = {}
  /\ downloadId' = cur.id
  /\ downloadTip' = tip
  /\ posSync' = TRUE
  /\ UNCHANGED posStatus

NeedDownload(hash, tip) ==
  /\ SetStatus(cur.id, "DataWasMissing")
  /\ IF posStatus # "Idle"
     THEN Respond(Reply("SYNCING", cur.id)) /\ UNCHANGED downloadVars
     ELSE PrepareDownload(hash, tip) /\ lpc' = "schedule" /\ UNCHANGED out

Distance(m, n) == IF m < n THEN n - m ELSE m - n

\* schedulePoSDownload ends.  A new payload close to the head waits for its parents.
StartDownload ==
  /\ lpc = "schedule"
  /\ posStatus' = "Syncing"
  /\ IF cur.message \in Payloads
        /\ Distance(Height[tx.headHeader], Height[cur.message.block]) < NearHead
     THEN lpc' = "poll" /\ UNCHANGED out
     ELSE Respond(Reply("SYNCING", cur.id))
  /\ UNCHANGED <<rlVars, backendVars, ch, cur, err, cycleVars, db, tx, extending, sideForks, syncVars,
                 pendingVars, posSync, posAnchor, collector, downloadId, downloadTip, badPoS,
                 shutdown, faults>>

-----------------------------------------------------------------------------
(* startHandlingForkChoice; each way out ends in the deferred ClearWithUnwind *)

HandlingForkChoice == lpc = "handle" /\ cur.message \in ForkChoices

AlreadyValidated(b) == b \in tx.canonical /\ Height[b] <= Height[tx.executed]

ForkingPoint(b) ==
  IF b = Genesis THEN 0 ELSE Max({Height[a] : a \in Chain[Parent[b]] \cap tx.canonical})

\* the reply to a fork choice whose effect is the view v
ForkChoiceReply(v, m) ==
  IF SafeIsCanonical(v, m) THEN Reply("VALID", cur.id) ELSE Reply("CRITICAL", cur.id)

ForkChoiceNoOp ==
  /\ HandlingForkChoice /\ AlreadyValidated(cur.message.block)
  /\ Remove(cur.id)
  /\ tx' = WithForkChoice(tx, cur.message)
  /\ Respond(ForkChoiceReply(tx, cur.message))
  /\ extending' = None /\ UNCHANGED sideForks
  /\ UNCHANGED <<backendVars, ch, cur, err, cycleVars, db, syncVars, pendingVars, downloadVars,
                 badPoS, shutdown, faults>>

ForkChoiceMissing ==
  /\ HandlingForkChoice /\ cur.message.block \notin tx.known
  /\ NeedDownload(cur.message.block, cur.message.block)
  /\ extending' = None /\ UNCHANGED sideForks
  /\ UNCHANGED <<backendVars, ch, cur, err, cycleVars, db, tx, syncVars, pendingVars,
                 badPoS, shutdown, faults>>

\* the head was validated in memory by the last new payload: its state is flushed
ForkChoiceFlush ==
  /\ HandlingForkChoice
  /\ LET m == cur.message
         moved == [WithCanonical(tx, m.block) EXCEPT !.executed = m.block]
     IN  /\ ~AlreadyValidated(m.block) /\ m.block \in tx.known /\ m.block = extending
         /\ Remove(cur.id)
         /\ tx' = WithForkChoice(moved, m)
         /\ IF SafeIsCanonical(moved, m)
            THEN /\ pendingHash' = [block |-> m.block, for |-> cur.id]
                 /\ Respond(None)
            ELSE /\ Respond(Reply("CRITICAL", cur.id))
                 /\ UNCHANGED pendingHash
  /\ extending' = None /\ UNCHANGED sideForks
  /\ UNCHANGED <<backendVars, ch, cur, err, cycleVars, db, syncVars, pendingStatus, unsettled,
                 downloadVars, badPoS, shutdown, faults>>

\* a re-org: the rest is done by finishHandlingForkChoice after the unwind
ForkChoiceReorg ==
  /\ HandlingForkChoice
  /\ LET m == cur.message
         point == ForkingPoint(m.block)
     IN  /\ ~AlreadyValidated(m.block) /\ m.block \in tx.known /\ m.block # extending
         /\ point < tx.headers
         /\ Remove(cur.id)
         /\ IF cur.new /\ Height[m.block] - point <= ShortReorg
            THEN pendingHash' = [block |-> m.block, for |-> cur.id] /\ UNCHANGED ch
            ELSE /\ UNCHANGED pendingHash
                 /\ IF cur.new
                    THEN ch = <<>> /\ ch' = <<Reply("SYNCING", cur.id)>>
                    ELSE UNCHANGED ch
         /\ unwindPoint' = point
         /\ badBlock' = None
         /\ unsettled' = m
  /\ Respond(None)
  /\ extending' = None /\ UNCHANGED sideForks
  /\ UNCHANGED <<backendVars, cur, err, cycleVars, db, tx, currentStage, badBlockUnwind,
                 pendingStatus, downloadVars, badPoS, shutdown, faults>>

ForkChoiceExtend ==
  /\ HandlingForkChoice
  /\ LET m == cur.message
         moved == WithCanonical(tx, m.block)
     IN  /\ ~AlreadyValidated(m.block) /\ m.block \in tx.known /\ m.block # extending
         /\ ForkingPoint(m.block) >= tx.headers
         /\ Remove(cur.id)
         /\ tx' = WithForkChoice(moved, m)
         /\ Respond(ForkChoiceReply(moved, m))
  /\ extending' = None /\ UNCHANGED sideForks
  /\ UNCHANGED <<backendVars, ch, cur, err, cycleVars, db, syncVars, pendingVars, downloadVars,
                 badPoS, shutdown, faults>>

\* a database error: every such exit follows the removal of the request
ForkChoiceFails ==
  /\ HandlingForkChoice
  /\ Fault("forkchoice")
  /\ Remove(cur.id)
  /\ lpc' = "error"
  /\ extending' = None /\ UNCHANGED sideForks
  /\ UNCHANGED <<backendVars, ch, out, cur, err, cycleVars, db, tx, syncVars, pendingVars,
                 downloadVars, badPoS, shutdown>>
-----------------------------------------------------------------------------
(* handleNewPayload, verifyAndSaveNewPoSHeader and ForkValidator.ValidatePayload *)

HandlingPayload == lpc = "handle" /\ cur.message \in Payloads

PayloadMissingParent ==
  /\ HandlingPayload /\ Parent[cur.message.block] \notin tx.known
  /\ NeedDownload(Parent[cur.message.block], cur.message.block)
  /\ UNCHANGED <<backendVars, ch, cur, err, cycleVars, db, tx, extending, sideForks, syncVars,
                 pendingVars, badPoS, shutdown, faults>>

\* Whether the fork validator can execute b: its ancestors down to the canonical
\* chain were all validated before.
Reachable(b) == Chain[Parent[b]] \ tx.canonical \subseteq sideForks

\* The parents arrived in time: they are validated if their chain is reachable and
\* their bodies are not in the database yet, saved, and the payload is verified.
ParentsInTime ==
  /\ lpc = "poll" /\ posStatus = "Synced" /\ collector # None
  /\ \E bad \in Detected, executed \in BOOLEAN :
       LET lowest == CHOOSE h \in collector : \A g \in collector : Height[h] <= Height[g]
       IN  /\ IF executed THEN Reachable(lowest) /\ SavedHeaders(bad) \cap Invalid = {}
              ELSE Parent[lowest] \notin tx.canonical
           /\ tx' = [tx EXCEPT !.known = @ \cup SavedHeaders(bad)]
           /\ sideForks' = IF executed THEN sideForks \cup SavedHeaders(bad) ELSE sideForks
           /\ extending' = IF executed /\ bad # None THEN None ELSE extending
           /\ DownloadSaved(bad)
           /\ DropBadRequest(bad)
  /\ lpc' = "verify"
  /\ UNCHANGED <<backendVars, ch, out, cur, err, cycleVars, db, syncVars, pendingVars, shutdown, faults>>

\* ten polls have passed
StopPolling ==
  /\ lpc = "poll"
  /\ Respond(Reply("SYNCING", cur.id))
  /\ UNCHANGED <<rlVars, backendVars, ch, cur, err, cycleVars, db, tx, extending, sideForks, syncVars,
                 pendingVars, downloadVars, badPoS, shutdown, faults>>

\* The outcome of verifying b: the status and whether the header is saved, reported
\* bad, or becomes the head of the extending fork.
Verdict(b) ==
  LET extend == (extending = None /\ Parent[b] = tx.headHeader) \/ extending = Parent[b]
  IN  {v \in {"known bad", "bad header", "already valid", "extends", "side", "accepted", "invalid"} :
         CASE v = "known bad" -> b \in badPoS
           [] b \in badPoS -> FALSE
           [] v = "bad header" -> b \in Invalid
           [] v = "already valid" -> b \in sideForks
           [] b \in sideForks -> FALSE
           [] v = "extends" -> extend /\ b \notin Invalid
           [] v = "side" -> ~extend /\ Reachable(b) /\ b \notin Invalid
           [] v = "accepted" -> ~extend /\ Parent[b] \notin tx.canonical
           [] v = "invalid" -> (extend \/ Reachable(b)) /\ b \in Invalid}

VerifyPayload ==
  /\ \/ lpc = "verify"
     \/ HandlingPayload /\ Parent[cur.message.block] \in tx.known
  /\ Remove(cur.id)
  /\ \E v \in Verdict(cur.message.block) :
       LET b == cur.message.block
           rejected == v \in {"known bad", "bad header", "invalid"}
       IN  /\ Respond(Reply(IF rejected THEN "INVALID" ELSE IF v = "accepted" THEN "ACCEPTED" ELSE "VALID",
                            cur.id))
           /\ badPoS' = IF rejected THEN badPoS \cup {b} ELSE badPoS
           /\ tx' = IF rejected THEN tx ELSE [tx EXCEPT !.known = @ \cup {b}]
           /\ sideForks' = IF v \in {"extends", "side"} THEN sideForks \cup {b} ELSE sideForks
           /\ extending' = CASE v = "extends" -> b [] v = "invalid" -> None [] OTHER -> extending
  /\ UNCHANGED <<backendVars, ch, cur, err, cycleVars, db, syncVars, pendingVars, downloadVars,
                 shutdown, faults>>

\* The parent cannot be read: the error is returned with the request still in the list
ReadParentFails ==
  /\ HandlingPayload
  /\ Fault("parentRead")
  /\ lpc' = "error"
  /\ UNCHANGED <<rlVars, backendVars, ch, out, cur, err, cycleVars, db, tx, extending, sideForks,
                 syncVars, pendingVars, downloadVars, badPoS, shutdown>>

-----------------------------------------------------------------------------
(* HeaderDownload: the PoS downloader and the end of the node *)

\* mutant: the last header ends the download and nobody is told
ProcessHeadersPOSSilent ==
  /\ posAnchor # None /\ collector # None
  /\ collector' = collector \cup {posAnchor}
  /\ IF Parent[posAnchor] \in db.known
     THEN posAnchor' = None /\ posStatus' = "Synced"
     ELSE posAnchor' = Parent[posAnchor] /\ UNCHANGED posStatus
  /\ UNCHANGED <<rlVars, backendVars, ch, loopVars, syncVars, pendingVars, posSync, downloadId, downloadTip,
                 badPoS, shutdown, faults>>

\* the header with the hash the anchor asks for arrives from a peer
ProcessHeadersPOS ==
  /\ posAnchor # None /\ collector # None
  /\ collector' = collector \cup {posAnchor}
  /\ IF Parent[posAnchor] \in db.known
     THEN posAnchor' = None /\ posStatus' = "Synced" /\ Interrupt("Synced")
     ELSE posAnchor' = Parent[posAnchor] /\ UNCHANGED <<posStatus, rlVars>>
  /\ UNCHANGED <<backendVars, ch, loopVars, syncVars, pendingVars, posSync, downloadId, downloadTip,
                 badPoS, shutdown, faults>>

\* mutant: the timed-out download keeps its status
PoSTimeoutStillSyncing ==
  /\ shutdown = "no"
  /\ posStatus = "Syncing" /\ posAnchor # None
  /\ Remove(downloadId)
  /\ collector' = None
  /\ UNCHANGED <<backendVars, ch, loopVars, syncVars, pendingVars, posSync, posStatus, posAnchor, downloadId,
                 downloadTip, badPoS, shutdown, faults>>

\* no peer answers: the request is removed, which wakes nobody
PoSTimeout ==
  /\ shutdown = "no"
  /\ posStatus = "Syncing" /\ posAnchor # None
  /\ Remove(downloadId)
  /\ collector' = None /\ posStatus' = "Idle"
  /\ UNCHANGED <<backendVars, ch, loopVars, syncVars, pendingVars, posSync, posAnchor, downloadId,
                 downloadTip, badPoS, shutdown, faults>>

\* the context is cancelled: the downloader cleans up, then interrupts the loop
Cancel ==
  /\ MayStop /\ shutdown = "no"
  /\ shutdown' = "cancelled"
  /\ collector' = None /\ posStatus' = "Idle"
  /\ UNCHANGED <<rlVars, backendVars, ch, loopVars, syncVars, pendingVars, posSync, posAnchor,
                 downloadId, downloadTip, badPoS, faults>>

SignalStopping ==
  /\ shutdown = "cancelled"
  /\ Interrupt("Stopping")
  /\ shutdown' = "signalled"
  /\ UNCHANGED <<backendVars, ch, loopVars, syncVars, pendingVars, downloadVars, badPoS, faults>>

-----------------------------------------------------------------------------
Handlers(c) ==
  \/ AskWaiting(c) \/ LoopBecameWaiting(c) \/ BusyTimeout(c)
  \/ Submit(c) \/ AnswerQuickForkChoice(c) \/ Receive(c)

StageLoop ==
  \/ LoopTop \/ RunLoop \/ SnapshotsStage \/ ExecutionStage \/ FinishStage \/ CommitCycle
  \/ SendPayloadStatus \/ FinishHandlingForkChoice \/ StartWait \/ StayWaiting \/ TakeRequest
  \/ TakeStopping \/ TakeSynced \/ SaveDownloaded \/ SaveWithoutCollector
  \/ EndHeadersPOS \/ HandlerError \/ StartDownload
  \/ ForkChoiceNoOp \/ ForkChoiceMissing \/ ForkChoiceFlush \/ ForkChoiceReorg \/ ForkChoiceExtend
  \/ PayloadMissingParent \/ ParentsInTime \/ StopPolling \/ VerifyPayload

Faults ==
  \/ ExecutionStageFails \/ FinishHandlingForkChoiceFails \/ EndHeadersPOSFails
  \/ ForkChoiceFails \/ ReadParentFails

Downloader == ProcessHeadersPOS \/ PoSTimeout

Next ==
  \/ \E c \in Callers, m \in Messages : Call(c, m)
  \/ \E c \in Callers : Handlers(c)
  \/ StageLoop
  \/ Faults
  \/ Downloader
  \/ Cancel
  \/ SignalStopping

Spec == Init /\ [][Next]_vars

\* The loop and the downloader are goroutines of their own, and a handler that was
\* called runs on; the consensus layer need never call.
Fairness ==
  /\ WF_vars(StageLoop)
  /\ WF_vars(Downloader)
  /\ WF_vars(SignalStopping)
  /\ \A c \in Callers : WF_vars(Handlers(c))

FairSpec == Spec /\ Fairness

-----------------------------------------------------------------------------
View == [known : SUBSET Blocks, canonical : SUBSET Blocks, headers : Nat, headHeader : Blocks,
         executed : Blocks, finish : Nat, headBlock : Blocks,
         fcHead : Blocks \cup {None}, fcSafe : Blocks \cup {None}]
Statuses == {"VALID", "INVALID", "SYNCING", "ACCEPTED", "CRITICAL"}
Replies == [status : Statuses, for : Nat]

\* Every variable has its type (the state of ethbackend.go, sync.go, stage_headers.go).
TypeOK ==
  /\ requestId \in 0..MaxRequests /\ DOMAIN requests \subseteq Ids
  /\ \A i \in DOMAIN requests : requests[i] \in Request
  /\ interrupt \in {"None", "Synced", "Stopping"} /\ waiting \in BOOLEAN /\ onlyNew \in BOOLEAN
  /\ waiters \subseteq Callers /\ signalled \subseteq Callers
  /\ loop \in {"outside", "holding", "parked", "woken"}
  /\ pc \in [Callers -> {"idle", "busy", "channel", "lock", "await"}]
  /\ lock \in Callers \cup {None}
  /\ ch = <<>> \/ (Len(ch) = 1 /\ ch[1] \in Replies)
  /\ lpc \in {"top", "run", "stage", "commit", "send", "wait", "save", "handle", "schedule", "poll",
              "verify", "reply", "error", "stopped"}
  /\ out = None \/ out \in Replies
  /\ pendingStatus = None \/ pendingStatus \in Replies
  /\ currentStage \in 0..Stages
  /\ db \in View /\ tx \in View
  /\ unsettled = None \/ unsettled \in ForkChoices
  /\ extending \in Blocks \cup {None} /\ sideForks \subseteq Blocks /\ badPoS \subseteq Blocks
  /\ posStatus \in {"Idle", "Syncing", "Synced"} /\ posAnchor \in Blocks \cup {None}
  /\ collector = None \/ collector \subseteq Blocks

\* PayloadStatusCh is shared by all callers and carries no request id: whatever lies in
\* it answers the request of the caller that holds s.lock and waits.
ReplyAnswersTheWaiter ==
  ch # <<>> => /\ lock # None
               /\ pc[lock] = "await"
               /\ ch[1].for = request[lock]

\* s.lock lets one request be new at a time, and its caller waits for the answer
\* (BeaconRequestList between AddPayloadRequest and the reply of HeadersPOS).
NewRequestIsAwaited ==
  \A i \in DOMAIN requests : requests[i].status = "New" =>
     /\ lock # None /\ request[lock] = i /\ pc[lock] = "await"
     /\ ch = <<>>

\* A reply deferred to the end of the cycle (SetPendingPayloadStatus, SetPendingPayloadHash)
\* is sent before the loop waits for the next request.
CycleEndsBeforeNextWait ==
  lpc = "wait" => pendingStatus = None /\ pendingHash = None

\* While the loop waits for a request its view is one chain: the canonical markings are
\* the ancestors of the head header, and what was executed lies on it
\* (fixCanonicalChain, HeadersUnwind, finishHandlingForkChoice).
WaitsOnOneChain ==
  lpc = "wait" => /\ tx.canonical = Chain[tx.headHeader]
                  /\ tx.headers = Height[tx.headHeader]
                  /\ tx.executed \in tx.canonical


\* A fork choice is answered VALID only once it is committed: its head is canonical in the
\* database, and the safe block with it (stage_headers.go, end of HeadersPOS).
ValidAfterCommit ==
  [][\A c \in Callers :
       (Receive(c) /\ call[c] \in ForkChoices /\ Head(ch).status = "VALID") =>
          /\ call[c].block \in db.canonical
          /\ call[c].safe \in db.canonical \cup {None}]_vars

\* A head that execution rejected is never answered VALID without asking the stage loop
\* (getQuickPayloadStatusIfPossible compares with hashes that may outlive the rejection).
QuickValidIsValidated ==
  \A m \in ForkChoices : QuickStatus(m) = "VALID" => Chain[m.block] \cap Invalid = {}



\* A download that is over is noticed: if no header is asked for any more while the status
\* still says Syncing (SetPosStatus after ProcessHeadersPOS), the Synced interrupt is still
\* to be handled.
FinishedDownloadIsNoticed ==
  posStatus # "Idle" /\ posAnchor = None /\ lpc # "schedule" =>
     \/ interrupt # "None"
     \/ lpc = "save"
     \/ lpc = "poll"

\* A newer fork choice supersedes the older one: the list never holds two
\* (AddForkChoiceRequest purges, and s.lock admits one new request).
OneForkChoice ==
  \A i, j \in DOMAIN requests :
    requests[i].message \in ForkChoices /\ requests[j].message \in ForkChoices => i = j

\* The pipeline uses the request list only through its methods, with one thread in
\* WaitForRequest: what holds of RequestList on its own holds of it here.
ImplementsRequestList == RLSpec

\* Every handler that waits on PayloadStatusCh gets an answer, unless the node stops.
Answered ==
  \A c \in Callers : pc[c] = "await" ~> (pc[c] = "idle" \/ shutdown # "no")

\* A download ends: its headers are saved or it is given up.
DownloadEnds == posStatus # "Idle" ~> (posStatus = "Idle" \/ shutdown # "no")

\* A cancelled context ends the stage loop, wherever it stands.
StopsWhenCancelled == shutdown # "no" ~> lpc = "stopped"
=============================================================================
