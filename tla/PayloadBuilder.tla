--------------------------- MODULE PayloadBuilder ---------------------------
(***************************************************************************)
(* Payload building behind the Engine API: engine_forkchoiceUpdated with   *)
(* payload attributes starts a builder goroutine and, in this fork, waits  *)
(* on mmChan for it to finish while it holds s.lock; engine_getPayload and *)
(* PendingBlock read its result                                            *)
(* (ethdb/privateapi/ethbackend.go, turbo/builder/block_builder.go).       *)
(*                                                                         *)
(* What the stage loop does with the fork choice is the subject of         *)
(* EngineAPI; here it is the environment: it commits heads at any time and *)
(* answers a fork choice with any status.                                  *)
(***************************************************************************)
EXTENDS Integers, FiniteSets, FiniteSetsExt

CONSTANTS
  Heads,         \* blocks that may become the head
  Time,          \* [Heads -> timestamp]
  Timestamps,    \* timestamps asked for in payload attributes
  ShanghaiTime,  \* first timestamp whose blocks carry withdrawals
  Callers,       \* RPC handlers
  MaxBuilders,   \* builders kept in the map
  MaxPayloads,   \* bound: builds ever started
  NoCaller       \* s.lock is free

ASSUME PayloadBuilderAssumption ==
  /\ Time \in [Heads -> Nat] /\ Timestamps \subseteq Nat /\ ShanghaiTime \in Nat
  /\ MaxBuilders \in Nat \ {0}
  /\ MaxPayloads \in Nat
  /\ NoCaller \notin Callers

VARIABLES
  headBlock,  \* HeadBlockHash in the committed database
  executed,   \* canonical header at the committed progress of Execution
  lock,       \* holder of s.lock
  pc,         \* [Callers -> where the handler stands]
  call,       \* [Callers -> the request being served]
  payloadId,  \* id of the last builder started
  builders,   \* keys of s.builders
  builder     \* [1..payloadId -> BlockBuilder], with its goroutine

db == <<headBlock, executed>>
vars == <<headBlock, executed, lock, pc, call, payloadId, builders, builder>>

Attributes == [timestamp : Timestamps, withdrawals : BOOLEAN]
Calls ==
  [method : {"forkchoiceUpdated"}, head : Heads, attributes : Attributes]
    \cup [method : {"getPayload"}, id : 0..MaxPayloads]
    \cup [method : {"pendingBlock"}]
NoCall == [method |-> "none"]

(* A builder: its parameters, the handler that listens on mmChan, the       *)
(* interrupt flag, the block its read-only transaction sees, the result,    *)
(* and where its goroutine stands.  From "notify" to the end of "broadcast" *)
(* the goroutine holds the builder's own mutex, syncCond.L.                 *)
Builder == [parent : Heads, attributes : Attributes, mmChan : Callers,
            interrupt : BOOLEAN, base : Heads, result : {"none", "block", "error"},
            goroutine : {"starting", "running", "notify", "broadcast", "done"}]

Init ==
  /\ headBlock \in Heads /\ executed = headBlock
  /\ lock = NoCaller
  /\ pc = [c \in Callers |-> "idle"]
  /\ call = [c \in Callers |-> NoCall]
  /\ payloadId = 0
  /\ builders = {}
  /\ builder = [i \in {} |-> 0]

-----------------------------------------------------------------------------
(* Environment: the stage loop and the consensus layer's requests.          *)

\* a cycle commits; Finish writes the head even when the bodies were short of it
Commit(h, e) ==
  /\ headBlock' = h /\ executed' = e
  /\ UNCHANGED <<lock, pc, call, payloadId, builders, builder>>

Request(c, r) ==
  /\ pc[c] = "idle"
  /\ pc' = [pc EXCEPT ![c] = "want"]
  /\ call' = [call EXCEPT ![c] = r]
  /\ UNCHANGED <<db, lock, payloadId, builders, builder>>

-----------------------------------------------------------------------------
(* Handlers.  s.lock is released by a deferred Unlock on every return.      *)

Acquire(c, next) ==
  /\ pc[c] = "want" /\ lock = NoCaller
  /\ lock' = c
  /\ pc' = [pc EXCEPT ![c] = next]
  /\ UNCHANGED call

Return(c) ==
  /\ lock' = NoCaller
  /\ pc' = [pc EXCEPT ![c] = "idle"]
  /\ call' = [call EXCEPT ![c] = NoCall]

\* EngineForkChoiceUpdated takes the lock and has the fork choice answered
LockForkChoice(c) ==
  /\ call[c].method = "forkchoiceUpdated"
  /\ Acquire(c, "answered")
  /\ UNCHANGED <<db, payloadId, builders, builder>>

IsShanghai(t) == t >= ShanghaiTime
checkWithdrawalsPresence(a) == a.withdrawals <=> IsShanghai(a.timestamp)

\* what a request must satisfy for a payload to be built on its head
MayBuild(r) ==
  /\ headBlock = r.head
  /\ Time[r.head] < r.attributes.timestamp
  /\ checkWithdrawalsPresence(r.attributes)

\* the status is not VALID, the head is not canonical, or the attributes are refused
NoBuild(c, valid) ==
  /\ pc[c] = "answered"
  /\ ~valid \/ ~MayBuild(call[c])
  /\ Return(c)
  /\ UNCHANGED <<db, payloadId, builders, builder>>

(* for i := 0; i <= len(s.builders)-MaxBuilders; i++ { delete(s.builders,   *)
(* ids[i]) }: the map shrinks as i grows, so of n builders the first i with *)
(* i > (n - i) - MaxBuilders ends the loop.                                 *)
EvictCount(n) == Min({i \in 0..n : i > (n - i) - MaxBuilders})

\* mutant: the bound of the loop is one short
evictOldBuildersShort(ids) ==
  {i \in ids : Cardinality({j \in ids : j < i}) + 1 >= EvictCount(Cardinality(ids))}

evictOldBuilders(ids) ==
  {i \in ids : Cardinality({j \in ids : j < i}) >= EvictCount(Cardinality(ids))}

NewBlockBuilderMM(r, c) ==
  [parent |-> r.head, attributes |-> r.attributes, mmChan |-> c, interrupt |-> FALSE,
   base |-> r.head, result |-> "none", goroutine |-> "starting"]

\* mutant: the builder is stored before the id is incremented
AddBuilderOldId(c) ==
  /\ builders' = evictOldBuilders(builders) \cup {payloadId}
  /\ payloadId' = payloadId + 1
  /\ builder' = [i \in 1..payloadId + 1 |->
                   IF i \in DOMAIN builder THEN builder[i] ELSE NewBlockBuilderMM(call[c], c)]

\* the new builder takes the next id; older ones are evicted first
AddBuilder(c) ==
  /\ builders' = evictOldBuilders(builders) \cup {payloadId + 1}
  /\ payloadId' = payloadId + 1
  /\ builder' = [i \in 1..payloadId + 1 |->
                   IF i \in DOMAIN builder THEN builder[i] ELSE NewBlockBuilderMM(call[c], c)]

\* mutant: the handler returns the id at once, without waiting on mmChan
StartBuildNoWait(c) ==
  /\ pc[c] = "answered"
  /\ payloadId < MaxPayloads
  /\ MayBuild(call[c])
  /\ AddBuilder(c)
  /\ Return(c)
  /\ UNCHANGED db

\* mutant: a build that is asked for again is made under the id it had
StartBuildSameId(c) ==
  /\ pc[c] = "answered"
  /\ payloadId < MaxPayloads
  /\ MayBuild(call[c])
  /\ IF payloadId \in builders
     THEN builder' = [builder EXCEPT ![payloadId] = NewBlockBuilderMM(call[c], c)]
          /\ UNCHANGED <<payloadId, builders>>
     ELSE AddBuilder(c)
  /\ pc' = [pc EXCEPT ![c] = "building"]
  /\ UNCHANGED <<db, lock, call>>

\* starts the builder and goes to wait on mmChan, still holding the lock
StartBuild(c) ==
  /\ pc[c] = "answered"
  /\ payloadId < MaxPayloads
  /\ MayBuild(call[c])
  /\ AddBuilder(c)
  /\ pc' = [pc EXCEPT ![c] = "building"]
  /\ UNCHANGED <<db, lock, call>>

MutexFree(i) == builder[i].goroutine \notin {"notify", "broadcast"}

GetPayloadUnknown(c) ==
  /\ pc[c] = "want" /\ lock = NoCaller
  /\ call[c].method = "getPayload"
  /\ call[c].id \notin builders
  /\ Return(c)
  /\ UNCHANGED <<db, payloadId, builders, builder>>

\* EngineGetPayload finds the builder; Stop raises the interrupt before it takes the mutex
GetPayload(c) ==
  /\ call[c].method = "getPayload"
  /\ call[c].id \in builders
  /\ Acquire(c, "stop")
  /\ builder' = [builder EXCEPT ![call[c].id].interrupt = TRUE]
  /\ UNCHANGED <<db, payloadId, builders>>

\* Stop waits on syncCond until there is a result or an error
StopReturns(c) ==
  /\ pc[c] = "stop"
  /\ MutexFree(call[c].id)
  /\ builder[call[c].id].result # "none"
  /\ Return(c)
  /\ UNCHANGED <<db, payloadId, builders, builder>>

\* PendingBlock takes the lock and asks the newest builder, if there is one, for its Block
PendingBlock(c) ==
  /\ call[c].method = "pendingBlock"
  /\ Acquire(c, "block")
  /\ UNCHANGED <<db, payloadId, builders, builder>>

BlockReturns(c) ==
  /\ pc[c] = "block"
  /\ payloadId \in builders => MutexFree(payloadId)
  /\ Return(c)
  /\ UNCHANGED <<db, payloadId, builders, builder>>

-----------------------------------------------------------------------------
(* The goroutine of builder i.                                              *)

At(i, where) == builder[i].goroutine = where

\* MiningStep opens its own read-only transaction: it sees what is committed by now
BeginBuild(i) ==
  /\ At(i, "starting")
  /\ builder' = [builder EXCEPT ![i].goroutine = "running", ![i].base = executed]
  /\ UNCHANGED <<db, lock, pc, call, payloadId, builders>>

\* mutant: the parent that the transaction sees is not compared with the one asked for
FinishBuildUnchecked(i, failed) ==
  /\ At(i, "running")
  /\ builder' = [builder EXCEPT ![i].goroutine = "notify",
                                ![i].result = IF failed THEN "error" ELSE "block"]
  /\ UNCHANGED <<db, lock, pc, call, payloadId, builders>>

(* The mining stages end: SpawnMiningCreateBlockStage refuses a parent other *)
(* than the one asked for, and any stage may fail.  The goroutine takes the  *)
(* mutex and stores the result.                                              *)
FinishBuild(i, failed) ==
  /\ At(i, "running")
  /\ builder[i].base # builder[i].parent => failed
  /\ builder' = [builder EXCEPT ![i].goroutine = "notify",
                                ![i].result = IF failed THEN "error" ELSE "block"]
  /\ UNCHANGED <<db, lock, pc, call, payloadId, builders>>

\* mmChan <- 1 meets <-mmChan, and the handler returns s.payloadId
Notify(i) ==
  /\ At(i, "notify")
  /\ pc[builder[i].mmChan] = "building"
  /\ builder' = [builder EXCEPT ![i].goroutine = "broadcast"]
  /\ Return(builder[i].mmChan)
  /\ UNCHANGED <<db, payloadId, builders>>

\* mutant: the builder's mutex is not released
EndBuildStillLocked(i) == At(i, "broadcast") /\ UNCHANGED vars

EndBuild(i) ==
  /\ At(i, "broadcast")
  /\ builder' = [builder EXCEPT ![i].goroutine = "done"]
  /\ UNCHANGED <<db, lock, pc, call, payloadId, builders>>

-----------------------------------------------------------------------------
Lock(c) ==
  \/ LockForkChoice(c) \/ GetPayloadUnknown(c) \/ GetPayload(c) \/ PendingBlock(c)

Handler(c) ==
  \/ \E valid \in BOOLEAN : NoBuild(c, valid)
  \/ StartBuild(c) \/ StopReturns(c) \/ BlockReturns(c)

Goroutine(i) ==
  \/ BeginBuild(i) \/ Notify(i) \/ EndBuild(i)
  \/ \E failed \in BOOLEAN : FinishBuild(i, failed)

Next ==
  \/ \E h, e \in Heads : Commit(h, e)
  \/ \E c \in Callers : (\E r \in Calls : Request(c, r)) \/ Lock(c) \/ Handler(c)
  \/ \E i \in 1..payloadId : Goroutine(i)

Spec == Init /\ [][Next]_vars

(* Goroutines run, and a Go mutex hands itself to a goroutine that has      *)
(* waited for a millisecond, so no handler starves on s.lock.               *)
FairSpec ==
  /\ Spec
  /\ \A c \in Callers : SF_vars(Lock(c)) /\ WF_vars(Handler(c))
  /\ \A i \in 1..MaxPayloads : WF_vars(i <= payloadId /\ Goroutine(i))

-----------------------------------------------------------------------------
\* Every variable has its type.
PayloadTypeOK ==
  /\ headBlock \in Heads /\ executed \in Heads
  /\ lock \in Callers \cup {NoCaller}
  /\ pc \in [Callers -> {"idle", "want", "answered", "building", "stop", "block"}]
  /\ call \in [Callers -> Calls \cup {NoCall}]
  /\ payloadId \in 0..MaxPayloads
  /\ builders \subseteq 1..payloadId
  /\ builder \in [1..payloadId -> Builder]

\* Whoever gets s.lock finds every kept build finished: while a build runs, the handler that
\* asked for it still holds the lock.  So Stop never waits for a result, and the interrupt it
\* raises comes too late to cut a build short.
PayloadIsReady ==
  \A i \in builders :
     builder[i].result = "none" => /\ lock = builder[i].mmChan
                                   /\ pc[lock] = "building"
                                   /\ ~builder[i].interrupt

\* The map holds exactly the newest MaxBuilders payloads, so an id the consensus layer was
\* given is known until MaxBuilders later payloads have been asked for (evictOldBuilders,
\* whose loop bound shrinks with the map).
KeepsNewestBuilders ==
  builders = {i \in 1..payloadId : i > payloadId - MaxBuilders}

\* A block that was built stands on the head its fork choice named, with attributes that
\* fit it, although the stage loop may have committed another head between the check and
\* the build's own transaction.
BuiltOnChosenHead ==
  \A i \in 1..payloadId :
     builder[i].result = "block" =>
       /\ builder[i].base = builder[i].parent
       /\ Time[builder[i].base] < builder[i].attributes.timestamp
       /\ checkWithdrawalsPresence(builder[i].attributes)

\* A payload id names one payload for good: no later build, eviction or getPayload changes
\* what was asked for under it or what was built.
PayloadIsFinal ==
  [][\A i \in 1..payloadId :
        /\ i <= payloadId'
        /\ builder'[i].parent = builder[i].parent
        /\ builder'[i].attributes = builder[i].attributes
        /\ builder[i].result # "none" =>
             builder'[i].result = builder[i].result /\ builder'[i].base = builder[i].base]_vars

\* Every request returns, whatever the other handlers and the stage loop do.
Served == \A c \in Callers : pc[c] = "want" ~> pc[c] = "idle"
=============================================================================
