------------------------ MODULE PayloadBuilderProofs ------------------------
(***************************************************************************)
(* Proofs of the safety properties of PayloadBuilder for any set of heads, *)
(* callers and timestamps and any MaxBuilders > 0.                         *)
(***************************************************************************)
EXTENDS PayloadBuilder, FiniteSetTheorems, TLAPS

Unfinished(i) == builder[i].goroutine \in {"starting", "running"}

\* The handlers past the lock are exactly its holder.
LockInv ==
  \A c \in Callers :
     lock = c <=> pc[c] \in {"answered", "building", "stop", "block"}

\* A handler's request is the one its position belongs to.
CallInv ==
  \A c \in Callers :
     /\ pc[c] = "want" => call[c] \in Calls
     /\ pc[c] \in {"answered", "building"} => call[c].method = "forkchoiceUpdated"
     /\ pc[c] = "answered" => call[c] \in Calls

\* A goroutine that has not passed mmChan is the newest one, and its listener waits for it.
BuildInv ==
  \A i \in 1..payloadId :
     /\ Unfinished(i) <=> builder[i].result = "none"
     /\ Unfinished(i) \/ At(i, "notify") =>
          i = payloadId /\ pc[builder[i].mmChan] = "building"
     /\ builder[i].interrupt => ~Unfinished(i)

\* What a builder was asked for fits its parent, and a block stands on that parent.
AttributesInv ==
  \A i \in 1..payloadId :
     /\ Time[builder[i].parent] < builder[i].attributes.timestamp
     /\ checkWithdrawalsPresence(builder[i].attributes)
     /\ builder[i].result = "block" => builder[i].base = builder[i].parent

IInv ==
  PayloadTypeOK /\ LockInv /\ CallInv /\ BuildInv /\ AttributesInv /\ KeepsNewestBuilders

-----------------------------------------------------------------------------
(* evictOldBuilders *)

\* The loop evicts nothing below MaxBuilders and one builder at MaxBuilders.
LEMMA EvictCountValue ==
  ASSUME NEW n \in 0..MaxBuilders
  PROVE  EvictCount(n) = IF n < MaxBuilders THEN 0 ELSE 1
<1> DEFINE S == {i \in 0..n : i > (n - i) - MaxBuilders}
<1>1. CASE n < MaxBuilders
  <2>1. 0 \in S /\ \A i \in S : 0 <= i
    BY <1>1, PayloadBuilderAssumption
  <2>2. \A x \in S : (\A y \in S : x <= y) => x = 0
    BY <2>1
  <2> QED  BY <1>1, <2>1, <2>2 DEF EvictCount, Min
<1>2. CASE n = MaxBuilders
  <2>1. 1 \in S /\ \A i \in S : 1 <= i
    BY <1>2, PayloadBuilderAssumption
  <2>2. \A x \in S : (\A y \in S : x <= y) => x = 1
    BY <2>1
  <2> QED  BY <1>2, <2>1, <2>2, PayloadBuilderAssumption DEF EvictCount, Min
<1> QED  BY <1>1, <1>2, PayloadBuilderAssumption

\* Evicting from the newest MaxBuilders ids and adding the next one leaves the newest
\* MaxBuilders ids.
LEMMA EvictKeepsNewest ==
  ASSUME NEW p \in Nat, NEW ids, ids = {i \in 1..p : i > p - MaxBuilders}
  PROVE  evictOldBuilders(ids) \cup {p + 1} = {i \in 1..p + 1 : i > p + 1 - MaxBuilders}
<1> USE PayloadBuilderAssumption
<1>1. \A i \in ids : IsFiniteSet({j \in ids : j < i})
                     /\ Cardinality({j \in ids : j < i}) \in Nat
  <2>1. IsFiniteSet(1..p)
    BY FS_Interval
  <2> QED  BY <2>1, FS_Subset, FS_CardinalityType
<1>2. CASE p < MaxBuilders
  <2>1. ids = 1..p
    BY <1>2
  <2>2. Cardinality(ids) = p
    <3>1. Cardinality(1..p) = IF 1 > p THEN 0 ELSE p - 1 + 1
      BY FS_Interval, 1 \in Int, p \in Int, Zenon
    <3>2. Cardinality(ids) = Cardinality(1..p)
      BY <2>1, Zenon
    <3> QED  BY <3>1, <3>2
  <2>3. EvictCount(Cardinality(ids)) = 0
    BY <1>2, <2>2, EvictCountValue
  <2>4. evictOldBuilders(ids) = ids
    BY <1>1, <2>3 DEF evictOldBuilders
  <2> QED  BY <1>2, <2>1, <2>4
<1>3. CASE p >= MaxBuilders
  <2>1. ids = (p - MaxBuilders + 1)..p
    BY <1>3
  <2>2. Cardinality(ids) = MaxBuilders
    <3> DEFINE lo == p - MaxBuilders + 1
    <3>1. lo \in Int /\ p \in Int
      OBVIOUS
    <3>2. Cardinality(lo..p) = IF lo > p THEN 0 ELSE p - lo + 1
      <4> HIDE DEF lo
      <4> QED  BY <3>1, FS_Interval, Zenon
    <3>3. Cardinality(ids) = Cardinality(lo..p)
      BY <2>1, Zenon
    <3> QED  BY <1>3, <3>2, <3>3
  <2>3. EvictCount(Cardinality(ids)) = 1
    BY <2>2, EvictCountValue
  <2>4. \A i \in ids : Cardinality({j \in ids : j < i}) >= 1 <=> i # p - MaxBuilders + 1
    <3> TAKE i \in ids
    <3>1. {j \in ids : j < i} = {} <=> i = p - MaxBuilders + 1
      BY <1>3, <2>1
    <3>2. Cardinality({j \in ids : j < i}) = 0 <=> {j \in ids : j < i} = {}
      BY <1>1, FS_EmptySet
    <3> QED  BY <1>1, <3>1, <3>2
  <2>5. evictOldBuilders(ids) = {i \in ids : i # p - MaxBuilders + 1}
    BY <2>3, <2>4 DEF evictOldBuilders
  <2> QED  BY <1>3, <2>1, <2>5
<1> QED  BY <1>2, <1>3

-----------------------------------------------------------------------------
(* The invariant is inductive. *)

\* A server without builders satisfies the invariant.
LEMMA InitInv == Init => IInv
<1> SUFFICES ASSUME Init PROVE IInv
  OBVIOUS
<1> USE PayloadBuilderAssumption DEF Init
<1>1. PayloadTypeOK
  BY DEF PayloadTypeOK
<1>2. LockInv /\ CallInv
  BY DEF LockInv, CallInv
<1>3. BuildInv /\ AttributesInv
  BY DEF BuildInv, AttributesInv
<1>4. KeepsNewestBuilders
  BY DEF KeepsNewestBuilders
<1> QED  BY <1>1, <1>2, <1>3, <1>4 DEF IInv

\* Steps of the environment, and handler steps that start no build.
LEMMA QuietSteps ==
  ASSUME IInv, NEW c \in Callers,
         \/ \E h, e \in Heads : Commit(h, e)
         \/ \E r \in Calls : Request(c, r)
         \/ LockForkChoice(c) \/ GetPayloadUnknown(c) \/ PendingBlock(c)
         \/ \E valid \in BOOLEAN : NoBuild(c, valid)
         \/ StopReturns(c) \/ BlockReturns(c)
  PROVE  IInv'
<1> USE PayloadBuilderAssumption
<1> DEFINE T == /\ lock' \in Callers \cup {NoCaller}
                /\ pc' \in [Callers -> {"idle", "want", "answered", "building", "stop", "block"}]
                /\ headBlock' \in Heads /\ executed' \in Heads
                /\ UNCHANGED <<payloadId, builders, builder>>
                /\ call' \in [Callers -> Calls \cup {NoCall}]
           B == \A d \in Callers : pc[d] = "building" => pc'[d] = "building"
           D == T /\ LockInv' /\ CallInv' /\ B
<1>1. ASSUME NEW h \in Heads, NEW e \in Heads, Commit(h, e) PROVE D
  <2>1. T
    BY <1>1 DEF IInv, PayloadTypeOK, Commit
  <2>2. LockInv'
    BY <1>1 DEF IInv, PayloadTypeOK, LockInv, Commit
  <2>3. CallInv'
    BY <1>1 DEF IInv, PayloadTypeOK, CallInv, Commit
  <2>4. B
    BY <1>1 DEF IInv, PayloadTypeOK, LockInv, Commit
  <2> QED  BY <2>1, <2>2, <2>3, <2>4
<1>2. ASSUME NEW r \in Calls, Request(c, r) PROVE D
  <2>1. T
    BY <1>2 DEF IInv, PayloadTypeOK, Request, db
  <2>2. LockInv'
    BY <1>2 DEF IInv, PayloadTypeOK, LockInv, Request, db
  <2>3. CallInv'
    BY <1>2 DEF IInv, PayloadTypeOK, CallInv, Request, db
  <2>4. B
    BY <1>2 DEF IInv, PayloadTypeOK, LockInv, Request, db
  <2> QED  BY <2>1, <2>2, <2>3, <2>4
<1>3. ASSUME LockForkChoice(c) PROVE D
  <2>1. T
    BY <1>3 DEF IInv, PayloadTypeOK, LockForkChoice, Acquire, db
  <2>2. LockInv'
    BY <1>3 DEF IInv, PayloadTypeOK, LockInv, LockForkChoice, Acquire, db
  <2>3. CallInv'
    BY <1>3 DEF IInv, PayloadTypeOK, CallInv, LockForkChoice, Acquire, db
  <2>4. B
    BY <1>3 DEF IInv, PayloadTypeOK, LockInv, LockForkChoice, Acquire, db
  <2> QED  BY <2>1, <2>2, <2>3, <2>4
<1>4. ASSUME GetPayloadUnknown(c) PROVE D
  <2>1. T
    BY <1>4 DEF IInv, PayloadTypeOK, GetPayloadUnknown, Return, db
  <2>2. LockInv'
    BY <1>4 DEF IInv, PayloadTypeOK, LockInv, GetPayloadUnknown, Return, db
  <2>3. CallInv'
    BY <1>4 DEF IInv, PayloadTypeOK, CallInv, GetPayloadUnknown, Return, db
  <2>4. B
    BY <1>4 DEF IInv, PayloadTypeOK, LockInv, GetPayloadUnknown, Return, db
  <2> QED  BY <2>1, <2>2, <2>3, <2>4
<1>5. ASSUME PendingBlock(c) PROVE D
  <2>1. T
    BY <1>5 DEF IInv, PayloadTypeOK, PendingBlock, Acquire, db
  <2>2. LockInv'
    BY <1>5 DEF IInv, PayloadTypeOK, LockInv, PendingBlock, Acquire, db
  <2>3. CallInv'
    BY <1>5 DEF IInv, PayloadTypeOK, CallInv, PendingBlock, Acquire, db
  <2>4. B
    BY <1>5 DEF IInv, PayloadTypeOK, LockInv, PendingBlock, Acquire, db
  <2> QED  BY <2>1, <2>2, <2>3, <2>4
<1>6. ASSUME NEW valid \in BOOLEAN, NoBuild(c, valid) PROVE D
  <2>1. T
    BY <1>6 DEF IInv, PayloadTypeOK, NoBuild, Return, db
  <2>2. LockInv'
    BY <1>6 DEF IInv, PayloadTypeOK, LockInv, NoBuild, Return, db
  <2>3. CallInv'
    BY <1>6 DEF IInv, PayloadTypeOK, CallInv, NoBuild, Return, db
  <2>4. B
    BY <1>6 DEF IInv, PayloadTypeOK, LockInv, NoBuild, Return, db
  <2> QED  BY <2>1, <2>2, <2>3, <2>4
<1>7. ASSUME StopReturns(c) PROVE D
  <2>1. T
    BY <1>7 DEF IInv, PayloadTypeOK, StopReturns, Return, db
  <2>2. LockInv'
    BY <1>7 DEF IInv, PayloadTypeOK, LockInv, StopReturns, Return, db
  <2>3. CallInv'
    BY <1>7 DEF IInv, PayloadTypeOK, CallInv, StopReturns, Return, db
  <2>4. B
    BY <1>7 DEF IInv, PayloadTypeOK, LockInv, StopReturns, Return, db
  <2> QED  BY <2>1, <2>2, <2>3, <2>4
<1>8. ASSUME BlockReturns(c) PROVE D
  <2>1. T
    BY <1>8 DEF IInv, PayloadTypeOK, BlockReturns, Return, db
  <2>2. LockInv'
    BY <1>8 DEF IInv, PayloadTypeOK, LockInv, BlockReturns, Return, db
  <2>3. CallInv'
    BY <1>8 DEF IInv, PayloadTypeOK, CallInv, BlockReturns, Return, db
  <2>4. B
    BY <1>8 DEF IInv, PayloadTypeOK, LockInv, BlockReturns, Return, db
  <2> QED  BY <2>1, <2>2, <2>3, <2>4
<1>9. D
  BY <1>1, <1>2, <1>3, <1>4, <1>5, <1>6, <1>7, <1>8
<1> HIDE PayloadBuilderAssumption
<1>10. PayloadTypeOK'
  BY <1>9 DEF IInv, PayloadTypeOK
<1>11. BuildInv'
  BY <1>9 DEF IInv, PayloadTypeOK, Builder, BuildInv, Unfinished, At
<1>12. AttributesInv' /\ KeepsNewestBuilders'
  BY <1>9 DEF IInv, AttributesInv, KeepsNewestBuilders
<1> QED  BY <1>9, <1>10, <1>11, <1>12 DEF IInv

\* EngineGetPayload raises the interrupt of a builder that has finished.
LEMMA GetPayloadStep ==
  ASSUME IInv, NEW c \in Callers, GetPayload(c)
  PROVE  IInv'
<1> USE PayloadBuilderAssumption
<1> DEFINE g == call[c].id
<1>1. /\ g \in builders /\ g \in 1..payloadId
      /\ pc[c] = "want" /\ lock = NoCaller
      /\ lock' = c /\ pc' = [pc EXCEPT ![c] = "stop"] /\ UNCHANGED call
      /\ builder' = [builder EXCEPT ![g].interrupt = TRUE]
      /\ UNCHANGED <<headBlock, executed, payloadId, builders>>
  BY DEF IInv, PayloadTypeOK, GetPayload, Acquire, db
<1> HIDE DEF g
<1>2. \A i \in 1..payloadId : builder[i] \in Builder /\ builder'[i] \in Builder
                              /\ builder'[i] = IF i = g THEN [builder[i] EXCEPT !.interrupt = TRUE]
                                                       ELSE builder[i]
  <2>1. builder \in [1..payloadId -> Builder]
    BY DEF IInv, PayloadTypeOK
  <2>2. ASSUME NEW b \in Builder PROVE [b EXCEPT !.interrupt = TRUE] \in Builder
    BY DEF Builder
  <2>3. builder' = [builder EXCEPT ![g] = [builder[g] EXCEPT !.interrupt = TRUE]]
    BY <1>1
  <2>4. [builder[g] EXCEPT !.interrupt = TRUE] \in Builder
    BY <1>1, <2>1, <2>2
  <2>5. ASSUME NEW i \in 1..payloadId, NEW v \in Builder, builder' = [builder EXCEPT ![g] = v]
        PROVE  /\ builder[i] \in Builder /\ builder'[i] \in Builder
               /\ builder'[i] = IF i = g THEN v ELSE builder[i]
    BY <2>1, <2>5
  <2> QED  BY <2>3, <2>4, <2>5
<1>3. PayloadTypeOK'
  BY <1>1, <1>2 DEF IInv, PayloadTypeOK
<1>4. LockInv' /\ CallInv'
  BY <1>1 DEF IInv, PayloadTypeOK, LockInv, CallInv
<1>5. ~ Unfinished(g)
  BY <1>1, <1>2 DEF IInv, PayloadTypeOK, LockInv, BuildInv, Builder
<1>6. BuildInv'
  BY <1>1, <1>2, <1>5 DEF IInv, PayloadTypeOK, BuildInv, Unfinished, At, Builder
<1>7. AttributesInv'
  BY <1>1, <1>2 DEF IInv, AttributesInv, Builder
<1>8. KeepsNewestBuilders'
  BY <1>1 DEF IInv, KeepsNewestBuilders
<1> QED  BY <1>3, <1>4, <1>6, <1>7, <1>8 DEF IInv

\* A new build starts only when no other one is under way.
LEMMA StartBuildStep ==
  ASSUME IInv, NEW c \in Callers, StartBuild(c)
  PROVE  IInv'
<1> USE PayloadBuilderAssumption
<1> DEFINE n == payloadId + 1
           b == NewBlockBuilderMM(call[c], c)
<1>1. /\ pc[c] = "answered" /\ lock = c /\ payloadId \in Nat /\ n \in 1..MaxPayloads
      /\ pc' = [pc EXCEPT ![c] = "building"]
      /\ payloadId' = n
      /\ builders' = evictOldBuilders(builders) \cup {n}
      /\ builder' = [i \in 1..n |-> IF i \in 1..payloadId THEN builder[i] ELSE b]
      /\ UNCHANGED <<headBlock, executed, lock, call>>
  BY DEF IInv, PayloadTypeOK, LockInv, StartBuild, AddBuilder, db
<1>2. call[c].head \in Heads /\ call[c].attributes \in Attributes
  BY <1>1 DEF IInv, CallInv, Calls
<1>3. /\ b \in Builder /\ b.mmChan = c /\ b.goroutine = "starting" /\ b.result = "none"
      /\ b.interrupt = FALSE
      /\ Time[b.parent] < b.attributes.timestamp /\ checkWithdrawalsPresence(b.attributes)
  BY <1>2 DEF NewBlockBuilderMM, Builder, StartBuild, MayBuild
<1> HIDE DEF b
<1>4. \A i \in 1..payloadId : /\ i \in 1..n /\ builder'[i] = builder[i] /\ builder[i] \in Builder
                              /\ ~ Unfinished(i) /\ ~ At(i, "notify")
  BY <1>1 DEF IInv, PayloadTypeOK, LockInv, BuildInv, Builder
<1>5. n \in 1..n /\ builder'[n] = b /\ 1..n = 1..payloadId \cup {n}
  BY <1>1
<1>6. builders' = {i \in 1..n : i > n - MaxBuilders}
  BY <1>1, EvictKeepsNewest DEF IInv, KeepsNewestBuilders
<1>7. PayloadTypeOK'
  <2>1. builder' \in [1..n -> Builder]
    BY <1>1, <1>3, <1>4
  <2> QED  BY <1>1, <1>6, <2>1 DEF IInv, PayloadTypeOK
<1>8. LockInv' /\ CallInv'
  BY <1>1 DEF IInv, PayloadTypeOK, LockInv, CallInv
<1>9. BuildInv'
  <2>1. ASSUME NEW i \in 1..payloadId
        PROVE  /\ ~ Unfinished(i)' /\ ~ At(i, "notify")'
               /\ builder'[i].result # "none"
    BY <1>4 DEF IInv, BuildInv, Unfinished, At
  <2>2. pc'[c] = "building"
    BY <1>1 DEF IInv, PayloadTypeOK
  <2> QED  BY <1>1, <1>3, <1>5, <2>1, <2>2 DEF BuildInv, Unfinished, At
<1>10. AttributesInv'
  BY <1>1, <1>3, <1>4, <1>5 DEF IInv, AttributesInv, checkWithdrawalsPresence
<1>11. KeepsNewestBuilders'
  BY <1>1, <1>6 DEF KeepsNewestBuilders
<1> QED  BY <1>7, <1>8, <1>9, <1>10, <1>11 DEF IInv

\* Steps of a builder's goroutine.
LEMMA GoroutineStep ==
  ASSUME IInv, NEW g \in 1..payloadId, Goroutine(g)
  PROVE  IInv'
<1> USE PayloadBuilderAssumption
<1>1. builder[g] \in Builder /\ builder[g].mmChan \in Callers
  BY DEF IInv, PayloadTypeOK, Builder
<1>2. ASSUME NEW b \in Builder, builder' = [builder EXCEPT ![g] = b],
             UNCHANGED <<headBlock, executed, payloadId, builders>>,
             b.parent = builder[g].parent, b.attributes = builder[g].attributes,
             b.mmChan = builder[g].mmChan, b.interrupt = builder[g].interrupt,
             b.result = "block" => b.base = b.parent,
             b.goroutine \in {"starting", "running"} <=> b.result = "none",
             b.interrupt => b.goroutine \notin {"starting", "running"},
             \/ /\ UNCHANGED <<lock, pc, call>>
                /\ b.goroutine \in {"starting", "running", "notify"} =>
                     builder[g].goroutine \in {"starting", "running", "notify"}
             \/ /\ Return(b.mmChan) /\ pc[b.mmChan] = "building"
                /\ b.goroutine = "broadcast"
                /\ \A i \in 1..payloadId \ {g} :
                     ~ (Unfinished(i) \/ At(i, "notify"))
      PROVE  IInv'
  <2>1. \A i \in 1..payloadId : /\ builder[i] \in Builder
                                /\ builder'[i] = IF i = g THEN b ELSE builder[i]
    BY <1>2 DEF IInv, PayloadTypeOK
  <2>2. PayloadTypeOK'
    BY <1>1, <1>2 DEF IInv, PayloadTypeOK, Return
  <2>3. LockInv' /\ CallInv'
    <3>1. CASE UNCHANGED <<lock, pc, call>>
      BY <3>1 DEF IInv, LockInv, CallInv
    <3>2. CASE Return(b.mmChan) /\ pc[b.mmChan] = "building"
      BY <1>1, <1>2, <3>2 DEF IInv, PayloadTypeOK, LockInv, CallInv, Return
    <3> QED  BY <1>2, <3>1, <3>2
  <2>4. BuildInv'
    <3>1. \A i \in 1..payloadId' : i \in 1..payloadId
      BY <1>2
    <3>2. \A i \in 1..payloadId \ {g} :
            /\ builder'[i] = builder[i]
            /\ Unfinished(i)' <=> Unfinished(i)
            /\ At(i, "notify")' <=> At(i, "notify")
      BY <2>1 DEF Unfinished, At
    <3>3. CASE UNCHANGED <<lock, pc, call>> /\ (b.goroutine \in {"starting", "running", "notify"} =>
                     builder[g].goroutine \in {"starting", "running", "notify"})
      BY <1>1, <1>2, <2>1, <3>1, <3>2, <3>3 DEF IInv, BuildInv, Unfinished, At
    <3>4. CASE /\ b.goroutine = "broadcast"
               /\ \A i \in 1..payloadId \ {g} : ~ (Unfinished(i) \/ At(i, "notify"))
      BY <1>1, <1>2, <2>1, <3>1, <3>2, <3>4 DEF IInv, BuildInv, Unfinished, At
    <3> QED  BY <1>2, <3>3, <3>4
  <2>5. AttributesInv'
    BY <1>2, <2>1 DEF IInv, AttributesInv
  <2>6. KeepsNewestBuilders'
    BY <1>2 DEF IInv, KeepsNewestBuilders
  <2> QED  BY <2>2, <2>3, <2>4, <2>5, <2>6 DEF IInv
<1> DEFINE o == builder[g]
<1>3. CASE BeginBuild(g)
  <2> DEFINE b == [o EXCEPT !.goroutine = "running", !.base = executed]
  <2>1. b \in Builder /\ builder' = [builder EXCEPT ![g] = b]
    BY <1>1, <1>3 DEF IInv, PayloadTypeOK, Builder, BeginBuild
  <2> QED  BY <1>1, <1>2, <1>3, <2>1 DEF IInv, BuildInv, Unfinished, At, Builder, BeginBuild, db
<1>4. ASSUME NEW failed \in BOOLEAN, FinishBuild(g, failed) PROVE IInv'
  <2> DEFINE b == [o EXCEPT !.goroutine = "notify", !.result = IF failed THEN "error" ELSE "block"]
  <2>1. b \in Builder /\ builder' = [builder EXCEPT ![g] = b]
    BY <1>1, <1>4 DEF IInv, PayloadTypeOK, Builder, FinishBuild
  <2> QED  BY <1>1, <1>2, <1>4, <2>1 DEF IInv, BuildInv, Unfinished, At, Builder, FinishBuild, db
<1>5. CASE Notify(g)
  <2> DEFINE b == [o EXCEPT !.goroutine = "broadcast"]
  <2>1. b \in Builder /\ builder' = [builder EXCEPT ![g] = b]
    BY <1>1, <1>5 DEF IInv, PayloadTypeOK, Builder, Notify
  <2>2. \A i \in 1..payloadId \ {g} : ~ (Unfinished(i) \/ At(i, "notify"))
    BY <1>5 DEF IInv, BuildInv, Notify
  <2> QED  BY <1>1, <1>2, <1>5, <2>1, <2>2
           DEF IInv, AttributesInv, BuildInv, Unfinished, At, Builder, Notify, db
<1>6. CASE EndBuild(g)
  <2> DEFINE b == [o EXCEPT !.goroutine = "done"]
  <2>1. b \in Builder /\ builder' = [builder EXCEPT ![g] = b]
    BY <1>1, <1>6 DEF IInv, PayloadTypeOK, Builder, EndBuild
  <2> QED  BY <1>1, <1>2, <1>6, <2>1
           DEF IInv, AttributesInv, BuildInv, Unfinished, At, Builder, EndBuild, db
<1> QED  BY <1>3, <1>4, <1>5, <1>6 DEF Goroutine

\* Every step of a handler, of a builder and of the stage loop keeps the invariant.
LEMMA NextInv == IInv /\ [Next]_vars => IInv'
<1> SUFFICES ASSUME IInv, [Next]_vars PROVE IInv'
  OBVIOUS
<1>1. CASE UNCHANGED vars
  BY <1>1 DEF vars, IInv, PayloadTypeOK, LockInv, CallInv, BuildInv, AttributesInv, KeepsNewestBuilders,
              Unfinished, At
<1>2. CASE \E h, e \in Heads : Commit(h, e)
  <2>1. CASE Callers = {}
    BY <1>2, <2>1 DEF Commit, IInv, PayloadTypeOK, LockInv, CallInv, BuildInv, AttributesInv,
                      KeepsNewestBuilders, Unfinished, At
  <2>2. CASE Callers # {}
    BY <1>2, <2>2, QuietSteps
  <2> QED  BY <2>1, <2>2
<1>3. ASSUME NEW c \in Callers, (\E r \in Calls : Request(c, r)) \/ Lock(c) \/ Handler(c)
      PROVE  IInv'
  BY <1>3, QuietSteps, GetPayloadStep, StartBuildStep DEF Lock, Handler
<1>4. ASSUME NEW i \in 1..payloadId, Goroutine(i) PROVE IInv'
  BY <1>4, GoroutineStep
<1> QED  BY <1>1, <1>2, <1>3, <1>4 DEF Next

-----------------------------------------------------------------------------

\* The inductive invariant holds in every reachable state of the payload builder: the mutex
\* discipline, one unfinished build at a time, and the builders that are kept.
THEOREM Invariance == Spec => []IInv
  BY InitInv, NextInv, PTL DEF Spec

\* Every variable keeps its type.
THEOREM TypeCorrect == Spec => []PayloadTypeOK
<1>1. IInv => PayloadTypeOK
  BY DEF IInv
<1> QED  BY <1>1, Invariance, PTL

\* Whoever holds s.lock and is not itself waiting for a build finds every build finished.
THEOREM PayloadsAreReady == Spec => []PayloadIsReady
<1>1. IInv => PayloadIsReady
  BY DEF IInv, PayloadTypeOK, Builder, LockInv, BuildInv, PayloadIsReady
<1> QED  BY <1>1, Invariance, PTL

\* The map of builders holds the newest MaxBuilders payloads.
THEOREM NewestBuildersKept == Spec => []KeepsNewestBuilders
<1>1. IInv => KeepsNewestBuilders
  BY DEF IInv
<1> QED  BY <1>1, Invariance, PTL

\* A built block stands on the head that was asked for.
THEOREM BlocksOnChosenHead == Spec => []BuiltOnChosenHead
<1>1. IInv => BuiltOnChosenHead
  BY DEF IInv, AttributesInv, BuiltOnChosenHead
<1> QED  BY <1>1, Invariance, PTL

\* No step changes what a payload id names.
THEOREM PayloadsAreFinal == Spec => PayloadIsFinal
<1> DEFINE A == \A i \in 1..payloadId :
                  /\ i <= payloadId'
                  /\ builder'[i].parent = builder[i].parent
                  /\ builder'[i].attributes = builder[i].attributes
                  /\ builder[i].result # "none" =>
                       builder'[i].result = builder[i].result /\ builder'[i].base = builder[i].base
<1>1. IInv /\ [Next]_vars => [A]_vars
  <2> SUFFICES ASSUME IInv, Next PROVE A
    OBVIOUS
  <2> USE PayloadBuilderAssumption
  <2>1. payloadId \in Nat /\ \A i \in 1..payloadId : builder[i] \in Builder
    BY DEF IInv, PayloadTypeOK
  <2>2. CASE UNCHANGED <<payloadId, builder>>
    BY <2>1, <2>2
  <2>3. ASSUME NEW c \in Callers, GetPayload(c) PROVE A
    BY <2>1, <2>3 DEF IInv, PayloadTypeOK, Builder, GetPayload
  <2>4. ASSUME NEW c \in Callers, StartBuild(c) PROVE A
    BY <2>1, <2>4 DEF IInv, PayloadTypeOK, StartBuild, AddBuilder
  <2>5. ASSUME NEW g \in 1..payloadId, Goroutine(g) PROVE A
    <3>1. builder[g].result # "none" => ~ At(g, "starting") /\ ~ At(g, "running")
      BY DEF IInv, BuildInv, Unfinished, At
    <3>2. CASE BeginBuild(g)
      BY <2>1, <3>1, <3>2 DEF IInv, PayloadTypeOK, Builder, BeginBuild
    <3>3. CASE \E failed \in BOOLEAN : FinishBuild(g, failed)
      BY <2>1, <3>1, <3>3 DEF IInv, PayloadTypeOK, Builder, FinishBuild
    <3>4. ASSUME NEW where \in {"broadcast", "done"}, UNCHANGED payloadId,
                 builder' = [builder EXCEPT ![g].goroutine = where]
          PROVE  A
      BY <2>1, <3>4 DEF IInv, PayloadTypeOK, Builder
    <3>5. CASE Notify(g) \/ EndBuild(g)
      BY <3>4, <3>5 DEF Notify, EndBuild
    <3> QED  BY <2>5, <3>2, <3>3, <3>5 DEF Goroutine
  <2> QED  BY <2>2, <2>3, <2>4, <2>5
           DEF Next, Lock, Handler, Commit, Request, LockForkChoice, GetPayloadUnknown,
               PendingBlock, NoBuild, StopReturns, BlockReturns
<1> QED  BY <1>1, Invariance, PTL DEF Spec, PayloadIsFinal
=============================================================================
