--------------------------- MODULE BlockExecution ---------------------------
(***************************************************************************)
(* A built block is handed back to a node with engine_newPayload: its      *)
(* header is verified and its transactions executed on the parent's state  *)
(* (ExecuteBlockEphemerally).  MiningExec builds the block; here the same  *)
(* rules are applied once more, with one gas pool for the whole block.     *)
(***************************************************************************)
EXTENDS MiningExec

VARIABLES
  xpc,     \* where the execution of the built block stands
  xtxs,    \* transactions still to be applied
  xstate,  \* state so far
  xgp,     \* gas pool of the block
  xused    \* usedGas so far

xVars == <<xpc, xtxs, xstate, xgp, xused>>
vars == <<miningVars, xVars>>

Init ==
  /\ MiningInit
  /\ xpc = "waiting" /\ xtxs = <<>> /\ xstate = parent /\ xgp = 0 /\ xused = 0

\* verifyHeader refuses gasUsed above gasLimit; execution starts with the whole limit
verifyHeader ==
  /\ xpc = "waiting" /\ pc = "built"
  /\ xpc' = IF gasUsedTotal > GasLimit THEN "invalid" ELSE "executing"
  /\ xtxs' = block /\ xgp' = GasLimit
  /\ UNCHANGED <<miningVars, xstate, xused>>

\* a transaction that cannot be applied makes the block invalid
ApplyTransaction ==
  /\ xpc = "executing" /\ xtxs # <<>>
  /\ LET r == TransitionDb(xstate, xgp, Head(xtxs))
     IN  /\ xpc' = IF r.err = "none" THEN xpc ELSE "invalid"
         /\ xstate' = r.state /\ xgp' = r.gp /\ xused' = xused + r.used
  /\ xtxs' = Tail(xtxs)
  /\ UNCHANGED miningVars

\* the gas used is compared with the header's
FinishBlock ==
  /\ xpc = "executing" /\ xtxs = <<>>
  /\ xpc' = IF xused = gasUsedTotal THEN "valid" ELSE "invalid"
  /\ UNCHANGED <<miningVars, xtxs, xstate, xgp, xused>>

Execute == verifyHeader \/ ApplyTransaction \/ FinishBlock

Next ==
  \/ MiningExecStage /\ UNCHANGED xVars
  \/ Quit /\ UNCHANGED xVars
  \/ Execute

Spec == Init /\ [][Next]_vars

\* the stages are sequential code that runs on
FairSpec == Spec /\ WF_vars(MiningExecStage /\ UNCHANGED xVars) /\ WF_vars(Execute)

-----------------------------------------------------------------------------
\* Every variable has its type.
BlockTypeOK ==
  /\ pc \in {"deposits", "addDeposits", "yield", "filter", "add", "built", "failed"}
  /\ xpc \in {"waiting", "executing", "valid", "invalid"}
  /\ simulation \in State /\ ibs \in State /\ xstate \in State
  /\ {y, gasPool, gasUsedTotal, xgp, xused} \subseteq Nat
  /\ missedTxs \in 0..Len(transactions)
  /\ Range(block) \subseteq Range(deposits) \cup yielded

\* A block this node builds is one it accepts: its header passes verification and every
\* transaction applies again, to the same gas and the same state, although the builder
\* used a gas pool per batch and rolled back what failed.
BuiltBlockIsValid ==
  /\ xpc # "invalid"
  /\ xpc = "valid" => xstate = ibs

\* All deposits of the payload attributes are in the block, in their order and before any
\* transaction of the pool, also those whose execution failed.
DepositsComeFirst ==
  pc \in {"yield", "filter", "add", "built"} => IsPrefix(deposits, block)

\* Within a batch of pool transactions the pool of gas is what the header leaves.
GasAccounted == pc = "add" => gasPool + gasUsedTotal = GasLimit

\* When the filter gives up on the rest of its queue, every nonce there is ahead of its
\* account: no transaction that could follow was passed over (the rotation and missedTxs).
NothingEligibleIsLeft ==
  pc = "filter" /\ missedTxs = Len(transactions) =>
    \A t \in Range(transactions) : simulation.nonce[t.from] < t.nonce

\* The filter's prediction never promises more than the block's state has, batch after
\* batch, for an account that sent no deposit in this block.
SimulationIsCautious ==
  pc \in {"yield", "filter"} =>
    \A a \in Accounts \ {t.from : t \in Range(deposits)} :
      /\ simulation.balance[a] <= ibs.balance[a]
      /\ simulation.nonce[a] >= ibs.nonce[a]

Supply(s) == SumFunction(s.balance)

\* Executing a transaction creates a deposit's mint, burns the base fee of the gas that a
\* pool transaction used, and moves everything else between accounts.
SupplyIsAccounted ==
  [][block' # block =>
       LET t == Last(block')
           burnt == IF t.deposit THEN 0 ELSE BaseFee * (gasUsedTotal' - gasUsedTotal)
       IN  Supply(ibs') = Supply(ibs) + t.mint - burnt]_vars

\* Every build ends: the filter's rotation stops, the pool runs dry or the gas does, and
\* the execution of the built block reaches a verdict.
BuildEnds == <>(pc = "failed" \/ xpc \in {"valid", "invalid"})
=============================================================================
