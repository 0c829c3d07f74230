----------------------------- MODULE MiningExec -----------------------------
(***************************************************************************)
(* Filling a block: the MiningExec stage (stage_mining_exec.go) adds the   *)
(* deposits of the payload attributes, then batches of transactions that   *)
(* the pool yields and filterBadTransactions lets through, and executes    *)
(* each one on the block's state.                                          *)
(*                                                                         *)
(* Left out: the interrupt of addTransactionsToMiningBlock, which in this  *)
(* node is never raised while a build runs (PayloadBuilder!PayloadIsReady),*)
(* and PreparedTxs, which only the `integration` command sets.             *)
(***************************************************************************)
EXTENDS StateTransition, Sequences, FiniteSets, SequencesExt

CONSTANTS
  GasLimit,      \* of the header
  TxGas,         \* params.TxGas, the least a transaction can use
  Uint64,        \* 2^64: gas is computed modulo it
  Amount,        \* transactions asked of the pool at a time (50)
  ParentStates,  \* states the block may be built on
  DepositLists,  \* sequences of deposits the payload attributes may carry
  Pools          \* contents the transaction pool may have, sets of transactions

ASSUME MiningExecAssumption ==
  /\ {GasLimit, TxGas, Uint64} \subseteq Nat /\ Amount \in Nat \ {0}
  /\ GasLimit < Uint64 /\ TxGas <= GasLimit
  /\ ParentStates \subseteq State
  /\ \A ds \in DepositLists : \A i \in DOMAIN ds : IsTx(ds[i]) /\ ds[i].deposit
  /\ \A p \in Pools : \A t \in p : IsTx(t) /\ ~t.deposit

VARIABLES
  pc,            \* where the stage stands
  parent,        \* the state the block is built on
  deposits,      \* what the attributes carry
  pool,          \* transactions the pool holds
  yielded,       \* alreadyYielded: transactions the pool gave out
  y,             \* how many it gave out last time
  transactions,  \* the queue of filterBadTransactions
  missedTxs,     \* its count of nonces that are too high
  filtered,      \* its result
  simulation,    \* simulationTx: the accounts as the filter predicts them
  txs,           \* the stream being added to the block
  gasPool,       \* of the call of addTransactionsToMiningBlock in progress
  ibs,           \* IntraBlockState of the block
  gasUsedTotal,  \* header.GasUsed
  block          \* current.Txs

filterVars == <<transactions, missedTxs, filtered, simulation>>
addVars == <<txs, gasPool, ibs, gasUsedTotal, block>>
inputVars == <<parent, deposits, pool>>
miningVars == <<pc, inputVars, yielded, y, filterVars, addVars>>

MiningInit ==
  /\ pc = "deposits"
  /\ parent \in ParentStates /\ deposits \in DepositLists /\ pool \in Pools
  /\ yielded = {} /\ y = 0
  /\ transactions = <<>> /\ missedTxs = 0 /\ filtered = <<>> /\ simulation = parent
  /\ txs = <<>> /\ gasPool = 0
  /\ ibs = parent
  /\ gasUsedTotal = 0 /\ block = <<>>

RemainingGas == (GasLimit - gasUsedTotal) % Uint64

-----------------------------------------------------------------------------
(* SpawnMiningExecStage *)

\* mutant: every batch has the whole gas limit
BeginAddingFullPool(list) ==
  /\ txs' = list
  /\ gasPool' = GasLimit
  /\ UNCHANGED <<ibs, gasUsedTotal, block>>

\* a call of addTransactionsToMiningBlock begins with a gas pool of its own
BeginAdding(list) ==
  /\ txs' = list
  /\ gasPool' = RemainingGas
  /\ UNCHANGED <<ibs, gasUsedTotal, block>>

AddDeposits ==
  /\ pc = "deposits" /\ deposits # <<>>
  /\ pc' = "addDeposits"
  /\ BeginAdding(deposits)
  /\ UNCHANGED <<inputVars, yielded, y, filterVars>>

NoDeposits ==
  /\ pc = "deposits" /\ deposits = <<>>
  /\ pc' = "yield"
  /\ UNCHANGED <<inputVars, yielded, y, filterVars, addVars>>

(* getNextTransactions: YieldBest gives up to Amount transactions that it   *)
(* has not given out for this block and that fit the gas that is left; it   *)
(* gives none while the pool lags behind the head.                          *)
Batches ==
  {b \in UNION {[1..n -> pool \ yielded] : n \in 0..Amount} :
     IsInjective(b) /\ \A i \in DOMAIN b : b[i].gas <= RemainingGas}

YieldBest(b) ==
  /\ pc = "yield" /\ b \in Batches
  /\ pc' = "filter"
  /\ y' = Len(b) /\ yielded' = yielded \cup Range(b)
  /\ transactions' = b /\ missedTxs' = 0 /\ filtered' = <<>>
  /\ UNCHANGED <<inputVars, simulation, addVars>>

-----------------------------------------------------------------------------
(* filterBadTransactions: one action per way the loop's body ends.          *)

Filtering == pc = "filter" /\ transactions # <<>> /\ missedTxs # Len(transactions)
First == Head(transactions)
SimNonce == simulation.nonce[First.from]

Exists(s, a) == s.nonce[a] > 0 \/ s.balance[a] > 0 \/ a \in HasCode

\* the account does not exist, or is past the nonce
FilterSkip ==
  /\ Filtering
  /\ ~Exists(simulation, First.from) \/ SimNonce > First.nonce
  /\ transactions' = Tail(transactions)
  /\ UNCHANGED <<pc, inputVars, yielded, y, missedTxs, filtered, simulation, addVars>>

\* mutant: a nonce that is too high is not counted as missed
FilterRotateUncounted ==
  /\ Filtering
  /\ Exists(simulation, First.from) /\ SimNonce < First.nonce
  /\ transactions' = Append(Tail(transactions), First)
  /\ UNCHANGED <<pc, inputVars, yielded, y, missedTxs, filtered, simulation, addVars>>

\* the nonce is ahead of the account: try again after the others
FilterRotate ==
  /\ Filtering
  /\ Exists(simulation, First.from) /\ SimNonce < First.nonce
  /\ missedTxs' = missedTxs + 1
  /\ transactions' = Append(Tail(transactions), First)
  /\ UNCHANGED <<pc, inputVars, yielded, y, filtered, simulation, addVars>>

\* not an EOA, a fee cap below the base fee, or too little balance
Refused ==
  \/ First.from \in HasCode
  \/ (First.feeCap > 0 \/ First.tip > 0) /\ ~CheckEip1559TxGasFeeCap(First)
  \/ simulation.balance[First.from] < MaxCost(First)

FilterRefuse ==
  /\ Filtering
  /\ Exists(simulation, First.from) /\ SimNonce = First.nonce
  /\ Refused
  /\ missedTxs' = 0
  /\ transactions' = Tail(transactions)
  /\ UNCHANGED <<pc, inputVars, yielded, y, filtered, simulation, addVars>>

\* mutant: the missed transactions are not tried again after a match
FilterAcceptKeepsMissed ==
  /\ Filtering
  /\ Exists(simulation, First.from) /\ SimNonce = First.nonce
  /\ ~Refused
  /\ simulation' = SubBalance(IncNonce(simulation, First.from), First.from, MaxCost(First))
  /\ filtered' = Append(filtered, First)
  /\ transactions' = Tail(transactions)
  /\ UNCHANGED <<pc, inputVars, yielded, y, missedTxs, addVars>>

\* mutant: the simulated balance is left as it was
FilterAcceptUnpaid ==
  /\ Filtering
  /\ Exists(simulation, First.from) /\ SimNonce = First.nonce
  /\ ~Refused
  /\ missedTxs' = 0
  /\ simulation' = IncNonce(simulation, First.from)
  /\ filtered' = Append(filtered, First)
  /\ transactions' = Tail(transactions)
  /\ UNCHANGED <<pc, inputVars, yielded, y, addVars>>

\* the simulated account pays the most the transaction may cost
FilterAccept ==
  /\ Filtering
  /\ Exists(simulation, First.from) /\ SimNonce = First.nonce
  /\ ~Refused
  /\ missedTxs' = 0
  /\ simulation' = SubBalance(IncNonce(simulation, First.from), First.from, MaxCost(First))
  /\ filtered' = Append(filtered, First)
  /\ transactions' = Tail(transactions)
  /\ UNCHANGED <<pc, inputVars, yielded, y, addVars>>

\* the filter returns; nothing left ends the block, else the rest is added
FilterDone ==
  /\ pc = "filter" /\ (transactions = <<>> \/ missedTxs = Len(transactions))
  /\ IF filtered = <<>>
     THEN pc' = "built" /\ UNCHANGED addVars
     ELSE pc' = "add" /\ BeginAdding(filtered)
  /\ UNCHANGED <<inputVars, yielded, y, filterVars>>

-----------------------------------------------------------------------------
(* addTransactionsToMiningBlock *)

Adding == pc \in {"addDeposits", "add"}

\* mutant: the state keeps what a failed transaction did
AddNextKeepsFailed ==
  /\ Adding /\ gasPool >= TxGas /\ txs # <<>>
  /\ LET r == TransitionDb(ibs, gasPool, Head(txs))
     IN  /\ ibs' = r.state
         /\ IF r.err = "none"
            THEN /\ gasPool' = r.gp
                 /\ gasUsedTotal' = gasUsedTotal + r.used
                 /\ block' = Append(block, Head(txs))
            ELSE UNCHANGED <<gasPool, gasUsedTotal, block>>
  /\ txs' = Tail(txs)
  /\ UNCHANGED <<pc, inputVars, yielded, y, filterVars>>

\* the transaction is executed and appended, or rolled back and dropped
AddNext ==
  /\ Adding /\ gasPool >= TxGas /\ txs # <<>>
  /\ LET r == TransitionDb(ibs, gasPool, Head(txs))
     IN  IF r.err = "none"
         THEN /\ ibs' = r.state /\ gasPool' = r.gp
              /\ gasUsedTotal' = gasUsedTotal + r.used
              /\ block' = Append(block, Head(txs))
         ELSE UNCHANGED <<ibs, gasPool, gasUsedTotal, block>>
  /\ txs' = Tail(txs)
  /\ UNCHANGED <<pc, inputVars, yielded, y, filterVars>>

(* The stream is exhausted or the gas is; after a batch of the pool's the   *)
(* stage goes on unless it ran out of gas or the pool out of transactions.  *)
AddDone ==
  /\ Adding /\ (gasPool < TxGas \/ txs = <<>>)
  /\ pc' = IF pc = "add" /\ (gasPool < TxGas \/ y < Amount) THEN "built" ELSE "yield"
  /\ UNCHANGED <<inputVars, yielded, y, filterVars, addVars>>

\* the quit channel is closed: the stage returns an error and the build fails
Quit ==
  /\ Adding
  /\ pc' = "failed"
  /\ UNCHANGED <<inputVars, yielded, y, filterVars, addVars>>

Filter == FilterSkip \/ FilterRotate \/ FilterRefuse \/ FilterAccept \/ FilterDone

MiningExecStage ==
  \/ AddDeposits \/ NoDeposits
  \/ \E b \in Batches : YieldBest(b)
  \/ Filter
  \/ AddNext \/ AddDone
=============================================================================
