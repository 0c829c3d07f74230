-------------------------- MODULE StateTransition --------------------------
(***************************************************************************)
(* Applying one transaction to the state: core/state_transition.go and     *)
(* core/state_processor.go, with the deposit transactions of this fork.    *)
(*                                                                         *)
(* The state holds nonces and balances.  The EVM is abstracted to what a   *)
(* transaction says of its run: the gas it uses (`used`, refunds counted)  *)
(* and whether it reverts.  Errors are the ones that keep a transaction    *)
(* out of a block; a reverted run is not an error.                         *)
(***************************************************************************)
EXTENDS Integers, FiniteSetsExt

CONSTANTS
  Accounts,
  Coinbase,     \* fee recipient, one of Accounts
  HasCode,      \* accounts with code: not EOAs (EIP-3607)
  BaseFee       \* base fee of the block

ASSUME StateTransitionAssumption ==
  Coinbase \in Accounts /\ HasCode \subseteq Accounts /\ BaseFee \in Nat

State == [nonce : [Accounts -> Nat], balance : [Accounts -> Nat]]

(* A transaction.  For a deposit nonce, feeCap and tip are not used: it has *)
(* DepositsNonce and price 0, and `mint` is created for its sender.         *)
IsTx(t) ==
  /\ t.deposit \in BOOLEAN /\ t.system \in BOOLEAN /\ t.reverts \in BOOLEAN
  /\ t.from \in Accounts /\ t.to \in Accounts
  /\ {t.nonce, t.gas, t.feeCap, t.tip, t.value, t.mint, t.intrinsic, t.used} \subseteq Nat
  /\ t.gas >= t.intrinsic => t.intrinsic <= t.used /\ t.used <= t.gas
  /\ ~t.deposit => t.mint = 0

AddBalance(s, a, x) == [s EXCEPT !.balance[a] = @ + x]
SubBalance(s, a, x) == [s EXCEPT !.balance[a] = @ - x]
IncNonce(s, a) == [s EXCEPT !.nonce[a] = @ + 1]

\* GetPrice of the message: a dynamic-fee transaction pays the tip on top of the base fee
gasPrice(t) == IF t.deposit THEN 0 ELSE Min({t.feeCap, t.tip + BaseFee})

CheckEip1559TxGasFeeCap(t) == t.feeCap >= t.tip /\ t.feeCap >= BaseFee

Failure(err, s, gp) == [err |-> err, state |-> s, gp |-> gp, used |-> 0]

\* what buyGas wants the sender to have
MaxCost(t) == t.gas * t.feeCap + t.value

\* mutant: the gas pool is not asked
preCheckNoPool(s, gp, t) ==
  CASE t.deposit                          -> "none"
    [] s.nonce[t.from] < t.nonce          -> "NonceTooHigh"
    [] s.nonce[t.from] > t.nonce          -> "NonceTooLow"
    [] t.from \in HasCode                 -> "SenderNoEOA"
    [] ~CheckEip1559TxGasFeeCap(t)        -> "FeeCap"
    [] s.balance[t.from] < MaxCost(t)     -> "InsufficientFunds"
    [] OTHER                              -> "none"

\* the first check of preCheck and buyGas that fails, or "none"
preCheck(s, gp, t) ==
  CASE t.deposit                          -> "none"
    [] s.nonce[t.from] < t.nonce          -> "NonceTooHigh"
    [] s.nonce[t.from] > t.nonce          -> "NonceTooLow"
    [] t.from \in HasCode                 -> "SenderNoEOA"
    [] ~CheckEip1559TxGasFeeCap(t)        -> "FeeCap"
    [] s.balance[t.from] < MaxCost(t)     -> "InsufficientFunds"
    [] gp < t.gas                         -> "GasLimitReached"
    [] OTHER                              -> "none"

\* gas is bought, from the pool and from the sender; a deposit has it for free
Bought(s, t) == SubBalance(s, t.from, t.gas * gasPrice(t))
PoolAfterBuy(gp, t) == IF t.deposit THEN gp ELSE gp - t.gas

\* evm.Call: the value moves unless the sender lacks it or the run reverts
CanTransfer(s, t) == t.value <= s.balance[t.from]
Call(s, t) ==
  IF CanTransfer(s, t) /\ ~t.reverts
  THEN AddBalance(SubBalance(s, t.from, t.value), t.to, t.value)
  ELSE s

gasUsed(s, t) == IF CanTransfer(s, t) THEN t.used ELSE t.intrinsic

effectiveTip(t) == IF ~t.deposit /\ t.feeCap > BaseFee THEN Min({t.tip, t.feeCap - BaseFee}) ELSE 0

(* refundGas pays the sender back for the gas that is left and returns that *)
(* gas to the block's pool, a deposit's too; the coinbase gets the tip.     *)
refundGas(s, t, used) ==
  AddBalance(AddBalance(s, t.from, (t.gas - used) * gasPrice(t)),
             Coinbase, used * effectiveTip(t))

innerTransitionDb(s, gp, t) ==
  LET check == preCheck(s, gp, t)
      bought == Bought(s, t)
      used == gasUsed(bought, t)
  IN  CASE check # "none"       -> Failure(check, s, gp)
        [] t.gas < t.intrinsic  -> Failure("IntrinsicGas", bought, PoolAfterBuy(gp, t))
        [] OTHER -> [err   |-> "none",
                     state |-> refundGas(Call(IncNonce(bought, t.from), t), t, used),
                     gp    |-> PoolAfterBuy(gp, t) + (t.gas - used),
                     used  |-> used]

\* mutant: a failed deposit is rewound to before its mint
TransitionDbLosesMint(s, gp, t) ==
  LET r == innerTransitionDb(AddBalance(s, t.from, t.mint), gp, t)
  IN  IF r.err \notin {"none", "GasLimitReached"} /\ t.deposit
      THEN [err |-> "none", state |-> IncNonce(s, t.from), gp |-> r.gp,
            used |-> IF t.system THEN 0 ELSE t.gas]
      ELSE r

\* mutant: a failed deposit is an error like any other
TransitionDbNoRescue(s, gp, t) == innerTransitionDb(AddBalance(s, t.from, t.mint), gp, t)

(* A deposit that fails is included all the same: the state is rewound to   *)
(* the mint, its nonce counted, and all its gas recorded as used.           *)
TransitionDb(s, gp, t) ==
  LET minted == AddBalance(s, t.from, t.mint)
      r == innerTransitionDb(minted, gp, t)
  IN  IF r.err \notin {"none", "GasLimitReached"} /\ t.deposit
      THEN [err |-> "none", state |-> IncNonce(minted, t.from), gp |-> r.gp,
            used |-> IF t.system THEN 0 ELSE t.gas]
      ELSE r
=============================================================================
