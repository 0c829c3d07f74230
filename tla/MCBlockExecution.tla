-------------------------- MODULE MCBlockExecution --------------------------
(* Finite instances of BlockExecution.  Gas, fees and balances are small    *)
(* numbers: a transfer costs 2 gas, the base fee is 1.                      *)
EXTENDS BlockExecution

CONSTANTS alice, bob, system, contract, miner

Deposit(from, to, mint, value, gas, used, sys) ==
  [deposit |-> TRUE, system |-> sys, reverts |-> FALSE, from |-> from, to |-> to, nonce |-> 0,
   gas |-> gas, feeCap |-> 0, tip |-> 0, value |-> value, mint |-> mint,
   intrinsic |-> 2, used |-> used]

Transfer(from, to, nonce, value, gas, used, feeCap, tip) ==
  [deposit |-> FALSE, system |-> FALSE, reverts |-> FALSE, from |-> from, to |-> to,
   nonce |-> nonce, gas |-> gas, feeCap |-> feeCap, tip |-> tip, value |-> value, mint |-> 0,
   intrinsic |-> 2, used |-> used]

L1Info    == Deposit(system, contract, 0, 0, 3, 2, TRUE)
Funding   == Deposit(alice, bob, 3, 1, 3, 2, FALSE)
TooPoor   == Deposit(bob, alice, 1, 9, 3, 3, FALSE)      \* cannot transfer its value
TooLittle == Deposit(bob, alice, 2, 0, 1, 0, FALSE)      \* below the intrinsic gas

Alice0 == Transfer(alice, bob, 0, 1, 3, 2, 2, 1)
Alice1 == Transfer(alice, bob, 1, 0, 2, 2, 1, 1)
Alice2 == [Transfer(alice, bob, 2, 2, 3, 3, 1, 0) EXCEPT !.reverts = TRUE]
Bob0   == Transfer(bob, alice, 0, 0, 1, 0, 1, 0)         \* below the intrinsic gas
Bob1   == Transfer(bob, miner, 1, 1, 4, 2, 3, 1)
Cheap0 == Transfer(bob, alice, 0, 0, 2, 2, 0, 0)         \* no fee at all
Code0  == Transfer(contract, alice, 0, 0, 2, 2, 1, 0)

MCParentStates ==
  {[nonce |-> [a \in Accounts |-> 0],
    balance |-> [a \in Accounts |-> IF a = alice THEN n ELSE IF a = bob THEN 4 ELSE 0]] : n \in {8, 16}}

MCDepositLists ==
  {<<>>, <<L1Info>>, <<L1Info, Funding>>, <<TooLittle, TooPoor>>, <<L1Info, TooPoor, Funding>>}
MCPools == {{Alice0, Alice1, Alice2, Bob0, Bob1}, {Alice0, Alice1, Cheap0, Bob1, Code0}}

\* deposits that use more gas than the block has
LargeDepositLists == {<<L1Info, Deposit(alice, bob, 3, 1, 9, 8, FALSE)>>}
=============================================================================
