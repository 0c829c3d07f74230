SPECIFICATION Spec
CONSTANTS
  alice = alice
  bob = bob
  system = system
  contract = contract
  miner = miner
  Accounts = {alice, bob, system, contract, miner}
  Coinbase = miner
  HasCode = {contract}
  BaseFee = 1
  GasLimit = 9
  TxGas = 2
  Uint64 = 64
  Amount = 2
  ParentStates <- MCParentStates
  DepositLists <- LargeDepositLists
  Pools <- MCPools
INVARIANT BuiltBlockIsValid
CHECK_DEADLOCK FALSE
