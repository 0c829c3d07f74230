SPECIFICATION FairSpec
CONSTANTS
  alice = alice
  bob = bob
  system = system
  contract = contract
  miner = miner
  Accounts = {alice, bob, system, contract, miner}
  Coinbase = miner
  HasCode = {contract}
  BaseFee = 1
  GasLimit = 9
  TxGas = 2
  Uint64 = 64
  Amount = 3
  ParentStates <- MCParentStates
  DepositLists <- MCDepositLists
  Pools <- MCPools
INVARIANTS BlockTypeOK BuiltBlockIsValid DepositsComeFirst GasAccounted NothingEligibleIsLeft SimulationIsCautious
PROPERTIES SupplyIsAccounted BuildEnds
CHECK_DEADLOCK FALSE
