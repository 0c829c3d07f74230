SPECIFICATION Spec
CONSTANTS
  c1 = c1  c2 = c2
  g = g  a1 = a1  a2 = a2  b1 = b1
  None = None
  Genesis = g
  Blocks <- FourBlocks
  Parent <- TwoBranches
  Height <- BlockNumber
  Chain <- Ancestors
  Payloads <- PayloadsA2B1
  ForkChoices <- ChoicesA2B1
  Invalid = {a2}
  Callers = {c1}
  MaxRequests = 5
  ShortReorg = 10
  NearHead = 32
  KnownHeadsOnly = FALSE
  FaultKinds = {}
  MaxFaults = 0
  MayStop = FALSE
CHECK_DEADLOCK FALSE
INVARIANTS WaitsOnOneChain FinishedDownloadIsNoticed  
