SPECIFICATION FairSpec
CONSTANTS
  c1 = c1  c2 = c2
  g = g  a1 = a1  a2 = a2  b1 = b1
  None = None
  Genesis = g
  Blocks <- ThreeBlocks
  Parent <- TwoLeaves
  Height <- BlockNumber
  Chain <- Ancestors
  Payloads <- NoPayloads
  ForkChoices <- Heads
  Invalid = {a1}
  Callers = {c1}
  MaxRequests = 2
  ShortReorg = 10
  NearHead = 32
  KnownHeadsOnly = FALSE
  FaultKinds = {}
  MaxFaults = 0
  MayStop = FALSE
CHECK_DEADLOCK FALSE
PROPERTIES Answered
