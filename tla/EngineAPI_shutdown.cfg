SPECIFICATION FairSpec
CONSTANTS
  c1 = c1  c2 = c2
  g = g  a1 = a1  a2 = a2  b1 = b1
  None = None
  Genesis = g
  Blocks <- FourBlocks
  Parent <- TwoBranches
  Height <- BlockNumber
  Chain <- Ancestors
  Payloads <- PayloadA2
  ForkChoices <- DownloadedHeads
  Invalid = {}
  Callers = {c1}
  MaxRequests = 2
  ShortReorg = 10
  NearHead = 32
  KnownHeadsOnly = FALSE
  FaultKinds = {"stage", "parentRead", "forkchoice", "commit"}
  MaxFaults = 1
  MayStop = TRUE
CHECK_DEADLOCK FALSE
PROPERTIES StopsWhenCancelled Answered
