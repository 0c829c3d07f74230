SPECIFICATION FairSpec
CONSTANTS
  h1 = h1
  h2 = h2
  Heads = {h1, h2}
  Time <- MCTime
  Timestamps = {1}
  ShanghaiTime = 1
  Callers = {c1, c2}
  MaxBuilders = 1
  MaxPayloads = 2
  NoCaller = NoCaller
INVARIANTS PayloadTypeOK PayloadIsReady KeepsNewestBuilders BuiltOnChosenHead
PROPERTIES PayloadIsFinal Served
