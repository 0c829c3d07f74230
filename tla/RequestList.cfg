SPECIFICATION RLFairSpec
CONSTANTS
  c1 = c1  c2 = c2  p1 = p1  f1 = f1
  Payloads = {p1}
  ForkChoices = {f1}
  Callers = {c1, c2}
  MaxRequests = 3
INVARIANTS RLTypeOK NoLostWakeup NoLostSignal
PROPERTIES WaitEnds
