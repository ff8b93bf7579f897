\* Two processes at once and no fault at all.
SPECIFICATION Spec
CONSTANTS
  e1 = e1
  e2 = e2
  e3 = e3
  e4 = e4
  w1 = w1
  w2 = w2
  id1 = id1
  id3 = id3
  id4 = id4
  None = None
  Events = {e1, e3}
  MsgId <- MCMsgId
  HasPayload = {e1, e3}
  Writers = {w1, w2}
  MaxDeliver = 5
  MaxFaults = 0
INVARIANT
  ChainVerifies
