SPECIFICATION FairSpec
CONSTANTS
  v2 = v2
  v1 = v1
  Viewers = {v1}
  Outputs <- PromptOutput
  MaxOutput = 6
  Byte <- Bytes_
  Zero <- Padding
  Size = 3
  MaxLine = 3
  MaxChunk = 2
  ChanSize = 1
  EventChanSize = 1
INVARIANTS TypeOK OpenIffSubscribed CloseWaits RingIsWindow ViewersSeeAll
PROPERTIES CloseReturns ViewersLeave
