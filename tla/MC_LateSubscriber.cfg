SPECIFICATION Spec
CONSTANTS
  v2 = v2
  v1 = v1
  Viewers = {v1}
  Outputs <- ShortOutput
  MaxOutput = 3
  Byte <- Bytes_
  Zero <- Padding
  Size = 2
  MaxLine = 3
  MaxChunk = 2
  ChanSize = 1
  EventChanSize = 1
INVARIANTS ChannelsCloseAtEnd
