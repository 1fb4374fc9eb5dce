SPECIFICATION FairSpec
CONSTANTS
  Workers = {w1, w2}
  ChannelSize = 1
  BatchSize = 2
  Setups <- MCSetups
  MaxPackets = 2
  MaxFrames = 1
INVARIANTS
  TypeOK
  PacketsConserved
  QuietAfterReturn
  NoWorkerAbandonsQueue
  NoPanicWithoutNegative
  NeverOverReported
PROPERTIES
  CountersSettle
  StopsAfterCancel
  DrainsAfterFailure
