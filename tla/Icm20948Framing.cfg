SPECIFICATION IcmSpec
CONSTANTS
  ImageSize = 7
  LoadStart = 2
  MemBankSize = 4
  PacketSize = 4
  MaxSamples = 3
  ResetThreshold = 10
INVARIANT PacketsFramed
