SPECIFICATION IcmSpec
CONSTANTS
  ImageSize = 7
  LoadStart = 2
  MemBankSize = 4
  PacketSize = 4
  MaxSamples = 5
  ResetThreshold = 10
INVARIANTS IcmTypeOK BankRight DmpHasFirmware StartedDelivers NoLostWakeup SentOnce
PROPERTY FramedUnlessCut
