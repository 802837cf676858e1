CONSTANTS
  DatabankSize = 5
  NULL = NULL
  Foreign = Foreign
SPECIFICATION BankSpec
INVARIANT BankTypeOK
INVARIANT Partition
INVARIANT Conservation
INVARIANT ReturnGuardExact
