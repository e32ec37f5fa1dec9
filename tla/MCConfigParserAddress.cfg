SPECIFICATION Spec
CONSTANTS
  Blocks <- TwoDisks
  Parent <- Sysfs
  HasDevice = {"sda", "sdb"}
  Entries <- SomeEntries
  AddressTexts <- LackingNumbers
  Unknown = "unknown"
  Empty = Empty
  MaxEntries = 0
  MaxAddresses = 1
INVARIANT OnlyWellFormedAddresses
CHECK_DEADLOCK FALSE
