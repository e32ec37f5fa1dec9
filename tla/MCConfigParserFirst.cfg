SPECIFICATION Spec
CONSTANTS
  Blocks <- TwoDisks
  Parent <- Sysfs
  HasDevice = {"sda", "sdb"}
  Entries <- SomeEntries
  AddressTexts <- SomeAddresses
  Unknown = "unknown"
  Empty = Empty
  MaxEntries = 0
  MaxAddresses = 0
INVARIANT PartitionsFound
CHECK_DEADLOCK FALSE
