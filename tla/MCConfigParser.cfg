SPECIFICATION Spec
CONSTANTS
  Blocks <- TwoDisks
  Parent <- Sysfs
  HasDevice = {"sda", "sdb"}
  Entries <- SomeEntries
  AddressTexts <- SomeAddresses
  Unknown = "unknown"
  Empty = Empty
  MaxEntries = 2
  MaxAddresses = 2
INVARIANT IInv TableMatchesMachine RightDisks RightAddresses
CHECK_DEADLOCK FALSE
