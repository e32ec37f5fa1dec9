--------------------------- MODULE MCConfigParser ---------------------------
(***************************************************************************)
(* ConfigParser on a machine with a loop device and two disks of one       *)
(* partition each, whichever of them are there and in whatever order.      *)
(***************************************************************************)
EXTENDS ConfigParser

TwoDisks == {"loop0", "sda", "sda1", "sdb", "sdb1"}

Sysfs == [b \in TwoDisks |-> CASE b = "sda1" -> "sda" [] b = "sdb1" -> "sdb" [] OTHER -> "block"]

Entry(uuid, name, suspendIfIdle, spinDown) ==
  [uuid |-> uuid, name |-> name, suspendIfIdle |-> suspendIfIdle, spinDown |-> spinDown]

SomeEntries ==
  { Entry(Unknown, "sda1", TRUE, FALSE), Entry(Unknown, "sda", FALSE, TRUE),
    Entry("sdb1", "sda", TRUE, TRUE),    Entry(Unknown, "sdb", FALSE, FALSE) }

Address(host, ports) == [host |-> host, ports |-> ports]

SomeAddresses ==
  { Address(<<192, 168, 1, 5>>, <<22>>), Address(<<192, 168, 1, 6>>, <<Empty>>),
    Address(<<10, 0, 256, 1>>, <<80>>),    Address(<<10, 0, 0, 1>>, <<65536>>) }

\* "10..0.255:"
LackingNumbers == { Address(<<10, Empty, 0, 255>>, <<Empty>>) }

=============================================================================
