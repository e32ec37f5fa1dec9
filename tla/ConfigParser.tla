---------------------------- MODULE ConfigParser ----------------------------
(***************************************************************************)
(* The start of the program: main loads the partition table,               *)
(* ConfigParser::loadConfigs turns the configuration file into the lists   *)
(* of disks and of addresses that the manager is given, then monitoring    *)
(* begins or the program ends.  (The wake times are in WakeTime, the       *)
(* timers are taken as they are.)                                          *)
(***************************************************************************)
EXTENDS PartitionTable

CONSTANTS
  Entries,       \* [[devices_to_monitor.disks]]: the block of the uuid, the
                 \* name and two options
  AddressTexts,  \* fields of ips_to_watch: host and port, lists of their parts
  Unknown,       \* a uuid or a name that is not given or of no block
  Empty,         \* a part of an address that is not there
  MaxEntries, MaxAddresses   \* bounds: the lengths of the two lists

DEFAULT_PORT == 0
MAX_PART == 255
MAX_PORT == 65535

ASSUME ConfigParserAssumption ==
  /\ Unknown \notin Blocks
  /\ Empty \notin Nat
  /\ Entries \subseteq [uuid : Blocks \union {Unknown},
                        name : Blocks \union {Unknown},
                        suspendIfIdle : BOOLEAN, spinDown : BOOLEAN]
  /\ AddressTexts \subseteq [host : Seq(Nat \union {Empty}),
                             ports : Seq(Nat \union {Empty})]
  /\ MaxEntries \in Nat
  /\ MaxAddresses \in Nat

VARIABLES
  allDisks,            \* all_disks of the file
  entries, addresses,  \* the two lists in the file
  pc,                  \* "table", "disks", "addresses", "convert", then
                       \* "monitoring", "quit" or "aborted"
  i,                   \* the index of the loop it is in
  disksToMonitor,      \* the disks to monitor, with their options
  ipToWatch,           \* the addresses that are valid
  ipAddressesToWatch   \* the same, split into host and port

fileVars == <<allDisks, entries, addresses>>
listVars == <<disksToMonitor, ipToWatch, ipAddressesToWatch>>
vars == <<tableVars, fileVars, pc, i, listVars>>

DiskCfgs == [diskName : Blocks, suspendIfIdle : BOOLEAN, spinDown : BOOLEAN]
IpCfgs == [ipAddress : Seq(Nat \union {Empty}), port : Nat]

TypeOK ==
  /\ TableTypeOK
  /\ allDisks \in BOOLEAN
  /\ entries \in Seq(Entries)
  /\ addresses \in Seq(AddressTexts)
  /\ pc \in {"table", "disks", "addresses", "convert",
              "monitoring", "quit", "aborted"}
  /\ i \in Nat \ {0}
  /\ disksToMonitor \in Seq(DiskCfgs)
  /\ ipToWatch \in Seq(AddressTexts)
  /\ ipAddressesToWatch \in Seq(IpCfgs)

Init ==
  /\ TableInit
  /\ allDisks \in BOOLEAN
  /\ \E n \in 0 .. MaxEntries : entries \in [1 .. n -> Entries]
  /\ \E n \in 0 .. MaxAddresses : addresses \in [1 .. n -> AddressTexts]
  /\ pc = "table"
  /\ i = 1
  /\ disksToMonitor = <<>>
  /\ ipToWatch = <<>>
  /\ ipAddressesToWatch = <<>>

GoTo(place) == pc' = place /\ i' = 1

-----------------------------------------------------------------------------
BuildTable ==
  /\ pc = "table"
  /\ LoadPartitionTable
  /\ UNCHANGED <<fileVars, pc, i, listVars>>

\* toml::parse_file throws: main prints and returns.
ParseFailed ==
  /\ pc = "table"
  /\ Loaded
  /\ GoTo("quit")
  /\ UNCHANGED <<tableVars, fileVars, listVars>>

\* getAllDisksToMonitor, with the default options; the entries are not read.
MonitorAllDisks ==
  /\ pc = "table"
  /\ Loaded
  /\ allDisks
  /\ \E list \in [1 .. Cardinality(GetAllDisks) -> GetAllDisks] :
       /\ Range(list) = GetAllDisks
       /\ disksToMonitor' =
            [k \in DOMAIN list |->
               [diskName |-> list[k], suspendIfIdle |-> TRUE, spinDown |-> FALSE]]
  /\ GoTo("addresses")
  /\ UNCHANGED <<tableVars, fileVars, ipToWatch, ipAddressesToWatch>>

ReadEntries ==
  /\ pc = "table"
  /\ Loaded
  /\ ~allDisks
  /\ GoTo("disks")
  /\ UNCHANGED <<tableVars, fileVars, listVars>>

\* uuidToDiskName: does the link of this uuid lead to a block of the machine?
UuidToDiskName(uuid) == uuid \in Range(allValidBlocks)

ConfiguredName(entry) == IF UuidToDiskName(entry.uuid) THEN entry.uuid ELSE entry.name

\* validateDisk: the disk to monitor for this entry, or none.
ValidDisks(entry) ==
  LET name == ConfiguredName(entry)
      disks == IF DiskOf(name) # {} THEN DiskOf(name) ELSE {name}
  IN  {disk \in disks : (entry.suspendIfIdle \/ entry.spinDown) /\ IsDiskValid(disk)}

\* A slip: the name of the entry is looked for, before it becomes a disk's.
AlreadyAddedByName(disk) ==
  \E k \in DOMAIN disksToMonitor : disksToMonitor[k].diskName = ConfiguredName(entries[i])

AlreadyAdded(disk) == \E k \in DOMAIN disksToMonitor : disksToMonitor[k].diskName = disk

NextEntry ==
  /\ i' = i + 1
  /\ UNCHANGED <<tableVars, fileVars, pc, ipToWatch, ipAddressesToWatch>>

AddDisk ==
  /\ pc = "disks"
  /\ i <= Len(entries)
  /\ \E disk \in ValidDisks(entries[i]) :
       /\ ~AlreadyAdded(disk)
       /\ disksToMonitor' = Append(disksToMonitor,
            [diskName |-> disk, suspendIfIdle |-> entries[i].suspendIfIdle,
             spinDown |-> entries[i].spinDown])
  /\ NextEntry

SkipDisk ==
  /\ pc = "disks"
  /\ i <= Len(entries)
  /\ \A disk \in ValidDisks(entries[i]) : AlreadyAdded(disk)
  /\ UNCHANGED disksToMonitor
  /\ NextEntry

EndOfEntries ==
  /\ pc = "disks"
  /\ i > Len(entries)
  /\ GoTo("addresses")
  /\ UNCHANGED <<tableVars, fileVars, listVars>>

-----------------------------------------------------------------------------
(* ips_to_watch.                                                           *)

\* strtol of a part: nothing is zero.
Number(part) == IF part = Empty THEN 0 ELSE part

IsValidIpv4Address(host) ==
  Len(host) = 4 /\ \A k \in DOMAIN host : Number(host[k]) <= MAX_PART

IsPortValid(port) == Number(port) <= MAX_PORT

IsValidIpAddress(text) ==
  /\ Len(text.ports) <= 1
  /\ IsValidIpv4Address(text.host)
  /\ \A k \in DOMAIN text.ports : IsPortValid(text.ports[k])

\* A slip: an address that is not valid ends the list.
ValidateAddressOrStop ==
  /\ pc = "addresses"
  /\ i <= Len(addresses)
  /\ IF IsValidIpAddress(addresses[i])
       THEN ipToWatch' = Append(ipToWatch, addresses[i]) /\ i' = i + 1
       ELSE ipToWatch' = ipToWatch /\ i' = Len(addresses) + 1
  /\ UNCHANGED <<tableVars, fileVars, pc, disksToMonitor, ipAddressesToWatch>>

ValidateAddress ==
  /\ pc = "addresses"
  /\ i <= Len(addresses)
  /\ ipToWatch' = IF IsValidIpAddress(addresses[i]) THEN Append(ipToWatch, addresses[i])
                  ELSE ipToWatch
  /\ i' = i + 1
  /\ UNCHANGED <<tableVars, fileVars, pc, disksToMonitor, ipAddressesToWatch>>

EndOfAddresses ==
  /\ pc = "addresses"
  /\ i > Len(addresses)
  /\ GoTo("convert")
  /\ UNCHANGED <<tableVars, fileVars, listVars>>

Watch(port) ==
  /\ ipAddressesToWatch' = Append(ipAddressesToWatch,
                                  [ipAddress |-> ipToWatch[i].host, port |-> port])
  /\ i' = i + 1
  /\ UNCHANGED <<tableVars, fileVars, pc, disksToMonitor, ipToWatch>>

\* A slip: the port is taken as it is.
ConvertAddressUnchecked ==
  /\ pc = "convert"
  /\ i <= Len(ipToWatch)
  /\ \/ ipToWatch[i].ports = <<>> /\ Watch(DEFAULT_PORT)
     \/ ipToWatch[i].ports # <<>> /\ Watch(ipToWatch[i].ports[1])

\* stoi of the port, if there is one.
ConvertAddress ==
  /\ pc = "convert"
  /\ i <= Len(ipToWatch)
  /\ \/ ipToWatch[i].ports = <<>> /\ Watch(DEFAULT_PORT)
     \/ /\ ipToWatch[i].ports \notin {<<>>, <<Empty>>}
        /\ Watch(ipToWatch[i].ports[1])

\* stoi of nothing throws, and nobody catches.
StoiThrows ==
  /\ pc = "convert"
  /\ i <= Len(ipToWatch)
  /\ ipToWatch[i].ports = <<Empty>>
  /\ GoTo("aborted")
  /\ UNCHANGED <<tableVars, fileVars, listVars>>

StartMonitoring ==
  /\ pc = "convert"
  /\ i > Len(ipToWatch)
  /\ GoTo("monitoring")
  /\ UNCHANGED <<tableVars, fileVars, listVars>>

Next ==
  \/ BuildTable \/ ParseFailed
  \/ MonitorAllDisks \/ ReadEntries \/ AddDisk \/ SkipDisk \/ EndOfEntries
  \/ ValidateAddress \/ EndOfAddresses \/ ConvertAddress \/ StoiThrows \/ StartMonitoring

Spec == Init /\ [][Next]_vars

-----------------------------------------------------------------------------
Monitored(disk) == {k \in DOMAIN disksToMonitor : disksToMonitor[k].diskName = disk}

\* An entry means a disk of the machine by its name or by a partition's, if
\* the disk does not head the list.
Means(entry, disk) ==
  LET name == ConfiguredName(entry)
  IN  /\ IsDisk(disk)
      /\ \/ name = disk
         \/ name \in Range(allValidBlocks) /\ Parent[name] = disk /\ ~IsFirst(disk)

(* Monitoring begins with the right disks (ConfigParser::loadConfigs,      *)
(* addDisk, validateDisk): two threads never watch one disk, no disk is    *)
(* watched for nothing, and every disk that an entry with an option means, *)
(* in whatever way, is watched with the options of the first such entry.   *)
RightDisks ==
  pc \in {"addresses", "convert", "monitoring"} =>
    /\ \A j, k \in DOMAIN disksToMonitor :
         disksToMonitor[j].diskName = disksToMonitor[k].diskName => j = k
    /\ \A k \in DOMAIN disksToMonitor :
         disksToMonitor[k].suspendIfIdle \/ disksToMonitor[k].spinDown
    /\ allDisks => \A disk \in Blocks : IsDisk(disk) => Monitored(disk) # {}
    /\ ~allDisks =>
         \A disk \in Blocks :
           LET meant == {k \in DOMAIN entries :
                           /\ Means(entries[k], disk)
                           /\ entries[k].suspendIfIdle \/ entries[k].spinDown}
           IN  meant # {} =>
                 \E first \in meant : \E k \in Monitored(disk) :
                   /\ \A other \in meant : first <= other
                   /\ disksToMonitor[k].suspendIfIdle = entries[first].suspendIfIdle
                   /\ disksToMonitor[k].spinDown = entries[first].spinDown

\* int.int.int.int or int.int.int.int:int
IsWellFormed(text) ==
  /\ text.host \in [1 .. 4 -> 0 .. MAX_PART]
  /\ text.ports = <<>> \/ text.ports \in [1 .. 1 -> 0 .. MAX_PORT]

\* What is to be watched for a text of the file.
Asked(text) ==
  [ipAddress |-> text.host,
   port |-> IF text.ports = <<>> THEN DEFAULT_PORT ELSE text.ports[1]]

IsIncreasing(from) == \A j, k \in DOMAIN from : j < k => from[j] < from[k]

(* When monitoring begins, every address of the file that is well formed   *)
(* is watched, with its port, in the order of the file and once for each   *)
(* time it is there, whatever else is in the list; and nothing is watched  *)
(* that is not in the file, or has a number out of range (isValidIpAddress,*)
(* parseMultiChoiceArgs, ConfigParser::loadConfigs).                       *)
RightAddresses ==
  pc = "monitoring" =>
    /\ \E from \in [DOMAIN ipAddressesToWatch -> DOMAIN addresses] :
         /\ IsIncreasing(from)
         /\ \A k \in DOMAIN from : ipAddressesToWatch[k] = Asked(addresses[from[k]])
         /\ \A k \in DOMAIN addresses : IsWellFormed(addresses[k]) => k \in Range(from)
    /\ \A k \in DOMAIN ipAddressesToWatch :
         /\ ipAddressesToWatch[k].port <= MAX_PORT
         /\ \A part \in Range(ipAddressesToWatch[k].ipAddress) \ {Empty} : part <= MAX_PART

(* No address is let through that the program cannot use: isValidIpAddress *)
(* is to "make sure that ipAddress is of format 'int.int.int.int' or       *)
(* 'int.int.int.int:int'", and what ConfigParser::loadConfigs does with    *)
(* the port relies on it.                                                  *)
OnlyWellFormedAddresses ==
  pc \in {"monitoring", "aborted"} =>
    \A k \in DOMAIN ipToWatch : IsWellFormed(ipToWatch[k])

-----------------------------------------------------------------------------
(* The inductive form.                                                     *)

\* The entries that have been read, and those of them that a disk is monitored for.
Read == IF pc = "disks" THEN 1 .. (i - 1) ELSE 1 .. Len(entries)
Wanted(disk) == {k \in Read : disk \in ValidDisks(entries[k])}

\* The first of the entries decides.
AsWanted(disk) ==
  /\ Monitored(disk) # {} => Wanted(disk) # {}
  /\ Wanted(disk) # {} =>
       \E first \in Wanted(disk) : \E k \in Monitored(disk) :
         /\ \A other \in Wanted(disk) : first <= other
         /\ disksToMonitor[k].suspendIfIdle = entries[first].suspendIfIdle
         /\ disksToMonitor[k].spinDown = entries[first].spinDown

DisksInv ==
  /\ pc # "table" => Loaded
  /\ pc = "table" => disksToMonitor = <<>>
  /\ pc = "disks" => ~allDisks /\ i <= Len(entries) + 1
  /\ \A j, k \in DOMAIN disksToMonitor :
       disksToMonitor[j].diskName = disksToMonitor[k].diskName => j = k
  /\ \A k \in DOMAIN disksToMonitor :
       disksToMonitor[k].suspendIfIdle \/ disksToMonitor[k].spinDown
  /\ pc \notin {"table", "quit"} =>
       IF allDisks THEN \A disk \in GetAllDisks : Monitored(disk) # {}
                   ELSE \A disk \in Blocks : AsWanted(disk)

\* The addresses that have been validated.
Seen ==
  CASE pc \in {"table", "disks", "quit"} -> {}
    [] pc = "addresses"                  -> 1 .. (i - 1)
    [] OTHER                             -> 1 .. Len(addresses)

\* The valid ones are in ipToWatch, in their order.
ValidInv ==
  /\ pc = "addresses" => i <= Len(addresses) + 1
  /\ \A k \in DOMAIN ipToWatch : IsValidIpAddress(ipToWatch[k])
  /\ \E from \in [DOMAIN ipToWatch -> Seen] :
       /\ IsIncreasing(from)
       /\ \A k \in DOMAIN from : ipToWatch[k] = addresses[from[k]]
       /\ \A k \in Seen : IsValidIpAddress(addresses[k]) => k \in Range(from)

\* And those of them that were converted in ipAddressesToWatch.
WatchInv ==
  /\ Len(ipAddressesToWatch) <= Len(ipToWatch)
  /\ pc \in {"table", "disks", "addresses"} => ipAddressesToWatch = <<>>
  /\ pc = "convert" => Len(ipAddressesToWatch) = i - 1
  /\ pc = "monitoring" => Len(ipAddressesToWatch) = Len(ipToWatch)
  /\ \A k \in DOMAIN ipAddressesToWatch :
       /\ ipToWatch[k].ports # <<Empty>>
       /\ ipAddressesToWatch[k] = Asked(ipToWatch[k])
  /\ pc = "aborted" => \E k \in DOMAIN addresses : addresses[k].ports = <<Empty>>

IInv == TypeOK /\ TableInv /\ DisksInv /\ ValidInv /\ WatchInv

=============================================================================
