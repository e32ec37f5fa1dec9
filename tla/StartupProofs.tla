---------------------------- MODULE StartupProofs ----------------------------
(***************************************************************************)
(* For every machine and every configuration file: the table is the        *)
(* machine's, and monitoring begins with the disks that the file means.    *)
(***************************************************************************)
EXTENDS ConfigParser, FiniteSetTheorems, SequenceTheorems, TLAPS

\* The blocks of the list, and what it says of a parent that is a block.
LEMMA ListFacts ==
  ASSUME TableTypeOK, KernelOrder(allValidBlocks)
  PROVE  /\ Len(allValidBlocks) \in Nat /\ DOMAIN allValidBlocks = 1 .. Len(allValidBlocks)
         /\ \A k \in 1 .. Len(allValidBlocks) : allValidBlocks[k] \in Blocks
         /\ \A j, k \in 1 .. Len(allValidBlocks) :
              allValidBlocks[j] = allValidBlocks[k] => j = k
         /\ \A k \in 1 .. Len(allValidBlocks) :
              Parent[allValidBlocks[k]] \in Blocks =>
                \E j \in 1 .. (k - 1) : allValidBlocks[j] = Parent[allValidBlocks[k]]
BY DEF TableTypeOK, KernelOrder

\* Where the loop is: at a block that it has not passed.
LEMMA ThisFacts ==
  ASSUME TableTypeOK, KernelOrder(allValidBlocks), Loading, ToNextBlock
  PROVE  /\ block \in 1 .. Len(allValidBlocks) /\ This \in Blocks /\ This \notin Passed
         /\ Passed' = Passed \union {This} /\ Passed \subseteq Blocks
         /\ \A b : IsFirst(b)' = IsFirst(b)
<1>1. block \in 1 .. Len(allValidBlocks) /\ block' = block + 1 /\ allValidBlocks' = allValidBlocks
  BY ListFacts DEF TableTypeOK, Loading, ToNextBlock
<1>2. This \in Blocks /\ This \notin Passed /\ Passed \subseteq Blocks
  BY <1>1, ListFacts DEF This, Passed
<1>3. 1 .. (block' - 1) = (1 .. (block - 1)) \union {block}
  BY <1>1
<1>4. Passed' = Passed \union {This}
  BY <1>1, <1>3 DEF Passed, This
<1> QED
  BY <1>1, <1>2, <1>4 DEF IsFirst

\* The loop finds a parent unless it heads the list or is no block at all.
LEMMA ParentFound ==
  ASSUME TableTypeOK, KernelOrder(allValidBlocks), Loading
  PROVE  /\ IsBlockExists(ParentDisk) => ParentDisk \in Blocks /\ ~IsFirst(ParentDisk)
         /\ ParentDisk \in Blocks /\ ~IsBlockExists(ParentDisk) => IsFirst(ParentDisk)
<1>1. block \in 1 .. Len(allValidBlocks)
  BY ListFacts DEF TableTypeOK, Loading
<1>2. ASSUME IsBlockExists(ParentDisk) PROVE ParentDisk \in Blocks /\ ~IsFirst(ParentDisk)
  BY <1>2, ListFacts DEF IsBlockExists, IsFirst
<1>3. ASSUME ParentDisk \in Blocks, ~IsBlockExists(ParentDisk) PROVE IsFirst(ParentDisk)
  <2>1. PICK j \in 1 .. (block - 1) : allValidBlocks[j] = ParentDisk
    BY <1>1, <1>3, ListFacts DEF ParentDisk, This
  <2>2. j = 1
    BY <1>1, <1>3, <2>1, ListFacts DEF IsBlockExists
  <2> QED
    BY <1>1, <2>1, <2>2 DEF IsFirst
<1> QED
  BY <1>2, <1>3

\* No partition is passed before its disk.
LEMMA NoChildYet ==
  ASSUME TableTypeOK, KernelOrder(allValidBlocks), Loading, ToNextBlock,
         NEW b \in Passed'
  PROVE  Parent[b] # This
<1>1. block \in 1 .. Len(allValidBlocks) /\ block' = block + 1 /\ allValidBlocks' = allValidBlocks
  BY ListFacts DEF TableTypeOK, Loading, ToNextBlock
<1>2. PICK k \in 1 .. block : b = allValidBlocks[k]
  BY <1>1 DEF Passed
<1>3. ASSUME Parent[b] = This PROVE FALSE
  <2>1. PICK j \in 1 .. (k - 1) : allValidBlocks[j] = allValidBlocks[block]
    BY <1>1, <1>2, <1>3, ListFacts DEF This
  <2> QED
    BY <1>1, <1>2, <2>1, ListFacts
<1> QED
  BY <1>3

-----------------------------------------------------------------------------
\* A partition joins the list of its disk.
LEMMA InsertPartitionOK ==
  ASSUME TableTypeOK, TableInv, InsertPartition
  PROVE  TableTypeOK' /\ TableInv'
<1> USE DEF InsertPartition
<1>1. KernelOrder(allValidBlocks) /\ allValidBlocks' = allValidBlocks
  BY DEF TableInv, ToNextBlock
<1>2. /\ block \in 1 .. Len(allValidBlocks) /\ This \in Blocks /\ This \notin Passed
      /\ Passed' = Passed \union {This} /\ \A b : IsFirst(b)' = IsFirst(b)
  BY <1>1, ThisFacts
<1>3. ParentDisk \in Blocks /\ ~IsFirst(ParentDisk) /\ This \notin HasDevice
  BY <1>1, <1>2, ParentFound, PartitionTableAssumption DEF ParentDisk
<1>4. DOMAIN partitionTable' = DOMAIN partitionTable
  OBVIOUS
<1>5. ASSUME NEW disk \in DOMAIN partitionTable, disk # ParentDisk
      PROVE  partitionTable'[disk] = partitionTable[disk] /\ disk # Parent[This]
  BY <1>5 DEF ParentDisk
<1>6. ASSUME ParentDisk \in DOMAIN partitionTable
      PROVE  /\ partitionTable'[ParentDisk] \in Seq(Blocks)
             /\ Range(partitionTable'[ParentDisk]) =
                  Range(partitionTable[ParentDisk]) \union {This}
             /\ IsInjective(partitionTable'[ParentDisk])
  <2> DEFINE list == partitionTable[ParentDisk]
  <2>1. partitionTable'[ParentDisk] = Append(list, This)
    BY <1>6
  <2>2. list \in Seq(Blocks) /\ IsInjective(list) /\ This \notin Range(list)
    BY <1>2, <1>6 DEF TableTypeOK, TableInv
  <2> HIDE DEF list
  <2>3. /\ Append(list, This) \in Seq(Blocks)
        /\ DOMAIN Append(list, This) = DOMAIN list \union {Len(list) + 1}
        /\ \A k \in DOMAIN list : Append(list, This)[k] = list[k]
        /\ Append(list, This)[Len(list) + 1] = This
    BY <1>2, <2>2
  <2>4. Range(Append(list, This)) = Range(list) \union {This}
    BY <2>3 DEF Range
  <2>5. IsInjective(Append(list, This))
    BY <2>2, <2>3 DEF IsInjective, Range
  <2> QED
    BY <2>1, <2>3, <2>4, <2>5 DEF list
<1>7. TableTypeOK'
  <2>1. \A disk \in DOMAIN partitionTable : partitionTable'[disk] \in Seq(Blocks)
    BY <1>5, <1>6 DEF TableTypeOK
  <2>2. block' \in 1 .. (Len(allValidBlocks') + 1)
    BY <1>1, <1>2 DEF ToNextBlock
  <2> QED
    BY <1>1, <1>4, <2>1, <2>2 DEF TableTypeOK
<1>8. DOMAIN partitionTable' = Passed' \intersect HasDevice
  BY <1>2, <1>3, <1>4 DEF TableInv
<1>9. ASSUME NEW disk \in DOMAIN partitionTable
      PROVE  /\ Range(partitionTable'[disk]) =
                  {b \in Passed' : Parent[b] = disk /\ ~IsFirst(disk)}
             /\ IsInjective(partitionTable'[disk])
  <2>1. CASE disk = ParentDisk
    BY <1>2, <1>3, <1>6, <2>1 DEF TableInv, ParentDisk
  <2>2. CASE disk # ParentDisk
    BY <1>2, <1>5, <2>2 DEF TableInv
  <2> QED
    BY <2>1, <2>2
<1> QED
  BY <1>1, <1>2, <1>4, <1>7, <1>8, <1>9 DEF TableInv

\* A disk is entered with no partition.
LEMMA InsertDiskOK ==
  ASSUME TableTypeOK, TableInv, InsertDisk
  PROVE  TableTypeOK' /\ TableInv'
<1> USE DEF InsertDisk, IsRealDisk
<1>1. KernelOrder(allValidBlocks) /\ allValidBlocks' = allValidBlocks
  BY DEF TableInv, ToNextBlock
<1>2. /\ block \in 1 .. Len(allValidBlocks) /\ This \in Blocks /\ This \notin Passed
      /\ Passed' = Passed \union {This} /\ \A b : IsFirst(b)' = IsFirst(b)
  BY <1>1, ThisFacts
<1>3. This \notin DOMAIN partitionTable /\ Parent[This] \notin Blocks
  BY <1>2, PartitionTableAssumption DEF TableInv
<1>4. /\ DOMAIN partitionTable' = DOMAIN partitionTable \union {This}
      /\ partitionTable'[This] = <<>>
      /\ \A disk \in DOMAIN partitionTable : partitionTable'[disk] = partitionTable[disk]
  BY <1>3 DEF WithDisk
<1>5. TableTypeOK'
  <2>1. block' \in 1 .. (Len(allValidBlocks') + 1)
    BY <1>1, <1>2 DEF ToNextBlock
  <2>2. ASSUME NEW disk \in DOMAIN partitionTable' PROVE partitionTable'[disk] \in Seq(Blocks)
    <3>1. CASE disk = This
      BY <1>4, <3>1, EmptySeq
    <3>2. CASE disk # This
      BY <1>4, <3>2 DEF TableTypeOK
    <3> QED
      BY <3>1, <3>2
  <2> QED
    BY <1>1, <1>2, <1>4, <2>1, <2>2 DEF TableTypeOK
<1>6. DOMAIN partitionTable' = Passed' \intersect HasDevice
  BY <1>2, <1>4 DEF TableInv
<1>7. ASSUME NEW disk \in DOMAIN partitionTable'
      PROVE  /\ Range(partitionTable'[disk]) =
                  {b \in Passed' : Parent[b] = disk /\ ~IsFirst(disk)}
             /\ IsInjective(partitionTable'[disk])
  <2>1. CASE disk = This
    <3>1. \A b \in Passed' : Parent[b] # This
      BY <1>1, NoChildYet
    <3> QED
      BY <1>4, <2>1, <3>1 DEF Range, IsInjective
  <2>2. CASE disk # This
    BY <1>2, <1>3, <1>4, <2>2 DEF TableInv, TableTypeOK
  <2> QED
    BY <2>1, <2>2
<1> QED
  BY <1>1, <1>2, <1>5, <1>6, <1>7 DEF TableInv

\* A block that is neither: at most a partition of the first disk.
LEMMA SkipBlockOK ==
  ASSUME TableTypeOK, TableInv, SkipBlock
  PROVE  TableTypeOK' /\ TableInv'
<1> USE DEF SkipBlock, IsRealDisk
<1>1. KernelOrder(allValidBlocks) /\ allValidBlocks' = allValidBlocks
  BY DEF TableInv, ToNextBlock
<1>2. /\ block \in 1 .. Len(allValidBlocks) /\ This \in Blocks /\ This \notin Passed
      /\ Passed' = Passed \union {This} /\ \A b : IsFirst(b)' = IsFirst(b)
  BY <1>1, ThisFacts
<1>3. TableTypeOK'
  BY <1>1, <1>2 DEF TableTypeOK, ToNextBlock
<1>4. ASSUME NEW disk \in DOMAIN partitionTable PROVE Parent[This] = disk => IsFirst(disk)
  BY <1>1, ParentFound DEF ParentDisk, TableTypeOK
<1>5. DOMAIN partitionTable' = Passed' \intersect HasDevice
  BY <1>2 DEF TableInv
<1>6. ASSUME NEW disk \in DOMAIN partitionTable
      PROVE  /\ Range(partitionTable'[disk]) =
                  {b \in Passed' : Parent[b] = disk /\ ~IsFirst(disk)}
             /\ IsInjective(partitionTable'[disk])
  BY <1>2, <1>4 DEF TableInv
<1> QED
  BY <1>1, <1>2, <1>3, <1>5, <1>6 DEF TableInv

LEMMA TableStep ==
  ASSUME TableTypeOK, TableInv, [LoadPartitionTable]_tableVars
  PROVE  TableTypeOK' /\ TableInv'
<1>1. CASE UNCHANGED tableVars
  <2> USE <1>1 DEF tableVars
  <2>1. Passed' = Passed /\ \A b : IsFirst(b)' = IsFirst(b)
    BY DEF Passed, IsFirst
  <2>2. KernelOrder(allValidBlocks)'
    BY DEF TableInv, KernelOrder
  <2> QED
    BY <2>1, <2>2 DEF TableTypeOK, TableInv
<1> QED
  BY <1>1, InsertPartitionOK, InsertDiskOK, SkipBlockOK DEF LoadPartitionTable

\* The empty table is the one of no blocks.
LEMMA TableStart == TableInit => TableTypeOK /\ TableInv
<1> SUFFICES ASSUME TableInit PROVE TableTypeOK /\ TableInv
  OBVIOUS
<1>1. Cardinality(Blocks) \in Nat
  BY FS_CardinalityType, PartitionTableAssumption
<1>2. allValidBlocks \in Seq(Blocks) /\ block = 1
  BY <1>1 DEF TableInit
<1>3. Passed = {} /\ DOMAIN partitionTable = {}
  BY <1>2 DEF Passed, TableInit
<1> QED
  BY <1>2, <1>3 DEF TableInit, TableTypeOK, TableInv

\* A loaded table is the machine's.
LEMMA TableIsRight == TableTypeOK /\ TableInv => TableMatchesMachine
<1> SUFFICES ASSUME TableTypeOK, TableInv, Loaded PROVE TableMatchesMachine
  BY DEF TableMatchesMachine
<1>1. Passed = Range(allValidBlocks) /\ Passed \subseteq Blocks
  BY ListFacts DEF TableTypeOK, TableInv, Loaded, Loading, Passed, Range
<1>2. \A b : IsDisk(b) <=> b \in DOMAIN partitionTable
  BY <1>1, PartitionTableAssumption DEF IsDisk, TableInv
<1>3. \A b : DiskOf(b) = {disk \in DOMAIN partitionTable : b \in Range(partitionTable[disk])}
  BY DEF DiskOf, Range
<1>4. DOMAIN partitionTable = {b \in Blocks : IsDisk(b)}
  BY <1>2 DEF TableTypeOK
<1>5. ASSUME NEW b \in Range(allValidBlocks)
      PROVE  IF Parent[b] \in Blocks /\ IsDisk(Parent[b]) /\ ~IsFirst(Parent[b])
               THEN DiskOf(b) = {Parent[b]} ELSE DiskOf(b) \subseteq {Parent[b]}
  BY <1>1, <1>2, <1>3, <1>5 DEF TableInv
<1> QED
  BY <1>4, <1>5 DEF TableMatchesMachine, TableInv

-----------------------------------------------------------------------------
(* The lists of the configuration have their types.                        *)

\* No entry is monitored under two names, and only under a disk's.
LEMMA ValidDiskType ==
  ASSUME TableTypeOK, TableInv, NEW entry
  PROVE  /\ \A disk \in ValidDisks(entry) :
              /\ disk \in GetAllDisks /\ disk \in Blocks
              /\ entry.suspendIfIdle \/ entry.spinDown
         /\ \A one, other \in ValidDisks(entry) : one = other
<1>1. \A one, other \in DiskOf(ConfiguredName(entry)) : one = other
  BY DEF DiskOf, TableInv, Range
<1> QED
  BY <1>1 DEF ValidDisks, IsDiskValid, GetAllDisks, TableTypeOK

LEMMA AddDiskType ==
  ASSUME TypeOK, TableInv, AddDisk
  PROVE  TypeOK'
<1>1. /\ i \in 1 .. Len(entries) /\ entries[i] \in Entries
      /\ i' \in Nat \ {0}
  BY DEF AddDisk, NextEntry, TypeOK
<1>2. PICK disk \in ValidDisks(entries[i]) :
        disksToMonitor' = Append(disksToMonitor,
          [diskName |-> disk, suspendIfIdle |-> entries[i].suspendIfIdle,
           spinDown |-> entries[i].spinDown])
  BY DEF AddDisk
<1>3. [diskName |-> disk, suspendIfIdle |-> entries[i].suspendIfIdle,
       spinDown |-> entries[i].spinDown] \in DiskCfgs
  BY <1>1, ValidDiskType, ConfigParserAssumption DEF DiskCfgs, TypeOK
<1>4. disksToMonitor' \in Seq(DiskCfgs)
  BY <1>2, <1>3 DEF TypeOK
<1> QED
  BY <1>1, <1>4 DEF AddDisk, NextEntry, TypeOK, TableTypeOK, tableVars, fileVars

\* The list of all disks has each of them once.
LEMMA AllDisksOnce ==
  ASSUME TypeOK, MonitorAllDisks
  PROVE  /\ disksToMonitor' \in Seq(DiskCfgs)
         /\ \A j, k \in DOMAIN disksToMonitor' :
              disksToMonitor'[j].diskName = disksToMonitor'[k].diskName => j = k
         /\ \A k \in DOMAIN disksToMonitor' : disksToMonitor'[k].suspendIfIdle
         /\ \A disk \in GetAllDisks :
              \E k \in DOMAIN disksToMonitor' : disksToMonitor'[k].diskName = disk
<1> DEFINE size == Cardinality(GetAllDisks)
<1>1. IsFiniteSet(GetAllDisks) /\ GetAllDisks \subseteq Blocks
  BY FS_Subset, PartitionTableAssumption DEF TypeOK, TableTypeOK, GetAllDisks
<1>2. size \in Nat /\ IsFiniteSet(1 .. size) /\ Cardinality(1 .. size) = size
  BY <1>1, FS_CardinalityType, FS_Interval
<1> HIDE DEF size
<1>3. PICK list \in [1 .. size -> GetAllDisks] :
        /\ Range(list) = GetAllDisks
        /\ disksToMonitor' =
             [k \in DOMAIN list |->
                [diskName |-> list[k], suspendIfIdle |-> TRUE, spinDown |-> FALSE]]
  BY DEF MonitorAllDisks, size
<1>4. list \in Surjection(1 .. size, GetAllDisks)
  BY <1>3 DEF Surjection, Range
<1>5. IsInjective(list)
  BY <1>1, <1>2, <1>4, FS_SurjSameCardinalityImpliesInj DEF size, Injection
<1>6. disksToMonitor' \in [1 .. size -> DiskCfgs]
  BY <1>1, <1>3 DEF DiskCfgs
<1>7. disksToMonitor' \in Seq(DiskCfgs)
  BY <1>2, <1>6
<1> QED
  BY <1>3, <1>5, <1>7 DEF IsInjective, Range

\* A list of at most one part, if not of none.
LEMMA OnePart ==
  ASSUME NEW S, NEW list \in Seq(S), Len(list) <= 1, list # <<>>
  PROVE  Len(list) = 1 /\ 1 \in DOMAIN list /\ list[1] \in S
<1>1. Len(list) \in Nat \ {0}
  BY EmptySeq
<1>2. Len(list) = 1
  BY <1>1
<1> QED
  BY <1>2, LenProperties

\* An address that is valid has at most one port, a number if not nothing.
LEMMA WatchType ==
  ASSUME TypeOK, ValidInv, ConvertAddress
  PROVE  TypeOK'
<1>1. /\ i \in 1 .. Len(ipToWatch) /\ ipToWatch[i] \in AddressTexts
      /\ i + 1 \in Nat \ {0}
  BY DEF ConvertAddress, TypeOK
<1>2. /\ ipToWatch[i].host \in Seq(Nat \union {Empty})
      /\ ipToWatch[i].ports \in Seq(Nat \union {Empty})
      /\ Len(ipToWatch[i].ports) <= 1
  BY <1>1, ConfigParserAssumption DEF ValidInv, IsValidIpAddress, TypeOK
<1>3. ASSUME NEW port \in Nat, Watch(port) PROVE TypeOK'
  <2>1. [ipAddress |-> ipToWatch[i].host, port |-> port] \in IpCfgs
    BY <1>2 DEF IpCfgs
  <2>2. ipAddressesToWatch' \in Seq(IpCfgs)
    BY <1>3, <2>1 DEF Watch, TypeOK
  <2> QED
    BY <1>1, <1>3, <2>2 DEF Watch, TypeOK, TableTypeOK, tableVars, fileVars
<1>4. ASSUME ipToWatch[i].ports \notin {<<>>, <<Empty>>} PROVE ipToWatch[i].ports[1] \in Nat
  <2> DEFINE ports == ipToWatch[i].ports
  <2> HIDE DEF ports
  <2>1. ports \in Seq(Nat \union {Empty}) /\ Len(ports) <= 1 /\ ports # <<>> /\ ports # <<Empty>>
    BY <1>2, <1>4 DEF ports
  <2>2. Len(ports) = 1 /\ ports[1] \in Nat \union {Empty}
    BY <2>1, OnePart
  <2>3. ports[1] # Empty
    BY <2>1, <2>2
  <2> QED
    BY <2>2, <2>3 DEF ports
<1> QED
  BY <1>3, <1>4 DEF ConvertAddress, DEFAULT_PORT

LEMMA TypeStep ==
  ASSUME TypeOK, TableInv, ValidInv, [Next]_vars
  PROVE  TypeOK'
<1>1. CASE BuildTable
  <2>1. TableTypeOK'
    BY <1>1, TableStep DEF BuildTable, TypeOK
  <2> QED
    BY <1>1, <2>1 DEF BuildTable, TypeOK, fileVars, listVars
<1>2. CASE MonitorAllDisks
  <2>1. disksToMonitor' \in Seq(DiskCfgs)
    BY <1>2, AllDisksOnce
  <2> QED
    BY <1>2, <2>1 DEF MonitorAllDisks, GoTo, TypeOK, TableTypeOK, tableVars, fileVars
<1>3. CASE ValidateAddress
  <2>1. i \in 1 .. Len(addresses) /\ addresses[i] \in AddressTexts /\ i + 1 \in Nat \ {0}
    BY <1>3 DEF ValidateAddress, TypeOK
  <2>2. ipToWatch' \in Seq(AddressTexts)
    BY <1>3, <2>1 DEF ValidateAddress, TypeOK
  <2> QED
    BY <1>3, <2>1, <2>2 DEF ValidateAddress, TypeOK, TableTypeOK, tableVars, fileVars
<1>4. CASE SkipDisk
  BY <1>4 DEF SkipDisk, NextEntry, TypeOK, TableTypeOK, tableVars, fileVars
<1>5. CASE ParseFailed \/ ReadEntries \/ EndOfEntries \/ EndOfAddresses \/ StoiThrows
             \/ StartMonitoring
  BY <1>5 DEF ParseFailed, ReadEntries, EndOfEntries, EndOfAddresses, StoiThrows,
     StartMonitoring, GoTo, TypeOK, TableTypeOK, tableVars, fileVars, listVars
<1>6. CASE UNCHANGED vars
  BY <1>6 DEF vars, TypeOK, TableTypeOK, tableVars, fileVars, listVars
<1> QED
  BY <1>1, <1>2, <1>3, <1>4, <1>5, <1>6, AddDiskType, WatchType DEF Next

-----------------------------------------------------------------------------
(* The disks that are monitored.                                           *)

\* An entry means a disk if and only if that is the valid one.
LEMMA MeansIsValid ==
  ASSUME TableTypeOK, TableInv, Loaded, NEW entry, NEW disk \in Blocks
  PROVE  Means(entry, disk) /\ (entry.suspendIfIdle \/ entry.spinDown)
           <=> disk \in ValidDisks(entry)
<1> DEFINE name == ConfiguredName(entry)
           parents == {d \in GetAllDisks : name \in Passed /\ Parent[name] = d /\ ~IsFirst(d)}
<1>1. Passed = Range(allValidBlocks) /\ Passed \subseteq Blocks
  BY ListFacts DEF TableTypeOK, TableInv, Loaded, Loading, Passed, Range
<1>2. \A b : IsDisk(b) <=> b \in GetAllDisks
  BY <1>1, PartitionTableAssumption DEF IsDisk, TableInv, GetAllDisks
<1>3. DiskOf(name) = parents
  BY DEF DiskOf, Range, TableInv, GetAllDisks
<1>4. ValidDisks(entry) =
        {d \in (IF parents # {} THEN parents ELSE {name}) :
           (entry.suspendIfIdle \/ entry.spinDown) /\ d \in GetAllDisks}
  BY <1>3 DEF ValidDisks, IsDiskValid, GetAllDisks
<1>5. Means(entry, disk) <=>
        disk \in GetAllDisks /\ (name = disk \/ disk \in parents)
  BY <1>1, <1>2 DEF Means
<1>6. parents # {} => name \notin GetAllDisks
  BY <1>2 DEF IsDisk, GetAllDisks, TableTypeOK
<1> HIDE DEF name, parents
<1> QED
  BY <1>4, <1>5, <1>6

\* What the entries come to depends on the table only.
LEMMA ValidDisksKept ==
  ASSUME UNCHANGED tableVars, NEW entry
  PROVE  ValidDisks(entry)' = ValidDisks(entry) /\ GetAllDisks' = GetAllDisks /\ Loaded' = Loaded
BY DEF tableVars, ValidDisks, ConfiguredName, UuidToDiskName, DiskOf, IsDiskValid, GetAllDisks,
   Loaded, Loading

\* A step that touches neither the table, nor the entries read, nor the disks.
LEMMA DisksKept ==
  ASSUME TypeOK, DisksInv, UNCHANGED <<tableVars, fileVars, disksToMonitor>>,
         pc \notin {"table", "quit"}, pc' \notin {"table", "quit", "disks"}, Read' = Read
  PROVE  DisksInv'
<1>1. \A disk : Monitored(disk)' = Monitored(disk)
  BY DEF Monitored
<1>2. \A disk : Wanted(disk)' = Wanted(disk)
  BY ValidDisksKept DEF Wanted, fileVars
<1>3. \A disk : AsWanted(disk)' = AsWanted(disk)
  BY <1>1, <1>2 DEF AsWanted, fileVars
<1> QED
  BY <1>1, <1>3, ValidDisksKept DEF DisksInv, fileVars

LEMMA AllDisksOK ==
  ASSUME TypeOK, DisksInv, MonitorAllDisks
  PROVE  DisksInv'
<1>1. UNCHANGED tableVars /\ allDisks' /\ pc' = "addresses" /\ Loaded
  BY DEF MonitorAllDisks, GoTo, fileVars
<1>2. \A disk \in GetAllDisks' : Monitored(disk)' # {}
  BY <1>1, AllDisksOnce, ValidDisksKept DEF Monitored
<1> QED
  BY <1>1, <1>2, AllDisksOnce, ValidDisksKept DEF DisksInv

\* The entry just read, and those before.
LEMMA ReadOneMore ==
  ASSUME TypeOK, NextEntry, pc = "disks", i <= Len(entries), NEW disk
  PROVE  /\ i \in 1 .. Len(entries) /\ Read = 1 .. (i - 1) /\ Read' = Read \union {i}
         /\ Wanted(disk)' = Wanted(disk) \union {k \in {i} : disk \in ValidDisks(entries[k])}
         /\ Wanted(disk) \subseteq 1 .. (i - 1)
<1>1. i \in 1 .. Len(entries) /\ Read = 1 .. (i - 1) /\ Read' = Read \union {i}
  BY DEF TypeOK, NextEntry, Read
<1>2. UNCHANGED tableVars /\ entries' = entries
  BY DEF NextEntry, fileVars
<1> QED
  BY <1>1, <1>2, ValidDisksKept DEF Wanted

\* An entry adds a disk that no entry before it has added.
LEMMA AddDiskOK ==
  ASSUME TypeOK, TableInv, DisksInv, AddDisk
  PROVE  DisksInv'
<1>1. /\ pc = "disks" /\ pc' = "disks" /\ i <= Len(entries) /\ NextEntry
      /\ ~allDisks /\ ~allDisks' /\ entries' = entries /\ UNCHANGED tableVars /\ i' = i + 1
  BY DEF AddDisk, NextEntry, fileVars, DisksInv
<1>2. PICK disk \in ValidDisks(entries[i]) :
        /\ ~AlreadyAdded(disk)
        /\ disksToMonitor' = Append(disksToMonitor,
             [diskName |-> disk, suspendIfIdle |-> entries[i].suspendIfIdle,
              spinDown |-> entries[i].spinDown])
  BY DEF AddDisk
<1> DEFINE last == Len(disksToMonitor) + 1
<1>3. /\ last \in Nat \ {0}
      /\ DOMAIN disksToMonitor = 1 .. (last - 1) /\ DOMAIN disksToMonitor' = 1 .. last
      /\ \A k \in 1 .. (last - 1) : disksToMonitor'[k] = disksToMonitor[k]
      /\ disksToMonitor'[last] =
           [diskName |-> disk, suspendIfIdle |-> entries[i].suspendIfIdle,
            spinDown |-> entries[i].spinDown]
  BY <1>2 DEF TypeOK
<1> HIDE DEF last
<1>4. /\ disk \in Blocks /\ (entries[i].suspendIfIdle \/ entries[i].spinDown)
      /\ \A other \in ValidDisks(entries[i]) : other = disk
  BY ValidDiskType DEF TypeOK
<1>5. \A k \in 1 .. (last - 1) : disksToMonitor[k].diskName # disk
  BY <1>2, <1>3 DEF AlreadyAdded
<1>6. \A j, k \in DOMAIN disksToMonitor' :
        disksToMonitor'[j].diskName = disksToMonitor'[k].diskName => j = k
  BY <1>3, <1>5 DEF DisksInv
<1>7. \A k \in DOMAIN disksToMonitor' :
        disksToMonitor'[k].suspendIfIdle \/ disksToMonitor'[k].spinDown
  BY <1>3, <1>4 DEF DisksInv
<1>8. AsWanted(disk)'
  <2>1. Monitored(disk) = {} /\ Monitored(disk)' = {last}
    BY <1>3, <1>5 DEF Monitored
  <2>2. Wanted(disk) = {}
    BY <1>1, <1>4, <2>1 DEF DisksInv, AsWanted
  <2>3. Wanted(disk)' = {i} /\ i \in Nat
    BY <1>1, <1>2, <2>2, ReadOneMore
  <2> QED
    BY <1>1, <1>3, <2>1, <2>3 DEF AsWanted
<1>9. ASSUME NEW other \in Blocks, other # disk PROVE AsWanted(other)'
  <2>1. Monitored(other)' = Monitored(other) /\ Monitored(other) \subseteq 1 .. (last - 1)
    BY <1>3, <1>9 DEF Monitored
  <2>2. Wanted(other)' = Wanted(other)
    BY <1>1, <1>4, <1>9, ReadOneMore
  <2> QED
    BY <1>1, <1>3, <2>1, <2>2 DEF AsWanted, DisksInv
<1>10. Loaded'
  BY <1>1, ValidDisksKept DEF DisksInv
<1>11. i' <= Len(entries') + 1
  BY <1>1 DEF TypeOK
<1> QED
  BY <1>1, <1>6, <1>7, <1>8, <1>9, <1>10, <1>11 DEF DisksInv

\* An entry whose disk is there already changes nothing about the first.
LEMMA SkipDiskOK ==
  ASSUME TypeOK, TableInv, DisksInv, SkipDisk
  PROVE  DisksInv'
<1>1. /\ pc = "disks" /\ pc' = "disks" /\ i <= Len(entries) /\ NextEntry
      /\ ~allDisks /\ ~allDisks' /\ entries' = entries /\ UNCHANGED tableVars /\ i' = i + 1
      /\ disksToMonitor' = disksToMonitor
  BY DEF SkipDisk, NextEntry, fileVars, DisksInv
<1>2. ASSUME NEW disk \in Blocks PROVE AsWanted(disk)'
  <2>1. Monitored(disk)' = Monitored(disk) /\ AsWanted(disk)
    BY <1>1 DEF Monitored, DisksInv
  <2>2. CASE disk \in ValidDisks(entries[i])
    <3>1. Monitored(disk) # {}
      BY <2>2 DEF SkipDisk, AlreadyAdded, Monitored
    <3>2. PICK first \in Wanted(disk), k \in Monitored(disk) :
            /\ \A other \in Wanted(disk) : first <= other
            /\ disksToMonitor[k].suspendIfIdle = entries[first].suspendIfIdle
            /\ disksToMonitor[k].spinDown = entries[first].spinDown
      BY <2>1, <3>1 DEF AsWanted
    <3>3. Wanted(disk)' = Wanted(disk) \union {i} /\ first <= i
      BY <1>1, <2>2, ReadOneMore
    <3> QED
      BY <1>1, <2>1, <3>2, <3>3 DEF AsWanted
  <2>3. CASE disk \notin ValidDisks(entries[i])
    <3>1. Wanted(disk)' = Wanted(disk)
      BY <1>1, <2>3, ReadOneMore
    <3> QED
      BY <1>1, <2>1, <3>1 DEF AsWanted
  <2> QED
    BY <2>2, <2>3
<1>3. i' <= Len(entries') + 1
  BY <1>1 DEF TypeOK
<1> QED
  BY <1>1, <1>2, <1>3, ValidDisksKept DEF DisksInv

LEMMA DisksStep ==
  ASSUME TypeOK, TableInv, DisksInv, [Next]_vars
  PROVE  DisksInv'
<1>1. CASE BuildTable
  BY <1>1 DEF BuildTable, DisksInv, listVars
<1>2. CASE ParseFailed
  BY <1>2, ValidDisksKept DEF ParseFailed, GoTo, DisksInv, listVars
<1>3. CASE ReadEntries
  <2>1. pc' = "disks" /\ i' = 1 /\ disksToMonitor' = <<>> /\ ~allDisks' /\ Loaded'
    BY <1>3, ValidDisksKept DEF ReadEntries, GoTo, DisksInv, listVars, fileVars
  <2>2. \A disk : Monitored(disk)' = {} /\ Wanted(disk)' = {}
    BY <2>1 DEF Monitored, Wanted, Read
  <2>3. \A disk : AsWanted(disk)'
    BY <2>2 DEF AsWanted
  <2>4. i' <= Len(entries') + 1
    BY <1>3, <2>1 DEF ReadEntries, fileVars, TypeOK
  <2> QED
    BY <2>1, <2>3, <2>4 DEF DisksInv
<1>4. CASE EndOfEntries
  <2>1. i = Len(entries) + 1 /\ pc = "disks" /\ pc' = "addresses" /\ entries' = entries
    BY <1>4 DEF EndOfEntries, GoTo, DisksInv, TypeOK, fileVars
  <2>2. Read' = Read
    BY <2>1 DEF Read, TypeOK
  <2> QED
    BY <1>4, <2>1, <2>2, DisksKept DEF EndOfEntries, listVars
<1>5. CASE ValidateAddress \/ EndOfAddresses \/ ConvertAddress \/ StoiThrows \/ StartMonitoring
  <2>1. /\ UNCHANGED <<tableVars, fileVars, disksToMonitor>>
        /\ pc \in {"addresses", "convert"}
        /\ pc' \in {"addresses", "convert", "aborted", "monitoring"}
    BY <1>5 DEF ValidateAddress, EndOfAddresses, ConvertAddress, Watch, StoiThrows,
       StartMonitoring, GoTo, listVars
  <2>2. Read' = Read
    BY <2>1 DEF Read, fileVars
  <2> QED
    BY <2>1, <2>2, DisksKept
<1>6. CASE UNCHANGED vars
  <2>1. UNCHANGED <<tableVars, fileVars, pc, i, disksToMonitor>>
    BY <1>6 DEF vars, listVars
  <2>2. \A disk : Monitored(disk)' = Monitored(disk) /\ Wanted(disk)' = Wanted(disk)
    BY <2>1, ValidDisksKept DEF Monitored, Wanted, Read, fileVars
  <2>3. \A disk : AsWanted(disk)' = AsWanted(disk)
    BY <2>1, <2>2 DEF AsWanted, fileVars
  <2> QED
    BY <2>1, <2>2, <2>3, ValidDisksKept DEF DisksInv, fileVars
<1> QED
  BY <1>1, <1>2, <1>3, <1>4, <1>5, <1>6, AllDisksOK, AddDiskOK, SkipDiskOK DEF Next

-----------------------------------------------------------------------------
(* The addresses that are watched.                                         *)

\* A step that validates nothing.
LEMMA ValidKept ==
  ASSUME ValidInv, ipToWatch' = ipToWatch, addresses' = addresses, Seen' = Seen,
         pc' = "addresses" => i' <= Len(addresses') + 1
  PROVE  ValidInv'
BY DEF ValidInv

\* A valid address joins the list, as the last one seen.
LEMMA ValidateOK ==
  ASSUME TypeOK, ValidInv, ValidateAddress
  PROVE  ValidInv'
<1>1. /\ i \in 1 .. Len(addresses) /\ i' = i + 1 /\ pc = "addresses" /\ pc' = "addresses"
      /\ addresses' = addresses
  BY DEF ValidateAddress, TypeOK, fileVars
<1>2. Seen = 1 .. (i - 1) /\ Seen' = 1 .. i /\ i' <= Len(addresses') + 1
  BY <1>1 DEF Seen
<1>3. PICK from \in [DOMAIN ipToWatch -> Seen] :
        /\ IsIncreasing(from)
        /\ \A k \in DOMAIN from : ipToWatch[k] = addresses[from[k]]
        /\ \A k \in Seen : IsValidIpAddress(addresses[k]) => k \in Range(from)
  BY DEF ValidInv
<1>4. CASE IsValidIpAddress(addresses[i])
  <2> DEFINE last == Len(ipToWatch) + 1
             longer == [k \in 1 .. last |-> IF k = last THEN i ELSE from[k]]
  <2>1. /\ last \in Nat \ {0}
        /\ DOMAIN ipToWatch = 1 .. (last - 1) /\ DOMAIN ipToWatch' = 1 .. last
        /\ \A k \in 1 .. (last - 1) : ipToWatch'[k] = ipToWatch[k]
        /\ ipToWatch'[last] = addresses[i]
    BY <1>4 DEF ValidateAddress, TypeOK
  <2> HIDE DEF last
  <2>2. /\ DOMAIN longer = 1 .. last /\ longer[last] = i
        /\ \A k \in 1 .. (last - 1) : longer[k] = from[k] /\ from[k] \in 1 .. (i - 1)
    BY <1>2, <1>3, <2>1
  <2> HIDE DEF longer
  <2>3. longer \in [DOMAIN ipToWatch' -> Seen']
    <3>1. longer = [k \in 1 .. last |-> longer[k]]
      BY <2>2 DEF longer
    <3>2. \A k \in 1 .. last : longer[k] \in 1 .. i
      BY <1>1, <2>1, <2>2
    <3> QED
      BY <1>2, <2>1, <3>1, <3>2
  <2>4. IsIncreasing(longer)
    <3>1. \A j, k \in 1 .. (last - 1) : j < k => from[j] < from[k]
      BY <1>3, <2>1 DEF IsIncreasing
    <3> QED
      BY <1>1, <2>1, <2>2, <3>1 DEF IsIncreasing
  <2>5. \A k \in DOMAIN longer : ipToWatch'[k] = addresses[longer[k]]
    BY <1>3, <2>1, <2>2
  <2>6. ASSUME NEW k \in Seen', IsValidIpAddress(addresses[k]) PROVE k \in Range(longer)
    <3>1. CASE k = i
      BY <2>1, <2>2, <3>1 DEF Range
    <3>2. CASE k # i
      <4>1. k \in Range(from)
        BY <1>1, <1>2, <1>3, <2>6, <3>2
      <4>2. PICK j \in 1 .. (last - 1) : from[j] = k
        BY <1>3, <2>1, <4>1 DEF Range
      <4> QED
        BY <2>1, <2>2, <4>2 DEF Range
    <3> QED
      BY <3>1, <3>2
  <2>7. \A k \in DOMAIN ipToWatch' : IsValidIpAddress(ipToWatch'[k])
    BY <1>4, <2>1 DEF ValidInv
  <2> QED
    BY <1>1, <1>2, <2>3, <2>4, <2>5, <2>6, <2>7 DEF ValidInv
<1>5. CASE ~IsValidIpAddress(addresses[i])
  <2>1. ipToWatch' = ipToWatch
    BY <1>5 DEF ValidateAddress
  <2>2. from \in [DOMAIN ipToWatch' -> Seen']
    BY <1>1, <1>2, <1>3, <2>1
  <2>3. \A k \in Seen' : IsValidIpAddress(addresses[k]) => k \in Range(from)
    BY <1>1, <1>2, <1>3, <1>5
  <2> QED
    BY <1>1, <1>2, <1>3, <2>1, <2>2, <2>3 DEF ValidInv
<1> QED
  BY <1>4, <1>5

LEMMA ValidStep ==
  ASSUME TypeOK, ValidInv, [Next]_vars
  PROVE  ValidInv'
<1>1. CASE BuildTable \/ ParseFailed \/ ReadEntries \/ AddDisk \/ SkipDisk \/ UNCHANGED vars
  <2>1. ipToWatch' = ipToWatch /\ addresses' = addresses /\ Seen' = Seen
    BY <1>1 DEF BuildTable, ParseFailed, ReadEntries, AddDisk, SkipDisk, NextEntry, GoTo, Seen,
       vars, fileVars, listVars
  <2>2. pc' = "addresses" => i' <= Len(addresses') + 1
    BY <1>1 DEF BuildTable, ParseFailed, ReadEntries, AddDisk, SkipDisk, NextEntry, GoTo,
       vars, fileVars, listVars, ValidInv
  <2> QED
    BY <2>1, <2>2, ValidKept
<1>2. CASE MonitorAllDisks \/ EndOfEntries
  <2>1. /\ ipToWatch' = ipToWatch /\ addresses' = addresses /\ Seen = {}
        /\ pc' = "addresses" /\ i' = 1
    BY <1>2 DEF MonitorAllDisks, EndOfEntries, GoTo, Seen, fileVars, listVars
  <2>2. Seen' = {} /\ i' <= Len(addresses') + 1
    BY <2>1 DEF Seen, TypeOK
  <2> QED
    BY <2>1, <2>2, ValidKept
<1>3. CASE EndOfAddresses
  <2>1. /\ ipToWatch' = ipToWatch /\ addresses' = addresses /\ pc = "addresses"
        /\ i = Len(addresses) + 1 /\ pc' = "convert"
    BY <1>3 DEF EndOfAddresses, GoTo, ValidInv, TypeOK, fileVars, listVars
  <2>2. Seen' = Seen
    BY <2>1 DEF Seen, TypeOK
  <2> QED
    BY <2>1, <2>2, ValidKept
<1>4. CASE ConvertAddress \/ StoiThrows \/ StartMonitoring
  <2>1. /\ ipToWatch' = ipToWatch /\ addresses' = addresses
        /\ pc = "convert" /\ pc' \in {"convert", "aborted", "monitoring"}
    BY <1>4 DEF ConvertAddress, Watch, StoiThrows, StartMonitoring, GoTo, fileVars, listVars
  <2>2. Seen' = Seen
    BY <2>1 DEF Seen
  <2> QED
    BY <2>1, <2>2, ValidKept
<1> QED
  BY <1>1, <1>2, <1>3, <1>4, ValidateOK DEF Next

LEMMA WatchStep ==
  ASSUME TypeOK, ValidInv, WatchInv, [Next]_vars
  PROVE  WatchInv'
<1>1. CASE BuildTable \/ ParseFailed \/ ReadEntries \/ MonitorAllDisks \/ AddDisk \/ SkipDisk
             \/ EndOfEntries
  BY <1>1 DEF BuildTable, ParseFailed, ReadEntries, MonitorAllDisks, AddDisk, SkipDisk, NextEntry,
     EndOfEntries, GoTo, WatchInv, fileVars, listVars
<1>2. CASE UNCHANGED vars
  BY <1>2 DEF WatchInv, vars, fileVars, listVars
<1>3. CASE ValidateAddress
  <2>1. pc = "addresses" /\ pc' = "addresses" /\ ipAddressesToWatch = <<>>
        /\ ipAddressesToWatch' = <<>>
    BY <1>3 DEF ValidateAddress, WatchInv
  <2>2. Len(ipToWatch') \in Nat
    <3>1. ipToWatch' \in Seq(AddressTexts)
      BY <1>3 DEF ValidateAddress, TypeOK
    <3> QED
      BY <3>1
  <2> QED
    BY <2>1, <2>2 DEF WatchInv
<1>4. CASE EndOfAddresses
  BY <1>4 DEF EndOfAddresses, GoTo, WatchInv, TypeOK, fileVars, listVars
<1>5. CASE ConvertAddress
  <2>1. /\ i \in Nat \ {0} /\ Len(ipToWatch) \in Nat /\ i <= Len(ipToWatch)
        /\ i' = i + 1 /\ pc = "convert" /\ pc' = "convert" /\ ipToWatch' = ipToWatch
    BY <1>5 DEF ConvertAddress, Watch, TypeOK
  <2>4. ipToWatch[i].ports # <<Empty>>
    <3>1. <<Empty>> # <<>>
      OBVIOUS
    <3> QED
      BY <1>5, <3>1 DEF ConvertAddress
  <2>5. ipAddressesToWatch' = Append(ipAddressesToWatch, Asked(ipToWatch[i]))
    BY <1>5 DEF ConvertAddress, Watch, Asked
  <2>2. /\ Len(ipAddressesToWatch) = i - 1
        /\ DOMAIN ipAddressesToWatch = 1 .. (i - 1)
        /\ Len(ipAddressesToWatch') = i /\ DOMAIN ipAddressesToWatch' = 1 .. i
        /\ \A k \in 1 .. (i - 1) : ipAddressesToWatch'[k] = ipAddressesToWatch[k]
        /\ ipAddressesToWatch'[i] = Asked(ipToWatch[i])
    BY <2>1, <2>5 DEF WatchInv, TypeOK
  <2>3. ASSUME NEW k \in 1 .. i
        PROVE  ipToWatch[k].ports # <<Empty>> /\ ipAddressesToWatch'[k] = Asked(ipToWatch[k])
    <3>1. CASE k = i
      BY <2>2, <2>4, <3>1
    <3>2. CASE k \in 1 .. (i - 1)
      BY <2>1, <2>2, <3>2 DEF WatchInv
    <3> QED
      BY <2>1, <3>1, <3>2
  <2>6. \A k \in DOMAIN ipAddressesToWatch' :
          /\ ipToWatch'[k].ports # <<Empty>>
          /\ ipAddressesToWatch'[k] = Asked(ipToWatch'[k])
    BY <2>1, <2>2, <2>3
  <2>7. Len(ipAddressesToWatch') <= Len(ipToWatch') /\ Len(ipAddressesToWatch') = i' - 1
    BY <2>1, <2>2
  <2> QED
    BY <2>1, <2>6, <2>7 DEF WatchInv
<1>6. CASE StoiThrows
  <2>1. /\ pc = "convert" /\ pc' = "aborted" /\ i \in 1 .. Len(ipToWatch)
        /\ ipToWatch[i].ports = <<Empty>>
        /\ UNCHANGED <<addresses, ipToWatch, ipAddressesToWatch>>
    BY <1>6 DEF StoiThrows, GoTo, TypeOK, fileVars, listVars
  <2>2. PICK where \in 1 .. Len(addresses) : addresses[where] = ipToWatch[i]
    <3>1. Seen = 1 .. Len(addresses) /\ i \in DOMAIN ipToWatch
      BY <2>1 DEF Seen, TypeOK
    <3> QED
      BY <3>1 DEF ValidInv
  <2>3. \E k \in DOMAIN addresses' : addresses'[k].ports = <<Empty>>
    <3>1. where \in DOMAIN addresses'
      BY <2>1, <2>2 DEF TypeOK
    <3>2. addresses'[where].ports = <<Empty>>
      BY <2>1, <2>2
    <3> QED
      BY <3>1, <3>2
  <2> QED
    BY <2>1, <2>3 DEF WatchInv
<1>7. CASE StartMonitoring
  BY <1>7 DEF StartMonitoring, GoTo, WatchInv, TypeOK, fileVars, listVars
<1> QED
  BY <1>1, <1>2, <1>3, <1>4, <1>5, <1>6, <1>7 DEF Next

-----------------------------------------------------------------------------
\* The table is built in its own steps.
LEMMA TableInvStep ==
  ASSUME TypeOK, TableInv, [Next]_vars
  PROVE  TableInv'
<1>1. [Next]_vars => [LoadPartitionTable]_tableVars
  BY DEF Next, BuildTable, ParseFailed, MonitorAllDisks, ReadEntries, AddDisk, SkipDisk,
     NextEntry, EndOfEntries, ValidateAddress, EndOfAddresses, ConvertAddress, Watch,
     StoiThrows, StartMonitoring, vars
<1> QED
  BY <1>1, TableStep DEF TypeOK

LEMMA InitOK == Init => IInv
<1> SUFFICES ASSUME Init PROVE IInv
  OBVIOUS
<1>1. TableTypeOK /\ TableInv
  BY TableStart DEF Init
<1>2. entries \in Seq(Entries) /\ addresses \in Seq(AddressTexts)
  <2>1. PICK n \in 0 .. MaxEntries : entries \in [1 .. n -> Entries]
    BY DEF Init
  <2>2. PICK m \in 0 .. MaxAddresses : addresses \in [1 .. m -> AddressTexts]
    BY DEF Init
  <2>3. n \in Nat /\ m \in Nat
    BY ConfigParserAssumption
  <2> QED
    BY <2>1, <2>2, <2>3
<1>3. TypeOK
  <2>1. <<>> \in Seq(DiskCfgs) /\ <<>> \in Seq(AddressTexts) /\ <<>> \in Seq(IpCfgs)
    OBVIOUS
  <2> QED
    BY <1>1, <1>2, <2>1 DEF Init, TypeOK
<1>4. DisksInv /\ WatchInv
  BY DEF Init, DisksInv, WatchInv
<1>5. ValidInv
  <2>1. <<>> \in [{} -> {}] /\ IsIncreasing(<<>>) /\ Seen = {} /\ DOMAIN ipToWatch = {}
    BY DEF Init, IsIncreasing, Seen
  <2> QED
    BY <2>1 DEF Init, ValidInv
<1> QED
  BY <1>1, <1>3, <1>4, <1>5 DEF IInv

(* The start-up keeps its inductive invariant: the table is the one of the *)
(* blocks passed, the disks are those of the entries read, with the        *)
(* options of the first (loadPartitionTable, loadConfigs).                 *)
THEOREM Invariance == Spec => []IInv
<1>1. IInv /\ [Next]_vars => IInv'
  BY TypeStep, TableInvStep, DisksStep, ValidStep, WatchStep DEF IInv
<1> QED
  BY InitOK, <1>1, PTL DEF Spec

(* The table is the machine's, on every machine                            *)
(* (PartitionTable::loadPartitionTable).                                   *)
THEOREM TableCorrect == Spec => []TableMatchesMachine
<1>1. IInv => TableMatchesMachine
  BY TableIsRight DEF IInv, TypeOK
<1> QED
  BY Invariance, <1>1, PTL

(* The disks are the right ones, for every list of entries                 *)
(* (ConfigParser::loadConfigs, addDisk, validateDisk).                     *)
THEOREM DisksCorrect == Spec => []RightDisks
<1>1. IInv => RightDisks
  <2> SUFFICES ASSUME IInv, pc \in {"addresses", "convert", "monitoring"} PROVE RightDisks
    BY DEF RightDisks
  <2>1. TypeOK /\ TableTypeOK /\ TableInv /\ DisksInv /\ Loaded
    BY DEF IInv, TypeOK, DisksInv
  <2>2. ASSUME allDisks, NEW disk \in Blocks, IsDisk(disk) PROVE Monitored(disk) # {}
    <3>1. TableMatchesMachine
      BY <2>1, TableIsRight
    <3>2. disk \in GetAllDisks
      BY <2>1, <2>2, <3>1 DEF TableMatchesMachine, GetAllDisks
    <3> QED
      BY <2>1, <2>2, <3>2 DEF DisksInv
  <2>3. ASSUME ~allDisks, NEW disk \in Blocks
        PROVE  LET meant == {k \in DOMAIN entries :
                               /\ Means(entries[k], disk)
                               /\ entries[k].suspendIfIdle \/ entries[k].spinDown}
               IN  meant # {} =>
                     \E first \in meant : \E k \in Monitored(disk) :
                       /\ \A other \in meant : first <= other
                       /\ disksToMonitor[k].suspendIfIdle = entries[first].suspendIfIdle
                       /\ disksToMonitor[k].spinDown = entries[first].spinDown
    <3> DEFINE meant == {k \in DOMAIN entries :
                           /\ Means(entries[k], disk)
                           /\ entries[k].suspendIfIdle \/ entries[k].spinDown}
    <3>1. DOMAIN entries = Read
      BY <2>1 DEF TypeOK, Read
    <3>2. meant = Wanted(disk)
      BY <2>1, <3>1, MeansIsValid DEF Wanted
    <3>3. AsWanted(disk)
      BY <2>1, <2>3 DEF DisksInv
    <3> HIDE DEF meant
    <3>4. meant # {} =>
            \E first \in meant : \E k \in Monitored(disk) :
              /\ \A other \in meant : first <= other
              /\ disksToMonitor[k].suspendIfIdle = entries[first].suspendIfIdle
              /\ disksToMonitor[k].spinDown = entries[first].spinDown
      BY <3>2, <3>3 DEF AsWanted
    <3> QED
      BY <3>4 DEF meant
  <2> QED
    BY <2>1, <2>2, <2>3 DEF RightDisks, DisksInv
<1> QED
  BY Invariance, <1>1, PTL

\* The types of an address, and of its lists.
LEMMA PartsType ==
  ASSUME NEW text \in AddressTexts
  PROVE  text.host \in Seq(Nat \union {Empty}) /\ text.ports \in Seq(Nat \union {Empty})
BY ConfigParserAssumption

LEMMA LengthIs ==
  ASSUME NEW S, NEW list \in Seq(S), NEW n \in Nat, DOMAIN list = 1 .. n
  PROVE  Len(list) = n
BY LenProperties

LEMMA BoundsType == MAX_PART \in Nat /\ MAX_PORT \in Nat
BY DEF MAX_PART, MAX_PORT

\* What is well formed is valid.
LEMMA WellFormedIsValid ==
  ASSUME NEW text \in AddressTexts, IsWellFormed(text)
  PROVE  IsValidIpAddress(text)
<1> DEFINE host == text.host
           ports == text.ports
<1>1. host \in Seq(Nat \union {Empty}) /\ ports \in Seq(Nat \union {Empty})
  BY PartsType
<1>2. /\ host \in [1 .. 4 -> 0 .. MAX_PART]
      /\ ports = <<>> \/ ports \in [1 .. 1 -> 0 .. MAX_PORT]
  BY DEF IsWellFormed
<1> HIDE DEF host, ports
<1>3. Len(host) = 4
  BY <1>1, <1>2, LengthIs
<1>4. \A k \in DOMAIN host : Number(host[k]) <= MAX_PART
  BY BoundsType, <1>2, ConfigParserAssumption DEF Number
<1>5. Len(ports) <= 1
  <2>1. CASE ports = <<>>
    BY <2>1
  <2>2. CASE ports \in [1 .. 1 -> 0 .. MAX_PORT]
    <3>1. DOMAIN ports = 1 .. 1
      BY <2>2
    <3>2. Len(ports) = 1
      BY <1>1, <3>1, LengthIs
    <3> QED
      BY <3>2
  <2> QED
    BY <1>2, <2>1, <2>2
<1>6. \A k \in DOMAIN ports : IsPortValid(ports[k])
  <2>1. CASE ports = <<>>
    BY <2>1
  <2>2. CASE ports \in [1 .. 1 -> 0 .. MAX_PORT]
    BY <2>2, BoundsType, ConfigParserAssumption DEF IsPortValid, Number
  <2> QED
    BY <1>2, <2>1, <2>2
<1> QED
  BY <1>3, <1>4, <1>5, <1>6 DEF IsValidIpAddress, IsValidIpv4Address, host, ports

\* The numbers of a valid address.
LEMMA ValidHost ==
  ASSUME NEW text \in AddressTexts, IsValidIpAddress(text), NEW part \in Range(text.host)
  PROVE  part = Empty \/ part \in 0 .. MAX_PART
<1> DEFINE host == text.host
<1>1. host \in Seq(Nat \union {Empty})
  BY PartsType
<1>2. \A k \in DOMAIN host : Number(host[k]) <= MAX_PART
  BY DEF IsValidIpAddress, IsValidIpv4Address
<1> HIDE DEF host
<1>3. PICK k \in DOMAIN host : part = host[k]
  BY DEF Range, host
<1>4. part \in Nat \union {Empty} /\ Number(part) <= MAX_PART
  BY <1>1, <1>2, <1>3
<1> QED
  BY <1>4, BoundsType DEF Number

LEMMA ValidPort ==
  ASSUME NEW text \in AddressTexts, IsValidIpAddress(text), text.ports # <<Empty>>
  PROVE  Asked(text).port \in 0 .. MAX_PORT
<1> DEFINE ports == text.ports
<1>1. ports \in Seq(Nat \union {Empty}) /\ ports # <<Empty>>
  BY PartsType
<1>2. Len(ports) <= 1 /\ \A k \in DOMAIN ports : IsPortValid(ports[k])
  BY DEF IsValidIpAddress
<1>3. Asked(text).port = IF ports = <<>> THEN 0 ELSE ports[1]
  BY DEF Asked, DEFAULT_PORT
<1> HIDE DEF ports
<1>4. ASSUME ports # <<>> PROVE ports[1] \in 0 .. MAX_PORT
  <2>1. Len(ports) = 1 /\ ports[1] \in Nat \union {Empty} /\ 1 \in DOMAIN ports
    BY <1>1, <1>2, <1>4, OnePart
  <2>2. ports[1] # Empty
    BY <1>1, <2>1
  <2>3. ports[1] \in Nat /\ Number(ports[1]) <= MAX_PORT
    BY <1>2, <2>1, <2>2 DEF IsPortValid
  <2> QED
    BY <2>2, <2>3, BoundsType DEF Number
<1> QED
  BY <1>3, <1>4, BoundsType

(* The well-formed addresses are watched, in their order, and nothing that *)
(* has a number out of range, for every list of addresses                  *)
(* (ConfigParser::loadConfigs, isValidIpAddress).                          *)
THEOREM AddressesCorrect == Spec => []RightAddresses
<1>1. IInv => RightAddresses
  <2> SUFFICES ASSUME IInv PROVE RightAddresses
    OBVIOUS
  <2>1. TypeOK /\ ValidInv /\ WatchInv
    BY DEF IInv
  <2>2. ASSUME pc = "monitoring"
        PROVE  \E from \in [DOMAIN ipAddressesToWatch -> DOMAIN addresses] :
                 /\ IsIncreasing(from)
                 /\ \A k \in DOMAIN from : ipAddressesToWatch[k] = Asked(addresses[from[k]])
                 /\ \A k \in DOMAIN addresses :
                      IsWellFormed(addresses[k]) => k \in Range(from)
    <3>1. /\ DOMAIN ipAddressesToWatch = DOMAIN ipToWatch /\ Seen = DOMAIN addresses
          /\ \A k \in DOMAIN addresses : addresses[k] \in AddressTexts
      BY <2>1, <2>2 DEF WatchInv, TypeOK, Seen
    <3>2. PICK from \in [DOMAIN ipToWatch -> Seen] :
            /\ IsIncreasing(from)
            /\ \A k \in DOMAIN from : ipToWatch[k] = addresses[from[k]]
            /\ \A k \in Seen : IsValidIpAddress(addresses[k]) => k \in Range(from)
      BY <2>1 DEF ValidInv
    <3>3. \A k \in DOMAIN from : ipAddressesToWatch[k] = Asked(addresses[from[k]])
      BY <2>1, <3>1, <3>2 DEF WatchInv
    <3>4. \A k \in DOMAIN addresses : IsWellFormed(addresses[k]) => k \in Range(from)
      BY <3>1, <3>2, WellFormedIsValid
    <3> QED
      BY <3>1, <3>2, <3>3, <3>4
  <2>3. ASSUME NEW k \in DOMAIN ipAddressesToWatch
        PROVE  /\ ipAddressesToWatch[k].port <= MAX_PORT
               /\ \A part \in Range(ipAddressesToWatch[k].ipAddress) \ {Empty} : part <= MAX_PART
    <3>1. k \in DOMAIN ipToWatch /\ ipToWatch[k] \in AddressTexts
      BY <2>1 DEF WatchInv, TypeOK
    <3>2. IsValidIpAddress(ipToWatch[k]) /\ ipToWatch[k].ports # <<Empty>>
          /\ ipAddressesToWatch[k] = Asked(ipToWatch[k])
      BY <2>1, <3>1 DEF ValidInv, WatchInv
    <3> QED
      BY <3>1, <3>2, ValidHost, ValidPort, BoundsType DEF Asked
  <2> QED
    BY <2>1, <2>2, <2>3 DEF RightAddresses, WatchInv
<1> QED
  BY Invariance, <1>1, PTL

=============================================================================
