--------------------------- MODULE PartitionTable ---------------------------
(***************************************************************************)
(* PartitionTable::loadPartitionTable: the blocks of /proc/partitions, one *)
(* after the other, become a disk, a partition of a disk or nothing.  The  *)
(* table is built once, before the configuration is read.                  *)
(***************************************************************************)
EXTENDS Integers, Sequences, FiniteSets, Functions

CONSTANTS
  Blocks,    \* block devices: disks, partitions, loop devices, ...
  Parent,    \* the directory that holds a block's entry in sysfs: the name of
             \* its disk if the block is a partition, else no block
  HasDevice  \* the blocks with a "device" link in sysfs: hardware

ASSUME PartitionTableAssumption ==
  /\ IsFiniteSet(Blocks)
  /\ DOMAIN Parent = Blocks
  /\ HasDevice \subseteq Blocks
  \* the "device" link is in the directory of the disk, not of its partitions
  \* (the boot partitions of an eMMC have one, too: they are not modelled)
  /\ \A b \in HasDevice : Parent[b] \notin Blocks

VARIABLES
  allValidBlocks,  \* m_allValidBlocks, in the order of /proc/partitions
  partitionTable,  \* m_partitionTable: the partitions of each disk
  block            \* the index of the second loop of loadPartitionTable

tableVars == <<allValidBlocks, partitionTable, block>>

TableTypeOK ==
  /\ allValidBlocks \in Seq(Blocks)
  /\ DOMAIN partitionTable \subseteq Blocks
  /\ \A disk \in DOMAIN partitionTable : partitionTable[disk] \in Seq(Blocks)
  /\ block \in 1 .. (Len(allValidBlocks) + 1)

\* The kernel lists a block once, and a disk before its partitions.
KernelOrder(list) ==
  /\ \A j, k \in DOMAIN list : list[j] = list[k] => j = k
  /\ \A k \in DOMAIN list :
       Parent[list[k]] \in Blocks => \E j \in 1 .. (k - 1) : list[j] = Parent[list[k]]

TableInit ==
  /\ \E n \in 0 .. Cardinality(Blocks) : allValidBlocks \in [1 .. n -> Blocks]
  /\ KernelOrder(allValidBlocks)
  /\ partitionTable = <<>>
  /\ block = 1

-----------------------------------------------------------------------------
\* The loop starts from the second block.
IsBlockExists(name) == \E k \in 2 .. Len(allValidBlocks) : allValidBlocks[k] = name

\* Is there a "device" link?
IsRealDisk(name) == name \in HasDevice

This == allValidBlocks[block]

\* parentDiskOfBlockDevice: the last directory but one of the block's link.
ParentDisk == Parent[This]

ToNextBlock ==
  /\ block' = block + 1
  /\ UNCHANGED allValidBlocks

Loading == block <= Len(allValidBlocks)

\* insertPartition; a partition of a disk that is not in the table is lost.
InsertPartition ==
  /\ Loading
  /\ IsBlockExists(ParentDisk)
  /\ partitionTable' =
       IF ParentDisk \in DOMAIN partitionTable
         THEN [partitionTable EXCEPT ![ParentDisk] = Append(@, This)]
         ELSE partitionTable
  /\ ToNextBlock

\* insertDisk, which leaves a disk alone that is already there.
WithDisk(disk) ==
  [b \in DOMAIN partitionTable \union {disk} |->
     IF b \in DOMAIN partitionTable THEN partitionTable[b] ELSE <<>>]

\* A slip: whatever is no partition is a disk.
InsertDiskUnchecked ==
  /\ Loading
  /\ ~IsBlockExists(ParentDisk)
  /\ partitionTable' = WithDisk(This)
  /\ ToNextBlock

InsertDisk ==
  /\ Loading
  /\ ~IsBlockExists(ParentDisk)
  /\ IsRealDisk(This)
  /\ partitionTable' = WithDisk(This)
  /\ ToNextBlock

SkipBlock ==
  /\ Loading
  /\ ~IsBlockExists(ParentDisk)
  /\ ~IsRealDisk(This)
  /\ UNCHANGED partitionTable
  /\ ToNextBlock

LoadPartitionTable == InsertPartition \/ InsertDisk \/ SkipBlock

-----------------------------------------------------------------------------
(* The lookups of the finished table.                                      *)

\* isPartitionValid: the disks that have the partition, at most one.
DiskOf(name) ==
  {disk \in DOMAIN partitionTable :
     \E k \in DOMAIN partitionTable[disk] : partitionTable[disk][k] = name}

IsDiskValid(name) == name \in DOMAIN partitionTable

GetAllDisks == DOMAIN partitionTable

-----------------------------------------------------------------------------
Loaded == ~Loading

\* A whole disk of the machine, and the first block of the list, whose
\* partitions isBlockExists never sees.
IsDisk(b) == b \in Range(allValidBlocks) /\ b \in HasDevice /\ Parent[b] \notin Blocks
IsFirst(b) == allValidBlocks # <<>> /\ b = allValidBlocks[1]

(* PartitionTable::loadPartitionTable finds the disks of the machine and   *)
(* nothing else, each with its own partitions and none of them twice; of a *)
(* disk that heads the list it may miss some.                              *)
TableMatchesMachine ==
  Loaded =>
    /\ DOMAIN partitionTable = {b \in Blocks : IsDisk(b)}
    /\ \A b \in Range(allValidBlocks) :
         LET disk == Parent[b]
         IN  IF disk \in Blocks /\ IsDisk(disk) /\ ~IsFirst(disk)
               THEN DiskOf(b) = {disk}
               ELSE DiskOf(b) \subseteq {disk}
    /\ \A disk \in DOMAIN partitionTable : IsInjective(partitionTable[disk])

Passed == {allValidBlocks[k] : k \in 1 .. (block - 1)}

\* The inductive form: the table is the one of the blocks passed so far.
TableInv ==
  /\ KernelOrder(allValidBlocks)
  /\ DOMAIN partitionTable = Passed \intersect HasDevice
  /\ \A disk \in DOMAIN partitionTable :
       /\ Range(partitionTable[disk]) = {b \in Passed : Parent[b] = disk /\ ~IsFirst(disk)}
       /\ IsInjective(partitionTable[disk])

(* Every partition of every disk leads to its disk: "if you pass in a      *)
(* partition, it will be overwritten by it's parent disk" (validateDisk,   *)
(* PartitionTable::isBlockExists).                                         *)
PartitionsFound ==
  Loaded =>
    \A b \in Range(allValidBlocks) :
      LET disk == Parent[b] IN disk \in Blocks /\ IsDisk(disk) => DiskOf(b) = {disk}

=============================================================================
