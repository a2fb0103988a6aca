\* A database or collection lock on two partitions, whose holders release it.
CONSTANTS
  l1 = l1
  l2 = l2
  l3 = l3
  p1 = p1
  p2 = p2
  Cleaner = cleaner
  Locker <- ThreeLockers
  Partition = {p1, p2}
  PartitionOf <- TwoPartitions
  Asked = {"IX", "S", "X"}
  IsGlobal = FALSE
  CancelRace = TRUE
  MaxRecursion = 1
  UIntRange = 8
SPECIFICATION FairSpec
INVARIANT TypeOK
PROPERTY WaiterServed
