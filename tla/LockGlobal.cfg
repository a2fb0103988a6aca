\* The global lock: full modes jump the queue and switch to compatible-first, and
\* intent modes are taken on two partitions.
CONSTANTS
  l1 = l1
  l2 = l2
  l3 = l3
  p1 = p1
  p2 = p2
  Cleaner = cleaner
  Locker <- ThreeLockers
  Partition = {p1, p2}
  PartitionOf <- TwoPartitions
  Asked = {"IS", "IX", "S", "X"}
  IsGlobal = TRUE
  CancelRace = TRUE
  MaxRecursion = 1
  UIntRange = 8
SPECIFICATION Spec
SYMMETRY SharedPartitionSymmetry
INVARIANTS MutualExclusion PartitionedIsIntent Asserted
