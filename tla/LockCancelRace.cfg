\* A conversion times out while another thread grants it.
CONSTANTS
  l1 = l1
  l2 = l2
  l3 = l3
  p1 = p1
  p2 = p2
  Cleaner = cleaner
  Locker <- TwoLockers
  Partition = {p1, p2}
  PartitionOf <- OwnPartitions
  Asked = {"IS", "IX", "S", "X"}
  IsGlobal = FALSE
  CancelRace = TRUE
  MaxRecursion = 2
  UIntRange = 8
SPECIFICATION Spec

INVARIANT ReleasesLastReference
