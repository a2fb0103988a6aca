\* A database or collection lock: three lockers that convert and downgrade.
CONSTANTS
  l1 = l1
  l2 = l2
  l3 = l3
  p1 = p1
  p2 = p2
  Cleaner = cleaner
  Locker <- ThreeLockers
  Partition = {p1, p2}
  PartitionOf <- OnePartition
  Asked = {"IS", "IX", "S"}
  IsGlobal = FALSE
  CancelRace = FALSE
  MaxRecursion = 2
  UIntRange = 8
SPECIFICATION Spec
SYMMETRY LockerSymmetry
INVARIANTS CountsMatch NoLostWakeup NoLostConversion Asserted
