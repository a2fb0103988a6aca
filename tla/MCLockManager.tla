--------------------------- MODULE MCLockManager ---------------------------
(* Small instances of LockManager.                                         *)
EXTENDS LockManager, TLC
CONSTANTS l1, l2, l3, p1, p2

TwoLockers == {l1, l2}
ThreeLockers == {l1, l2, l3}

\* Partitions: each locker its own; l1 and l2 share one; all share one.
OwnPartitions == (l1 :> p1) @@ (l2 :> p2)
TwoPartitions == (l1 :> p1) @@ (l2 :> p1) @@ (l3 :> p2)
OnePartition == (l1 :> p1) @@ (l2 :> p1) @@ (l3 :> p1)

\* Lockers of one partition are interchangeable.
SharedPartitionSymmetry == Permutations({l1, l2})
LockerSymmetry == Permutations(Locker)
=============================================================================
