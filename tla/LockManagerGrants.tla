------------------------- MODULE LockManagerGrants --------------------------
(* The invariant is kept by the steps on partitions, and by those that     *)
(* grant a request on the lock head or make it wait.                       *)
EXTENDS LockManagerRequests, TLAPS

-----------------------------------------------------------------------------
(* Requests that are granted and released on partitions, the migration of  *)
(* partitions to the lock head, and the clean-up.                          *)

\* The beginning of migratePartitionedLockHeads keeps the invariant.
LEMMA MigrateBeginStep ==
  ASSUME IInv, Counting, NEW t \in Thread, MigrateBegin(t)
  PROVE  IInv'
<1>1. t \in Thread /\ Locker \subseteq Thread /\ TypeOK /\ Cleaner \notin Locker
  BY Zenon, LockerAssumption DEF IInv, Thread
<1> USE <1>1
<1>2. /\ pc[t] = "migrate" /\ pc'[t] = "migrating" /\ partitions # << >>
      /\ bucketMutex = t /\ bucketMutex' = t
  BY Zenon DEF MigrateBegin, Goto, request, head, parts, scan, InCriticalSection,
       InMigration, Mutexes, Migration, IInv, TypeOK, ControlType
<1>3. /\ UNCHANGED << request, head, parts, arg >>
      /\ \A u \in Thread : u # t => pc'[u] = pc[u]
  BY Zenon DEF MigrateBegin, Goto, request, head, parts, scan, TypeOK, ControlType
<1>4. ControlType'
  BY Zenon DEF MigrateBegin, Goto, request, head, parts, scan, TypeOK, ControlType, Label,
       Thread
<1>5. Mutexes'
  BY ZenonT(60), <1>2, <1>3, MutexesStep DEF InCriticalSection, request, RequestOK, IInv,
       Requests
<1>6. Migration'
  BY Zenon, <1>2, <1>3, MigrationStep DEF InMigration, head, parts
<1>7. Notification'
  BY Zenon, <1>2, <1>3, NotificationStep DEF request
<1>8. t \in Locker => RequestOK(t)'
  BY ZenonT(60), <1>2, <1>3 DEF IInv, Requests, RequestOK, InScan, Held, request
<1> QED BY Zenon, <1>2, <1>3, <1>4, <1>5, <1>6, <1>7, <1>8, Frame, ControlStep DEF request,
     head, parts

\* Taking the bucket for the clean-up keeps the invariant.
LEMMA CleanBucketStep ==
  ASSUME IInv, Counting, CleanBucket
  PROVE  IInv'
<1>1. Cleaner \in Thread /\ Locker \subseteq Thread /\ TypeOK /\ Cleaner \notin Locker
  BY Zenon, LockerAssumption DEF IInv, Thread
<1> USE <1>1
<1>2. /\ pc[Cleaner] = "idle" /\ bucketMutex = NoThread /\ bucketMutex' = Cleaner
      /\ pc'[Cleaner] = IF partitions # << >> THEN "migrate" ELSE "locked"
  BY Zenon DEF CleanBucket, Goto, BucketFree, request, head, parts, scan, BucketFree,
       TypeOK, ControlType
<1>3. /\ UNCHANGED << request, head, parts, arg >>
      /\ \A u \in Thread : u # Cleaner => pc'[u] = pc[u]
  BY Zenon DEF CleanBucket, Goto, BucketFree, request, head, parts, scan, TypeOK, ControlType
<1>4. ControlType'
  BY Zenon DEF CleanBucket, Goto, BucketFree, request, head, parts, scan, TypeOK,
       ControlType, Label, Thread
<1>5. Mutexes'
  BY Zenon, <1>2, <1>3, MutexesStep DEF InCriticalSection, request
<1>6. Migration'
  BY Zenon, <1>2, <1>3, MigrationStep DEF InMigration, head, parts
<1>7. Notification'
  BY Zenon, <1>2, <1>3, NotificationStep DEF request
<1>8. Cleaner \in Locker => RequestOK(Cleaner)'
  BY Zenon
<1> QED BY Zenon, <1>2, <1>3, <1>4, <1>5, <1>6, <1>7, <1>8, Frame, ControlStep DEF request,
     head, parts

\* cleanupUnusedLocks keeps the invariant.
LEMMA CleanHeadStep ==
  ASSUME IInv, Counting, CleanHead
  PROVE  IInv'
<1>1. Cleaner \in Thread /\ Locker \subseteq Thread /\ TypeOK /\ Cleaner \notin Locker
  BY Zenon, LockerAssumption DEF IInv, Thread
<1> USE <1>1
<1>2. /\ pc[Cleaner] = "locked" /\ bucketMutex = Cleaner /\ bucketMutex' = NoThread
      /\ pc'[Cleaner] = "idle"
  BY Zenon DEF CleanHead, Goto, request, head, parts, scan, InCriticalSection, Mutexes,
       IInv, TypeOK, ControlType
<1>3. /\ UNCHANGED << request, head, parts, arg >>
      /\ \A u \in Thread : u # Cleaner => pc'[u] = pc[u]
  <2>1. /\ UNCHANGED << request, parts, arg >>
        /\ \A u \in Thread : u # Cleaner => pc'[u] = pc[u]
    BY Zenon DEF CleanHead, Goto, request, parts, TypeOK, ControlType
  <2>2. CASE GrantedModes # {}
    BY Zenon, <2>1, <2>2 DEF CleanHead
  <2>3. CASE GrantedModes = {}
    <3>1. /\ grantedCounts = [m \in Mode |-> 0] /\ conflictCounts = [m \in Mode |-> 0]
      BY <2>3 DEF CleanHead, HeadUnused, GrantedModes, ConflictModes, TypeOK, HeadType
    <3> QED BY Zenon, <2>1, <2>3, <3>1 DEF CleanHead, HeadUnused, head
  <2> QED BY Zenon, <2>2, <2>3
<1>4. ControlType'
  BY Zenon DEF CleanHead, Goto, request, head, parts, scan, TypeOK, ControlType, Label, Thread
<1>5. Mutexes'
  BY Zenon, <1>2, <1>3, MutexesStep DEF InCriticalSection, request
<1>6. Migration'
  BY Zenon, <1>2, <1>3, MigrationStep DEF InMigration, head, parts
<1>7. Notification'
  BY Zenon, <1>2, <1>3, NotificationStep DEF request
<1>8. Cleaner \in Locker => RequestOK(Cleaner)'
  BY Zenon
<1> QED BY Zenon, <1>2, <1>3, <1>4, <1>5, <1>6, <1>7, <1>8, Frame, ControlStep DEF request,
     head, parts

\* PartitionedLockHead::newRequest: an intent mode joins intent modes.
LEMMA PartitionGrant ==
  ASSUME IInv, Counting, NEW l \in Locker, list[l] = None, mode[l] \in Intent,
         status[l] = "new", IntentOnly, PartitionNewRequest(l), UNCHANGED head
  PROVE  /\ OthersKept(l) /\ CountsFollow(l) /\ CompatibleOne(l)
         /\ Lists' /\ RequestType'
         /\ partGranted' \in [Partition -> Seq(Locker)]
         /\ \A p \in Partition : p # PartitionOf[l] => partGranted'[p] = partGranted[p]
<1> DEFINE q == PartitionOf[l]
<1>1. TypeOK /\ q \in Partition
  BY Zenon, PartitionAssumption DEF IInv
<1>2. OthersKept(l) /\ list'[l] = "partition" /\ mode' = mode /\ status'[l] = "granted"
      /\ convertMode' = convertMode
  BY Zenon, <1>1 DEF OthersKept, PartitionNewRequest, TypeOK, RequestType
<1>3. CountsFollow(l)
  BY Zenon, <1>1, <1>2, NotCounted DEF head, TypeOK, None
<1>4. CompatibleOne(l)
  <2> SUFFICES ASSUME NEW k \in Held, k # l
               PROVE  mode[l] \notin LockConflictsTable(mode[k])
    BY Zenon, <1>2 DEF CompatibleOne
  <2>1. mode[k] \in Intent
    <3>1. CASE list[k] = "granted"
      BY Zenon, <3>1, Counted DEF Held, IntentOnly
    <3>2. CASE list[k] = "partition"
      BY Zenon, <3>2 DEF Held, IInv, Lists
    <3> QED BY Zenon, <3>1, <3>2 DEF Held
  <2> QED BY Zenon, <2>1, Symmetric DEF Intent, Mode
<1>5. RequestType'
  BY Zenon, <1>1 DEF PartitionNewRequest, TypeOK, RequestType
<1> DEFINE s == partGranted[q]
           t == Append(s, l)
<1>6. /\ s \in Seq(Locker) /\ NoRepeats(s)
      /\ \A i \in DOMAIN s : s[i] # l
      /\ \A i \in DOMAIN s : list[s[i]] = "partition" /\ PartitionOf[s[i]] = q
  BY ZenonT(60), <1>1 DEF IInv, Lists, TypeOK, PartitionType, None
<1>7. /\ partGranted'[q] = t /\ partGranted' \in [Partition -> Seq(Locker)]
      /\ \A p \in Partition : p # q => partGranted'[p] = partGranted[p]
  BY <1>1, <1>6 DEF PartitionNewRequest, TypeOK, PartitionType
<1> HIDE DEF s, t
<1>8. /\ t \in Seq(Locker) /\ NoRepeats(t)
      /\ \A j \in DOMAIN t : t[j] = l \/ \E k \in DOMAIN s : t[j] = s[k]
      /\ \A k \in DOMAIN s : \E j \in DOMAIN t : t[j] = s[k]
      /\ \E j \in DOMAIN t : t[j] = l
  BY ZenonT(60), <1>6, AppendFacts DEF t
<1>9. \A i \in DOMAIN t : list'[t[i]] = "partition" /\ PartitionOf[t[i]] = q
  <2> TAKE i \in DOMAIN t
  <2>1. CASE t[i] = l
    BY Zenon, <1>2, <2>1
  <2>2. CASE t[i] # l
    <3>1. PICK k \in DOMAIN s : t[i] = s[k]
      BY Zenon, <1>8, <2>2
    <3>2. s[k] \in Locker /\ list[s[k]] = "partition" /\ PartitionOf[s[k]] = q
      BY <1>6
    <3> QED BY Zenon, <1>2, <2>2, <3>1, <3>2 DEF OthersKept
  <2> QED BY Zenon, <2>1, <2>2
<1>10. ASSUME NEW k \in Locker, list'[k] = "partition"
       PROVE  /\ mode'[k] \in Intent
              /\ \E i \in DOMAIN partGranted'[PartitionOf[k]] : partGranted'[PartitionOf[k]][i] = k
  <2>1. CASE k = l
    BY Zenon, <1>2, <1>7, <1>8, <2>1
  <2>2. CASE k # l
    <3>1. list[k] = "partition" /\ mode[k] \in Intent /\ PartitionOf[k] \in Partition
      BY ZenonT(60), <1>2, <1>10, <2>2, PartitionAssumption DEF OthersKept, IInv, Lists
    <3>2. PICK i \in DOMAIN partGranted[PartitionOf[k]] : partGranted[PartitionOf[k]][i] = k
      BY Zenon, <3>1 DEF IInv, Lists
    <3>3. CASE PartitionOf[k] = q
      BY <1>2, <1>7, <1>8, <3>1, <3>2, <3>3 DEF s
    <3>4. CASE PartitionOf[k] # q
      BY Zenon, <1>2, <1>7, <3>1, <3>2, <3>4
    <3> QED BY Zenon, <3>3, <3>4
  <2> QED BY Zenon, <2>1, <2>2
<1>11. ASSUME NEW p \in Partition
       PROVE  /\ \A i \in DOMAIN partGranted'[p] : /\ list'[partGranted'[p][i]] = "partition"
                                                   /\ PartitionOf[partGranted'[p][i]] = p
              /\ NoRepeats(partGranted'[p])
  <2>1. CASE p = q
    BY Zenon, <1>7, <1>8, <1>9, <2>1
  <2>2. CASE p # q
    <3>1. partGranted'[p] = partGranted[p] /\ partGranted[p] \in Seq(Locker)
      BY Zenon, <1>1, <1>7, <2>2 DEF TypeOK, PartitionType
    <3>2. \A i \in DOMAIN partGranted[p] :
             /\ partGranted[p][i] \in Locker /\ list[partGranted[p][i]] = "partition"
             /\ PartitionOf[partGranted[p][i]] = p
      BY <3>1 DEF IInv, Lists
    <3>3. NoRepeats(partGranted[p])
      BY Zenon DEF IInv, Lists
    <3>4. \A k \in Locker : list[k] = "partition" => list'[k] = "partition"
      BY Zenon, <1>2 DEF OthersKept, None
    <3> QED BY Zenon, <3>1, <3>2, <3>3, <3>4
  <2> QED BY Zenon, <2>1, <2>2
<1>12. /\ \A i \in DOMAIN conflictList' : list'[conflictList'[i]] = "conflict"
       /\ NoRepeats(conflictList')
  BY <1>1, <1>2 DEF IInv, Lists, OthersKept, TypeOK, HeadType, head, None
<1>13. Lists'
  BY Zenon, <1>10, <1>11, <1>12 DEF Lists
<1> QED BY Zenon, <1>2, <1>3, <1>4, <1>5, <1>7, <1>13

\* A request is granted in its partition.
LEMMA LockPartitionGrants ==
  ASSUME IInv, Counting, NEW l \in Locker, partExists[PartitionOf[l]], LockPartition(l)
  PROVE  IInv'
<1>1. /\ l \in Thread /\ Locker \subseteq Thread /\ l # Cleaner /\ TypeOK /\ RequestOK(l)
  BY Zenon, LockerAssumption DEF IInv, Thread, Requests
<1>a. PartitionOf[l] \in Partition
  BY ZenonT(60), PartitionAssumption
<1>b. /\ list[l] = None /\ mode[l] \in Intent /\ status[l] = "new" /\ IntentOnly
      /\ PartitionNewRequest(l) /\ UNCHANGED head
  BY <1>1, <1>a DEF LockPartition, PartitionNewRequest, request, RequestOK, IInv, Partitions, ToSet
<1>g. /\ OthersKept(l) /\ CountsFollow(l) /\ CompatibleOne(l) /\ Lists' /\ RequestType'
      /\ partGranted' \in [Partition -> Seq(Locker)]
      /\ \A p \in Partition : p # PartitionOf[l] => partGranted'[p] = partGranted[p]
  BY Zenon, <1>b, PartitionGrant
<1>2. /\ status'[l] = "granted" /\ list'[l] = "partition" /\ mode'[l] = mode[l]
      /\ convertMode'[l] = convertMode[l] /\ recursiveCount'[l] = 1 /\ partitioned'[l]
      /\ notify'[l] = notify[l] /\ arg'[l] = None /\ pc'[l] = "idle" /\ pc[l] = "lockPartition"
      /\ bucketMutex' = bucketMutex /\ iter' = iter
  BY Zenon, <1>1, <1>b DEF LockPartition, PartitionNewRequest, Goto, request, head, parts, scan,
       RequestOK, TypeOK, RequestType, ControlType
<1>3. /\ OthersKept(l)
      /\ \A u \in Thread : u # l => pc'[u] = pc[u]
      /\ \A k \in Locker : k # l => arg'[k] = arg[k]
  BY Zenon, <1>1, <1>g DEF LockPartition, Goto, TypeOK, ControlType
<1>4. RequestType'
  BY Zenon, <1>g
<1>5. HeadType'
  BY Zenon, <1>b, Frame
<1>6. PartitionType'
  BY Zenon, <1>1, <1>g DEF LockPartition, TypeOK, PartitionType
<1>7. ControlType'
  BY ZenonT(60), <1>1 DEF LockPartition, PartitionNewRequest, Goto, request, head, parts, scan,
       TypeOK, ControlType, Label, Thread
<1>8. CountsFollow(l)
  BY Zenon, <1>g
<1>9. CompatibleOne(l)
  BY Zenon, <1>g
<1>10. Partitions'
  <2>1. IntentOnly'
    BY Zenon, <1>b DEF head, IntentOnly, GrantedModes, ConflictModes
  <2>2. \A p \in Partition : partGranted'[p] # << >> => partExists'[p]
    BY Zenon, <1>g DEF LockPartition, IInv, Partitions
  <2>3. \A p \in Partition : partExists'[p] => p \in ToSet(partitions')
    BY Zenon DEF LockPartition, request, IInv, Partitions
  <2> QED BY Zenon, <2>1, <2>2, <2>3 DEF Partitions
<1>11. Lists'
  BY Zenon, <1>g
<1>12. Mutexes'
  BY Zenon, <1>1, <1>2, <1>3, MutexesKept DEF InCriticalSection
<1>13. Migration'
  BY Zenon, <1>1, <1>2, <1>3, <1>b, MigrationStep DEF InMigration, head, LockPartition
<1>14. Notification'
  BY ZenonT(60), <1>1, <1>2, <1>3, <1>b, NotificationFrame DEF OthersKept, head
<1>15. RequestOK(l)'
  BY <1>1, <1>2, <1>b DEF RequestOK, Held, InScan, None, Mode
<1> QED BY ZenonT(60), <1>1, <1>3, <1>4, <1>5, <1>6, <1>7, <1>8, <1>9, <1>10, <1>11, <1>12, <1>13,
           <1>14, <1>15, RequestStep

\* The first request of a new partition keeps the invariant.
LEMMA StartPartitionStep ==
  ASSUME IInv, Counting, NEW l \in Locker, StartPartition(l)
  PROVE  IInv'
<1>1. /\ l \in Thread /\ Locker \subseteq Thread /\ l # Cleaner /\ TypeOK /\ RequestOK(l)
  BY Zenon, LockerAssumption DEF IInv, Thread, Requests
<1> USE <1>1
<1>a. PartitionOf[l] \in Partition
  BY Zenon, PartitionAssumption
<1>b. /\ list[l] = None /\ mode[l] \in Intent /\ status[l] = "new" /\ IntentOnly
      /\ PartitionNewRequest(l) /\ UNCHANGED head
  BY Zenon DEF StartPartition, RequestOK, IInv, Migration
<1>g. /\ OthersKept(l) /\ CountsFollow(l) /\ CompatibleOne(l) /\ Lists' /\ RequestType'
      /\ partGranted' \in [Partition -> Seq(Locker)]
      /\ \A p \in Partition : p # PartitionOf[l] => partGranted'[p] = partGranted[p]
  BY ZenonT(60), <1>b, PartitionGrant
<1>2. /\ status'[l] = "granted" /\ list'[l] = "partition" /\ mode'[l] = mode[l]
      /\ convertMode'[l] = convertMode[l] /\ recursiveCount'[l] = 1 /\ partitioned'[l]
      /\ notify'[l] = notify[l] /\ arg'[l] = None /\ pc'[l] = "idle" /\ pc[l] = "startPartition"
      /\ bucketMutex' = NoThread /\ bucketMutex = l /\ iter' = iter
  <2>1. /\ pc[l] = "startPartition" /\ bucketMutex = l /\ bucketMutex' = NoThread
        /\ iter' = iter
    BY Zenon DEF StartPartition, IInv, Mutexes, InCriticalSection, scan
  <2>2. /\ recursiveCount[l] = 1 /\ partitioned[l] /\ arg[l] = None
    BY Zenon, <2>1 DEF RequestOK
  <2>3. /\ status'[l] = "granted" /\ list'[l] = "partition"
        /\ UNCHANGED << mode, convertMode, recursiveCount, partitioned, notify, arg >>
    BY Zenon DEF StartPartition, PartitionNewRequest, TypeOK, RequestType
  <2>4. pc'[l] = "idle"
    BY Zenon DEF StartPartition, Goto, TypeOK, ControlType
  <2> QED BY Zenon, <2>1, <2>2, <2>3, <2>4
<1>3. /\ OthersKept(l)
      /\ \A u \in Thread : u # l => pc'[u] = pc[u]
      /\ \A k \in Locker : k # l => arg'[k] = arg[k]
  BY Zenon, <1>g DEF StartPartition, Goto, TypeOK, ControlType
<1>4. RequestType'
  BY Zenon, <1>g
<1>5. HeadType'
  BY Zenon, <1>b, Frame
<1>6. PartitionType'
  <2>1. partExists' \in [Partition -> BOOLEAN]
    BY Zenon, <1>a, BooleanUpdate DEF StartPartition, TypeOK, PartitionType
  <2>2. partitions' \in Seq(Partition)
    BY <1>a DEF StartPartition, TypeOK, PartitionType
  <2> QED BY Zenon, <1>g, <2>1, <2>2 DEF PartitionType
<1>7. ControlType'
  BY Zenon DEF StartPartition, PartitionNewRequest, Goto, request, head, parts, scan,
       TypeOK, ControlType, Label, Thread
<1>8. CountsFollow(l)
  BY Zenon, <1>g
<1>9. CompatibleOne(l)
  BY Zenon, <1>g
<1>10. Partitions'
  <2>1. IntentOnly'
    BY Zenon, <1>b DEF head, IntentOnly, GrantedModes, ConflictModes
  <2>2. \A p \in Partition : partGranted'[p] # << >> => partExists'[p]
    BY Zenon, <1>a, <1>g DEF StartPartition, IInv, Partitions, TypeOK, PartitionType
  <2>3. \A p \in Partition : partExists'[p] => p \in ToSet(partitions')
    <3>1. \A p \in Partition : partExists'[p] => partExists[p] \/ p = PartitionOf[l]
      BY Zenon, <1>a DEF StartPartition, TypeOK, PartitionType
    <3>2. partitions \in Seq(Partition) /\ partitions' = Append(partitions, PartitionOf[l])
      BY Zenon DEF StartPartition, TypeOK, PartitionType
    <3>3. PartitionOf[l] \in ToSet(partitions') /\ ToSet(partitions) \subseteq ToSet(partitions')
      BY <1>a, <3>2 DEF ToSet
    <3> QED BY Zenon, <3>1, <3>3 DEF IInv, Partitions
  <2> QED BY Zenon, <2>1, <2>2, <2>3 DEF Partitions
<1>11. Lists'
  BY Zenon, <1>g
<1>12. Mutexes'
  BY Zenon, <1>2, <1>3, MutexesKept DEF InCriticalSection
<1>13. Migration'
  BY Zenon, <1>2, <1>3, <1>b, MigrationStep DEF InMigration, head
<1>14. Notification'
  BY ZenonT(60), <1>2, <1>3, <1>b, NotificationFrame DEF OthersKept, head
<1>15. RequestOK(l)'
  <2>1. l \in Held' /\ recursiveCount'[l] > 0 /\ mode'[l] # None /\ convertMode'[l] = None
    <3>1. mode[l] # None
      BY Zenon, <1>b DEF Intent, None
    <3>2. convertMode[l] = None
      BY Zenon, <1>b DEF RequestOK
    <3>3. recursiveCount'[l] > 0
      BY <1>2
    <3> QED BY Zenon, <1>2, <3>1, <3>2, <3>3 DEF Held
  <2> QED BY ZenonT(60), <1>2, <2>1 DEF RequestOK, InScan, None
<1> QED BY ZenonT(60), <1>3, <1>4, <1>5, <1>6, <1>7, <1>8, <1>9, <1>10, <1>11, <1>12, <1>13,
           <1>14, <1>15, RequestStep

\* The partition does not exist: the thread goes on to the bucket.
LEMMA LockPartitionFails ==
  ASSUME IInv, Counting, NEW l \in Locker, ~partExists[PartitionOf[l]], LockPartition(l)
  PROVE  IInv'
<1>1. /\ l \in Thread /\ Locker \subseteq Thread /\ l # Cleaner /\ TypeOK /\ RequestOK(l)
  BY Zenon, LockerAssumption DEF IInv, Thread, Requests
<1> USE <1>1
<1>2. /\ status'[l] = status[l] /\ mode'[l] = mode[l] /\ convertMode'[l] = convertMode[l]
      /\ list'[l] = list[l] /\ recursiveCount'[l] = recursiveCount[l] /\ partitioned'[l] = partitioned[l]
      /\ notify'[l] = notify[l] /\ arg'[l] = arg[l] /\ recursiveCount[l] \in 0 .. MaxRecursion
      /\ pc[l] = "lockPartition" /\ pc'[l] = "lock"
      /\ bucketMutex' = bucketMutex /\ iter' = iter
  BY Zenon, BoundAssumption DEF LockPartition, PartitionNewRequest, Goto, request, head,
       parts, scan, TypeOK, RequestType, ControlType
<1>3. /\ UNCHANGED << status, mode, convertMode, list, notify, head, parts >>
      /\ \A u \in Thread : u # l => pc'[u] = pc[u]
      /\ \A k \in Locker : k # l => /\ recursiveCount'[k] = recursiveCount[k]
                                    /\ partitioned'[k] = partitioned[k]
                                    /\ notify'[k] = notify[k] /\ arg'[k] = arg[k]
  BY Zenon DEF LockPartition, PartitionNewRequest, Goto, request, head, parts, scan,
       TypeOK, RequestType, ControlType
<1>4. RequestType'
  BY Zenon, Frame DEF LockPartition, PartitionNewRequest, Goto, request, head, parts, scan
<1>5. ControlType'
  BY Zenon DEF LockPartition, PartitionNewRequest, Goto, request, head, parts, scan,
       TypeOK, ControlType, Label, Thread
<1>6. Mutexes'
  BY Zenon, <1>2, <1>3, MutexesStep DEF InCriticalSection, RequestOK
<1>7. Migration'
  BY Zenon, <1>2, <1>3, MigrationStep DEF InMigration, InCriticalSection, head, parts,
       IntentOnly, GrantedModes, ConflictModes
<1>8. Notification'
  BY Zenon, <1>2, <1>3, NotificationFrame DEF head
<1>9. RequestOK(l)'
  BY Zenon, <1>2 DEF RequestOK, Held, InScan, None
<1> QED BY Zenon, <1>3, <1>4, <1>5, <1>6, <1>7, <1>8, <1>9, ControlStep

\* lock, on a partition, keeps the invariant.
LEMMA LockPartitionStep ==
  ASSUME IInv, Counting, NEW l \in Locker, LockPartition(l)
  PROVE  IInv'
  BY Zenon, LockPartitionGrants, LockPartitionFails

\* A request is released in its partition.
LEMMA UnlockPartitionReleases ==
  ASSUME IInv, Counting, NEW l \in Locker, list[l] = "partition", UnlockPartition(l)
  PROVE  IInv'
<1>1. /\ l \in Thread /\ Locker \subseteq Thread /\ l # Cleaner /\ TypeOK /\ RequestOK(l)
  BY Zenon, LockerAssumption DEF IInv, Thread, Requests
<1>a. PartitionOf[l] \in Partition
  BY Zenon, PartitionAssumption
<1> DEFINE q == PartitionOf[l]
           s == partGranted[q]
           t == RemoveRequest(s, l)
<1>b. /\ s \in Seq(Locker) /\ NoRepeats(s)
      /\ \E i \in DOMAIN s : s[i] = l
      /\ \A i \in DOMAIN s : list[s[i]] = "partition" /\ PartitionOf[s[i]] = q
  BY Zenon, <1>1, <1>a DEF IInv, Lists, TypeOK, PartitionType
<1>c. /\ partGranted'[q] = t
      /\ \A p \in Partition : p # q => partGranted'[p] = partGranted[p]
  BY Zenon, <1>1, <1>a DEF UnlockPartition, TypeOK, PartitionType
<1>d. /\ t \in Seq(Locker) /\ NoRepeats(t)
      /\ \A j \in DOMAIN t : t[j] # l /\ \E k \in DOMAIN s : t[j] = s[k]
      /\ \A k \in DOMAIN s : s[k] # l => \E j \in DOMAIN t : t[j] = s[k]
  <2> HIDE DEF s
  <2> QED BY ZenonT(60), <1>b, RemoveRequestFacts
<1>e. partGranted' \in [Partition -> Seq(Locker)]
  BY Zenon, <1>1, <1>a, <1>d DEF UnlockPartition, TypeOK, PartitionType
<1> HIDE DEF s, t
<1>2. /\ status'[l] = None /\ mode'[l] = None /\ list'[l] = None /\ arg'[l] = None
      /\ convertMode[l] = None /\ convertMode'[l] = None /\ pc'[l] = "idle"
      /\ list[l] = "partition" /\ status[l] = "granted" /\ mode[l] \in Mode
      /\ pc[l] = "unlockPartition" /\ bucketMutex' = bucketMutex /\ iter' = iter
  BY <1>1 DEF UnlockPartition, Forget, Goto, request, head, parts, scan, None, RequestOK, TypeOK,
       RequestType, ControlType
<1>3. /\ OthersKept(l)
      /\ \A u \in Thread : u # l => pc'[u] = pc[u]
      /\ \A k \in Locker : k # l => arg'[k] = arg[k]
  BY <1>1 DEF UnlockPartition, Forget, Goto, request, head, parts, scan, OthersKept, TypeOK,
       RequestType, ControlType
<1>4. RequestType'
  <2>1. partitioned' \in [Locker -> BOOLEAN] /\ compatibleFirst' \in [Locker -> BOOLEAN]
    BY Zenon, <1>1, BooleanUpdate DEF UnlockPartition, Forget, TypeOK, RequestType
  <2> QED BY Zenon, <1>1, <2>1 DEF UnlockPartition, Forget, TypeOK, RequestType
<1>5. HeadType'
  BY Zenon, Frame DEF UnlockPartition
<1>6. PartitionType'
  BY Zenon, <1>1, <1>e DEF UnlockPartition, TypeOK, PartitionType
<1>7. ControlType'
  BY Zenon, <1>1 DEF UnlockPartition, Forget, Goto, request, head, parts, scan, TypeOK,
       ControlType, Label, Thread
<1>8. CountsFollow(l)
  <2>1. UNCHANGED << grantedCounts, conflictCounts, conversionsCount >>
    BY Zenon DEF UnlockPartition, head
  <2> QED BY Zenon, <1>1, <1>2, <2>1, NotCounted DEF TypeOK, None
<1>9. CompatibleOne(l)
  BY Zenon, <1>2 DEF CompatibleOne, Held, None
<1>10. Partitions'
  <2>1. IntentOnly' <=> IntentOnly
    BY Zenon DEF UnlockPartition, head, IntentOnly, GrantedModes, ConflictModes
  <2>2. s = << >> => t = << >>
    BY <1>b
  <2>3. \A p \in Partition : partGranted'[p] # << >> => partGranted[p] # << >>
    BY Zenon, <1>c, <2>2 DEF s
  <2> QED BY Zenon, <2>1, <2>3 DEF UnlockPartition, IInv, Partitions
<1>11. Lists'
  <2>0. \A k \in Locker : k # l => list'[k] = list[k] /\ mode'[k] = mode[k]
    BY Zenon, <1>3 DEF OthersKept
  <2>1. ASSUME NEW p \in Partition
        PROVE  /\ \A i \in DOMAIN partGranted'[p] : /\ list'[partGranted'[p][i]] = "partition"
                                                    /\ PartitionOf[partGranted'[p][i]] = p
               /\ NoRepeats(partGranted'[p])
    <3>1. CASE p = q
      <4>1. \A j \in DOMAIN t : list'[t[j]] = "partition" /\ PartitionOf[t[j]] = q
        <5> TAKE j \in DOMAIN t
        <5>1. PICK k \in DOMAIN s : t[j] = s[k] /\ t[j] # l
          BY Zenon, <1>d
        <5> QED BY <1>b, <2>0, <5>1
      <4> QED BY Zenon, <1>c, <1>d, <3>1, <4>1
    <3>2. CASE p # q
      <4>1. partGranted'[p] = partGranted[p] /\ partGranted[p] \in Seq(Locker)
        BY Zenon, <1>1, <1>c, <3>2 DEF TypeOK, PartitionType
      <4>2. /\ \A i \in DOMAIN partGranted[p] :
                 /\ partGranted[p][i] \in Locker /\ list[partGranted[p][i]] = "partition"
                 /\ PartitionOf[partGranted[p][i]] = p
            /\ NoRepeats(partGranted[p])
        BY <4>1 DEF IInv, Lists
      <4> QED BY Zenon, <2>0, <3>2, <4>1, <4>2
    <3> QED BY Zenon, <3>1, <3>2
  <2>2. ASSUME NEW k \in Locker, list'[k] = "partition"
        PROVE  /\ mode'[k] \in Intent
               /\ \E i \in DOMAIN partGranted'[PartitionOf[k]] :
                     partGranted'[PartitionOf[k]][i] = k
    <3>1. k # l /\ list[k] = "partition" /\ mode'[k] = mode[k] /\ mode[k] \in Intent
          /\ PartitionOf[k] \in Partition
      <4>1. k # l
        BY Zenon, <1>2, <2>2 DEF None
      <4>2. list[k] = "partition" /\ mode'[k] = mode[k]
        BY Zenon, <2>0, <2>2, <4>1
      <4>3. mode[k] \in Intent
        BY ZenonT(60), <4>2 DEF IInv, Lists
      <4> QED BY Zenon, <4>1, <4>2, <4>3, PartitionAssumption
    <3>2. PICK i \in DOMAIN partGranted[PartitionOf[k]] : partGranted[PartitionOf[k]][i] = k
      BY ZenonT(60), <3>1 DEF IInv, Lists
    <3>3. CASE PartitionOf[k] = q
      BY SMTT(30), <1>c, <1>d, <3>1, <3>2, <3>3 DEF s
    <3>4. CASE PartitionOf[k] # q
      BY ZenonT(60), <1>c, <3>1, <3>2, <3>4
    <3> QED BY ZenonT(60), <3>3, <3>4
  <2>3. /\ \A i \in DOMAIN conflictList' : list'[conflictList'[i]] = "conflict"
        /\ NoRepeats(conflictList')
    <3>1. conflictList' = conflictList /\ conflictList \in Seq(Locker)
      BY Zenon, <1>1 DEF UnlockPartition, head, TypeOK, HeadType
    <3>2. \A i \in DOMAIN conflictList : /\ conflictList[i] \in Locker
                                         /\ list[conflictList[i]] = "conflict"
      BY <3>1 DEF IInv, Lists
    <3>3. NoRepeats(conflictList')
      BY Zenon, <3>1 DEF IInv, Lists
    <3> QED BY ZenonT(60), <1>2, <2>0, <3>1, <3>2, <3>3
  <2> QED BY Zenon, <2>1, <2>2, <2>3 DEF Lists
<1>12. Mutexes'
  BY Zenon, <1>1, <1>2, <1>3, MutexesKept DEF InCriticalSection, None
<1>13. Migration'
  BY Zenon, <1>1, <1>2, <1>3, MigrationStep DEF InMigration, UnlockPartition, head
<1>14. Notification'
  BY Zenon, <1>1, <1>2, <1>3, NotificationFrame DEF OthersKept, UnlockPartition, head
<1>15. RequestOK(l)'
  BY Zenon, <1>1, <1>2 DEF RequestOK, Held, InScan, None, Mode
<1> QED BY ZenonT(60), <1>1, <1>3, <1>4, <1>5, <1>6, <1>7, <1>8, <1>9, <1>10, <1>11, <1>12, <1>13,
           <1>14, <1>15, RequestStep

\* The request was migrated: the thread goes on to the bucket.
LEMMA UnlockPartitionFails ==
  ASSUME IInv, Counting, NEW l \in Locker, list[l] # "partition", UnlockPartition(l)
  PROVE  IInv'
<1>1. /\ l \in Thread /\ Locker \subseteq Thread /\ l # Cleaner /\ TypeOK /\ RequestOK(l)
  BY Zenon, LockerAssumption DEF IInv, Thread, Requests
<1> USE <1>1
<1>2. /\ status'[l] = status[l] /\ mode'[l] = mode[l] /\ convertMode'[l] = convertMode[l]
      /\ list'[l] = list[l] /\ recursiveCount'[l] = recursiveCount[l] /\ partitioned'[l] = partitioned[l]
      /\ notify'[l] = notify[l] /\ arg'[l] = arg[l] /\ recursiveCount[l] \in 0 .. MaxRecursion
      /\ pc[l] = "unlockPartition" /\ pc'[l] = "unlock"
      /\ bucketMutex' = bucketMutex /\ iter' = iter
      /\ status[l] = "converting" => bucketMutex = l
  BY ZenonT(60), BoundAssumption DEF UnlockPartition, Forget, Goto, request, head, parts,
       scan, IInv, Mutexes, TypeOK, RequestType, ControlType
<1>3. /\ UNCHANGED << status, mode, convertMode, list, notify, head, parts >>
      /\ \A u \in Thread : u # l => pc'[u] = pc[u]
      /\ \A k \in Locker : k # l => /\ recursiveCount'[k] = recursiveCount[k]
                                    /\ partitioned'[k] = partitioned[k]
                                    /\ notify'[k] = notify[k] /\ arg'[k] = arg[k]
  BY Zenon DEF UnlockPartition, Forget, Goto, request, head, parts, scan, TypeOK,
       RequestType, ControlType
<1>4. RequestType'
  BY Zenon, Frame DEF UnlockPartition, Forget, Goto, request, head, parts, scan
<1>5. ControlType'
  BY Zenon DEF UnlockPartition, Forget, Goto, request, head, parts, scan, TypeOK,
       ControlType, Label, Thread
<1>6. Mutexes'
  BY Zenon, <1>2, <1>3, MutexesStep DEF InCriticalSection, RequestOK
<1>7. Migration'
  BY Zenon, <1>2, <1>3, MigrationStep DEF InMigration, InCriticalSection, head, parts,
       IntentOnly, GrantedModes, ConflictModes
<1>8. Notification'
  BY Zenon, <1>2, <1>3, NotificationFrame DEF head
<1>9. RequestOK(l)'
  BY Zenon, <1>2 DEF RequestOK, Held, InScan, None
<1> QED BY ZenonT(60), <1>3, <1>4, <1>5, <1>6, <1>7, <1>8, <1>9, ControlStep

\* unlock, on a partition, keeps the invariant.
LEMMA UnlockPartitionStep ==
  ASSUME IInv, Counting, NEW l \in Locker, UnlockPartition(l)
  PROVE  IInv'
  BY Zenon, UnlockPartitionReleases, UnlockPartitionFails

\* The end of migratePartitionedLockHeads keeps the invariant.
LEMMA MigrateEndStep ==
  ASSUME IInv, Counting, NEW t \in Thread, MigrateEnd(t)
  PROVE  IInv'
<1>1. Locker \subseteq Thread /\ TypeOK /\ Cleaner \notin Locker
  BY Zenon, LockerAssumption DEF IInv, Thread
<1> DEFINE p == Last(partitions)
<1>2. /\ pc[t] = "migrating" /\ bucketMutex = t /\ bucketMutex' = t
      /\ partitions # << >> /\ partGranted[p] = << >>
      /\ pc'[t] = IF Len(partitions) > 1 THEN "migrate" ELSE "locked"
  BY Zenon, <1>1 DEF MigrateEnd, Goto, IInv, Mutexes, Migration, InMigration, InCriticalSection,
       TypeOK, ControlType
<1>3. /\ UNCHANGED << request, head, partGranted, arg >>
      /\ \A u \in Thread : u # t => pc'[u] = pc[u]
  BY Zenon, <1>1 DEF MigrateEnd, Goto, TypeOK, ControlType
<1>4. /\ partitions \in Seq(Partition) /\ Len(partitions) \in Nat \ {0}
      /\ p \in Partition /\ p = partitions[Len(partitions)]
      /\ partitions' = SubSeq(partitions, 1, Len(partitions) - 1)
  BY <1>1, <1>2 DEF MigrateEnd, Front, Last, TypeOK, PartitionType
<1>5. /\ partitions' \in Seq(Partition) /\ Len(partitions') = Len(partitions) - 1
      /\ \A i \in 1 .. Len(partitions) - 1 : partitions'[i] = partitions[i]
  <2>1. /\ partitions \in Seq(Partition) /\ Len(partitions) \in Nat \ {0}
        /\ partitions' = SubSeq(partitions, 1, Len(partitions) - 1)
    BY Zenon, <1>4
  <2> DEFINE n == Len(partitions) - 1
  <2>2. n \in Int /\ 1 \in Int /\ \A i \in 1 .. n : partitions[i] \in Partition
    BY <2>1
  <2> HIDE DEF p, n
  <2>3. /\ SubSeq(partitions, 1, n) \in Seq(Partition)
        /\ Len(SubSeq(partitions, 1, n)) = IF 1 <= n THEN n - 1 + 1 ELSE 0
        /\ \A i \in 1 .. n - 1 + 1 : SubSeq(partitions, 1, n)[i] = partitions[1 + i - 1]
    BY <2>2
  <2>4. n \in Nat /\ n = Len(partitions) - 1 /\ partitions' = SubSeq(partitions, 1, n)
    BY <2>1 DEF n
  <2>5. Len(SubSeq(partitions, 1, n)) = n
    BY <2>3, <2>4
  <2>6. ASSUME NEW i \in 1 .. n
        PROVE  SubSeq(partitions, 1, n)[i] = partitions[i]
    <3>1. i \in 1 .. n - 1 + 1 /\ 1 + i - 1 = i
      BY <2>4
    <3> QED BY Zenon, <2>3, <3>1
  <2> QED BY Zenon, <2>3, <2>4, <2>5, <2>6
<1>6. \A q \in Partition : q # p /\ q \in ToSet(partitions) => q \in ToSet(partitions')
  <2> SUFFICES ASSUME NEW q \in Partition, q # p, q \in ToSet(partitions)
               PROVE  q \in ToSet(partitions')
    OBVIOUS
  <2>1. PICK i \in 1 .. Len(partitions) : partitions[i] = q
    BY <1>4 DEF ToSet
  <2>2. i \in 1 .. Len(partitions) - 1
    BY <1>4, <2>1
  <2>3. i \in DOMAIN partitions' /\ partitions'[i] = q
    BY <1>4, <1>5, <2>1, <2>2
  <2> QED BY Zenon, <2>3 DEF ToSet
<1> HIDE DEF p
<1>7. partExists' = [partExists EXCEPT ![p] = FALSE]
  BY Zenon DEF MigrateEnd, p
<1>8. partExists' \in [Partition -> BOOLEAN]
  BY Zenon, <1>1, <1>4, <1>7, BooleanUpdate DEF TypeOK, PartitionType
<1>9. PartitionType'
  BY Zenon, <1>1, <1>3, <1>5, <1>8 DEF TypeOK, PartitionType
<1>10. ControlType'
  <2>1. partMutex' \in [Partition -> Thread \cup {NoThread}]
    BY Zenon, <1>1, <1>4 DEF MigrateEnd, TypeOK, ControlType, p
  <2>2. pc' \in [Thread -> Label]
    BY Zenon, <1>1 DEF MigrateEnd, Goto, TypeOK, ControlType, Label
  <2> QED BY Zenon, <1>1, <1>2, <2>1, <2>2 DEF MigrateEnd, scan, TypeOK, ControlType
<1>11. Partitions'
  <2>1. \A q \in Partition : partExists'[q] => partExists[q] /\ q # p
    BY Zenon, <1>1, <1>4, <1>7 DEF TypeOK, PartitionType
  <2>2. \A q \in Partition : partGranted'[q] # << >> => partExists'[q]
    BY Zenon, <1>1, <1>2, <1>3, <1>7 DEF IInv, Partitions, TypeOK, PartitionType, p
  <2>3. \A q \in Partition : partExists'[q] => q \in ToSet(partitions')
    BY Zenon, <1>6, <2>1 DEF IInv, Partitions
  <2>4. IntentOnly'
    BY Zenon, <1>2, <1>3 DEF IInv, Partitions, IntentOnly, GrantedModes, ConflictModes, head
  <2> QED BY Zenon, <2>2, <2>3, <2>4 DEF Partitions
<1>12. Mutexes'
  BY Zenon, <1>1, <1>2, <1>3, MutexesStep DEF InCriticalSection, request
<1>13. Migration'
  <2>1. pc'[t] = "migrate" => partitions' # << >>
    <3>1. pc'[t] = "migrate" => Len(partitions) > 1
      BY Zenon, <1>2
    <3>2. pc'[t] = "migrate" => Len(partitions') > 0
      BY <1>4, <1>5, <3>1
    <3> QED BY <1>5, <3>2
  <2>2. pc'[t] = "locked" => partitions' = << >>
    BY <1>2, <1>4, <1>5
  <2> QED BY Zenon, <1>2, <1>3, <2>1, <2>2, MigrationStep DEF InMigration
<1>14. Notification'
  BY Zenon, <1>1, <1>2, <1>3, NotificationStep DEF request
<1>15. Requests'
  <2>1. t \in Locker => RequestOK(t)'
    BY ZenonT(60), <1>2, <1>3 DEF IInv, Requests, RequestOK, InScan, Held, request
  <2>2. \A k \in Locker : k # t => RequestOK(k)'
    BY Zenon, <1>1, <1>3, RequestFrame DEF IInv, Requests, request
  <2> QED BY ZenonT(60), <2>1, <2>2 DEF Requests
<1> QED BY ZenonT(60), <1>3, <1>9, <1>10, <1>11, <1>12, <1>13, <1>14, <1>15, Frame DEF IInv,
     TypeOK, request, head

\* Requests are migrated while the head has intent modes and no waiters, so
\* Requests are migrated while the head has intent modes and no waiters, so
\* Requests are migrated while the head has intent modes and no waiters, so
\* newRequest grants them.
LEMMA MigrateRequestStep ==
  ASSUME IInv, Counting, NEW t \in Thread, MigrateRequest(t)
  PROVE  IInv'
<1>1. Locker \subseteq Thread /\ TypeOK
  BY Zenon DEF IInv, Thread
<1> DEFINE p == Last(partitions)
           s == partGranted[p]
<1>2. /\ pc[t] = "migrating" /\ bucketMutex = t /\ bucketMutex' = t
      /\ partitions # << >> /\ s # << >> /\ IntentOnly
      /\ UNCHANGED << pc, arg, partitioned, partitions, partExists, partMutex, scan >>
  BY Zenon, <1>1 DEF MigrateRequest, IInv, Mutexes, Migration, InMigration, InCriticalSection,
       Partitions
<1>3. p \in Partition /\ s \in Seq(Locker) /\ NoRepeats(s)
  <2>1. p \in Partition
    BY <1>1, <1>2 DEF Last, TypeOK, PartitionType
  <2> QED BY ZenonT(60), <1>1, <2>1 DEF IInv, Lists, TypeOK, PartitionType
<1>4a. PICK l \in Locker : l = Head(s)
  <2> HIDE DEF s
  <2> QED BY Zenon, <1>2, <1>3, TailFacts
<1>4. /\ Tail(s) \in Seq(Locker) /\ NoRepeats(Tail(s)) /\ l \in Locker
      /\ 1 \in DOMAIN s /\ l = s[1]
      /\ \A j \in DOMAIN Tail(s) : Tail(s)[j] # l /\ \E k \in DOMAIN s : Tail(s)[j] = s[k]
      /\ \A k \in DOMAIN s : s[k] # l => \E j \in DOMAIN Tail(s) : Tail(s)[j] = s[k]
  <2> HIDE DEF s
  <2> QED BY Zenon, <1>2, <1>3, <1>4a, TailFacts
<1>5. /\ list[l] = "partition" /\ mode[l] \in Intent /\ RequestOK(l) /\ status[l] = "granted"
      /\ convertMode[l] = None /\ PartitionOf[l] = p
  <2>1. list[l] = "partition" /\ PartitionOf[l] = p
    BY ZenonT(60), <1>3, <1>4 DEF IInv, Lists
  <2>2. mode[l] \in Intent /\ RequestOK(l)
    BY Zenon, <1>4, <2>1 DEF IInv, Lists, Requests
  <2> QED BY Zenon, <2>1, <2>2 DEF RequestOK
<1>6. partGranted' = [partGranted EXCEPT ![p] = Tail(s)] /\ NewRequest(l)
  BY Zenon, <1>4a DEF MigrateRequest
<1> HIDE DEF p, s
<1>7. NewRequestGranted(l)
  <2>1. ~conflicts(mode[l], GrantedModes)
    BY Zenon, <1>2, <1>5, Symmetric DEF conflicts, IntentOnly, Intent, Mode
  <2>2. ~conflicts(mode[l], ConflictModes)
    BY Zenon, <1>2 DEF conflicts, IntentOnly
  <2> QED BY Zenon, <1>6, <2>1, <2>2 DEF NewRequest, NewRequestWaits, MustWait
<1>8. /\ OthersKept(l) /\ status'[l] = "granted" /\ list'[l] = "granted" /\ mode' = mode
      /\ convertMode' = convertMode /\ recursiveCount' = recursiveCount
      /\ notify' = notify /\ conversionsCount' = conversionsCount
      /\ conflictList' = conflictList /\ conflictCounts' = conflictCounts
  BY Zenon, <1>1, <1>2, <1>4, <1>6, <1>7 DEF NewRequest, NewRequestGranted, OthersKept, TypeOK,
       RequestType
<1>9. RequestType'
  BY Zenon, <1>1, <1>2, <1>4, <1>6, <1>7 DEF NewRequest, NewRequestGranted, TypeOK, RequestType
<1>10. grantedCounts \in [Mode -> Nat] /\ mode[l] \in Mode
       /\ grantedCounts' = Inc(grantedCounts, mode[l])
  BY Zenon, <1>1, <1>5, <1>7 DEF NewRequestGranted, TypeOK, HeadType, Intent, Mode
<1>11. HeadType'
  <2>1. grantedCounts' \in [Mode -> Nat]
    BY Zenon, <1>10, IncDec
  <2>2. grantedList' \in Seq(Locker) /\ compatibleFirstCount' \in 0 .. UIntRange - 1
    BY SMTT(30), <1>1, <1>4, <1>7, PolicyType DEF NewRequestGranted, TypeOK, HeadType
  <2> QED BY Zenon, <1>1, <1>8, <2>1, <2>2 DEF TypeOK, HeadType
<1>12. PartitionType'
  BY Zenon, <1>1, <1>2, <1>3, <1>4, <1>6 DEF TypeOK, PartitionType
<1>13. ControlType'
  BY ZenonT(60), <1>1, <1>2 DEF TypeOK, ControlType, scan
<1>14. CountsFollow(l)
  BY Zenon, <1>1, <1>5, <1>8, <1>10, GrantedCounted DEF TypeOK
<1>15. CompatibleOne(l)
  BY Zenon, <1>4, <1>5, <1>8 DEF CompatibleOne, IInv, Compatible, Held
<1>16. /\ partGranted'[p] = Tail(s) /\ \A q \in Partition : q # p => partGranted'[q] = partGranted[q]
  BY Zenon, <1>1, <1>3, <1>6 DEF TypeOK, PartitionType
<1>17. Partitions'
  <2>1. IntentOnly'
    BY Zenon, <1>1, <1>2, <1>5, <1>8, <1>10 DEF IntentOnly, GrantedModes, ConflictModes, Inc
  <2>2. \A q \in Partition : partGranted'[q] # << >> => partExists'[q]
    BY Zenon, <1>2, <1>3, <1>16 DEF IInv, Partitions, s
  <2> QED BY Zenon, <1>2, <2>1, <2>2 DEF IInv, Partitions
<1>18. Lists'
  <2>0. \A k \in Locker : k # l => list'[k] = list[k] /\ mode'[k] = mode[k]
    BY Zenon, <1>8 DEF OthersKept
  <2>1. ASSUME NEW q \in Partition
        PROVE  /\ \A i \in DOMAIN partGranted'[q] : /\ list'[partGranted'[q][i]] = "partition"
                                                    /\ PartitionOf[partGranted'[q][i]] = q
               /\ NoRepeats(partGranted'[q])
    <3>0. /\ partGranted[q] \in Seq(Locker) /\ NoRepeats(partGranted[q])
          /\ \A i \in DOMAIN partGranted[q] :
               /\ partGranted[q][i] \in Locker /\ list[partGranted[q][i]] = "partition"
               /\ PartitionOf[partGranted[q][i]] = q
      BY <1>1 DEF IInv, Lists, TypeOK, PartitionType
    <3>1. CASE q = p
      <4>1. \A j \in DOMAIN Tail(s) : list'[Tail(s)[j]] = "partition" /\ PartitionOf[Tail(s)[j]] = p
        <5> TAKE j \in DOMAIN Tail(s)
        <5>1. PICK k \in DOMAIN s : Tail(s)[j] = s[k] /\ Tail(s)[j] # l
          BY Zenon, <1>4
        <5> QED BY ZenonT(60), <2>0, <3>0, <3>1, <5>1 DEF s
      <4> QED BY Zenon, <1>4, <1>16, <3>1, <4>1
    <3>2. CASE q # p
      BY ZenonT(60), <1>5, <1>16, <2>0, <3>0, <3>2
    <3> QED BY ZenonT(60), <3>1, <3>2
  <2>2. ASSUME NEW k \in Locker, list'[k] = "partition"
        PROVE  /\ mode'[k] \in Intent
               /\ \E i \in DOMAIN partGranted'[PartitionOf[k]] :
                     partGranted'[PartitionOf[k]][i] = k
    <3>1. k # l /\ list[k] = "partition" /\ mode'[k] = mode[k] /\ mode[k] \in Intent
          /\ PartitionOf[k] \in Partition
      BY ZenonT(60), <1>8, <2>0, <2>2, PartitionAssumption DEF IInv, Lists
    <3>2. PICK i \in DOMAIN partGranted[PartitionOf[k]] : partGranted[PartitionOf[k]][i] = k
      BY Zenon, <3>1 DEF IInv, Lists
    <3>3. CASE PartitionOf[k] = p
      <4>1. i \in DOMAIN s /\ s[i] = k
        BY Zenon, <3>2, <3>3 DEF s
      <4>2. PICK j \in DOMAIN Tail(s) : Tail(s)[j] = k
        BY Zenon, <1>4, <3>1, <4>1
      <4> QED BY Zenon, <1>16, <3>1, <3>3, <4>2
    <3>4. CASE PartitionOf[k] # p
      BY ZenonT(60), <1>16, <3>1, <3>2, <3>4
    <3> QED BY Zenon, <3>3, <3>4
  <2>3. /\ \A i \in DOMAIN conflictList' : list'[conflictList'[i]] = "conflict"
        /\ NoRepeats(conflictList')
    <3>1. conflictList \in Seq(Locker)
      BY ZenonT(60), <1>1 DEF TypeOK, HeadType
    <3>2. \A i \in DOMAIN conflictList : /\ conflictList[i] \in Locker
                                         /\ list[conflictList[i]] = "conflict"
      BY <3>1 DEF IInv, Lists
    <3>3. NoRepeats(conflictList')
      BY ZenonT(60), <1>5, <1>8, <3>1 DEF IInv, Lists
    <3> QED BY ZenonT(60), <1>5, <1>8, <2>0, <3>1, <3>2, <3>3
  <2> QED BY Zenon, <2>1, <2>2, <2>3 DEF Lists
<1>19. Mutexes'
  BY ZenonT(60), <1>1, <1>2, <1>4, <1>8, MutexesStep DEF OthersKept, InCriticalSection, IInv,
       Mutexes
<1>20. Migration'
  BY Zenon, <1>1, <1>2, MigrationStep DEF InMigration
<1>21. Notification'
  BY Zenon, <1>1, <1>2, <1>5, <1>8, NotificationStep DEF OthersKept
<1>22. RequestOK(l)'
  <2>1. /\ status'[l] = "granted" /\ list'[l] = "granted" /\ list[l] = "partition"
        /\ status[l] = "granted" /\ mode'[l] = mode[l] /\ convertMode'[l] = convertMode[l]
        /\ recursiveCount'[l] = recursiveCount[l] /\ partitioned'[l] = partitioned[l]
        /\ notify'[l] = notify[l] /\ arg'[l] = arg[l] /\ pc'[l] = pc[l]
    BY Zenon, <1>2, <1>5, <1>8
  <2> QED BY ZenonT(60), <1>4, <1>5, <2>1 DEF RequestOK, Held, InScan, None
<1>23. \A k \in Locker : RequestOK(k)'
  <2> TAKE k \in Locker
  <2>1. CASE k = l
    BY Zenon, <1>22, <2>1
  <2>2. CASE k # l
    BY Zenon, <1>2, <1>8, <2>2, RequestFrame DEF OthersKept, IInv, Requests
  <2> QED BY Zenon, <2>1, <2>2
<1>24. /\ \A u \in Thread : u # t => pc'[u] = pc[u]
       /\ \A k \in Locker : k \notin {l, t} => arg'[k] = arg[k]
  BY Zenon, <1>2
<1> QED BY ZenonT(60), <1>4, <1>8, <1>9, <1>11, <1>12, <1>13, <1>14, <1>15, <1>17, <1>18, <1>19,
           <1>20, <1>21, <1>22, <1>23, <1>24, RequestStep

-----------------------------------------------------------------------------
(* New requests, conversions and the scan of the waiters.                  *)

\* The scan ends and the request, with no reference left, is forgotten.
LEMMA FinishScanForgets ==
  ASSUME IInv, Counting, NEW l \in Locker, recursiveCount[l] = 0, FinishScan(l)
  PROVE  IInv'
<1>1. /\ l \in Thread /\ Locker \subseteq Thread /\ l # Cleaner /\ TypeOK /\ RequestOK(l)
  BY ZenonT(60), LockerAssumption DEF IInv, Thread, Requests
<1> USE <1>1
<1>2. /\ status'[l] = None /\ mode'[l] = None /\ list'[l] = None /\ arg'[l] = None
      /\ convertMode[l] = None /\ convertMode'[l] = None /\ pc'[l] = "idle"
      /\ list[l] = None /\ status[l] \in {"granted", "waiting"} /\ pc[l] = "scanned"
      /\ bucketMutex = l /\ bucketMutex' = NoThread
  <2>1. Forget(l)
    BY DEF FinishScan
  <2>2. pc[l] = "scanned" /\ bucketMutex = l /\ bucketMutex' = NoThread
    BY Zenon DEF FinishScan, IInv, Mutexes, InCriticalSection
  <2>a. status'[l] = None /\ mode'[l] = None
    BY ZenonT(60), <2>1 DEF Forget, TypeOK, RequestType
  <2>b. pc'[l] = "idle"
    BY ZenonT(60) DEF FinishScan, Goto, TypeOK, ControlType
  <2>3. status'[l] = None /\ mode'[l] = None /\ pc'[l] = "idle"
    BY Zenon, <2>a, <2>b
  <2>4. convertMode' = convertMode /\ list' = list /\ arg' = arg
    BY Zenon DEF FinishScan
  <2>5. /\ convertMode[l] = None /\ list[l] = None /\ arg[l] = None
        /\ status[l] \in {"granted", "waiting"}
    BY <2>2 DEF RequestOK, InScan, None
  <2> QED BY Zenon, <2>2, <2>3, <2>4, <2>5
<1>3. /\ OthersKept(l)
      /\ \A u \in Thread : u # l => pc'[u] = pc[u]
      /\ \A k \in Locker : k # l => arg'[k] = arg[k]
  BY ZenonT(60) DEF FinishScan, Forget, Goto, request, head, parts, scan, OthersKept,
       TypeOK, RequestType, ControlType
<1>4. RequestType'
  <2>1. partitioned' \in [Locker -> BOOLEAN] /\ compatibleFirst' \in [Locker -> BOOLEAN]
    BY Zenon, BooleanUpdate DEF FinishScan, Forget, TypeOK, RequestType
  <2> QED BY Zenon, <2>1 DEF FinishScan, Forget, TypeOK, RequestType
<1>5. HeadType'
  BY Zenon, Frame DEF FinishScan, Forget, Goto, request, head, parts, scan
<1>6. PartitionType'
  BY Zenon, Frame DEF FinishScan, Forget, Goto, request, head, parts, scan
<1>7. ControlType'
  <2>1. checkConflictQueue' \in BOOLEAN /\ newlyCompatibleFirst' \in BOOLEAN
    BY Zenon DEF FinishScan
  <2>2. bucketMutex' = NoThread /\ iter' \in Nat \ {0} /\ pc' \in [Thread -> Label]
    BY DEF FinishScan, Goto, TypeOK, ControlType, Label
  <2> QED BY Zenon, <2>1, <2>2 DEF FinishScan, TypeOK, ControlType
<1>8. CountsFollow(l)
  <2>1. UNCHANGED << grantedCounts, conflictCounts, conversionsCount >>
    BY Zenon DEF FinishScan, head
  <2> QED BY Zenon, <1>2, <2>1, NotCounted DEF TypeOK, None
<1>9. CompatibleOne(l)
  BY Zenon, <1>2 DEF CompatibleOne, Held, None
<1>10. Partitions'
  BY Zenon, Frame DEF FinishScan, Forget, Goto, request, head, parts, scan
<1>11. Lists'
  BY Zenon, <1>2, <1>3, ListsFrame DEF FinishScan, head, parts, None
<1>12. Mutexes'
  BY Zenon, <1>2, <1>3, MutexesKept DEF InCriticalSection, None
<1>13. Migration'
  BY Zenon, <1>2, <1>3, MigrationStep DEF InMigration
<1>14. Notification'
  BY Zenon, <1>2, <1>3, NotificationKept
<1>15. RequestOK(l)'
  BY Zenon, <1>2 DEF RequestOK, Held, InScan, None, Mode
<1> QED BY Zenon, <1>3, <1>4, <1>5, <1>6, <1>7, <1>8, <1>9, <1>10, <1>11, <1>12, <1>13,
           <1>14, <1>15, RequestStep

\* The scan ends and the request is still held.
LEMMA FinishScanKeeps ==
  ASSUME IInv, Counting, NEW l \in Locker, recursiveCount[l] # 0, FinishScan(l)
  PROVE  IInv'
<1>1. /\ l \in Thread /\ Locker \subseteq Thread /\ l # Cleaner /\ TypeOK /\ RequestOK(l)
  BY Zenon, LockerAssumption DEF IInv, Thread, Requests
<1> USE <1>1
<1>2. /\ status'[l] = status[l] /\ mode'[l] = mode[l] /\ convertMode'[l] = convertMode[l]
      /\ list'[l] = list[l] /\ recursiveCount'[l] = recursiveCount[l] /\ partitioned'[l] = partitioned[l]
      /\ notify'[l] = notify[l] /\ arg'[l] = arg[l] /\ recursiveCount[l] \in 0 .. MaxRecursion
      /\ pc[l] = "scanned" /\ pc'[l] = "idle"
      /\ bucketMutex = l /\ bucketMutex' = NoThread
  BY Zenon, BoundAssumption DEF FinishScan, Forget, Goto, request, head, parts, scan, IInv,
       Mutexes, InCriticalSection, TypeOK, RequestType, ControlType
<1>3. /\ UNCHANGED << status, mode, convertMode, list, notify, head, parts >>
      /\ \A u \in Thread : u # l => pc'[u] = pc[u]
      /\ \A k \in Locker : k # l => /\ recursiveCount'[k] = recursiveCount[k]
                                    /\ partitioned'[k] = partitioned[k]
                                    /\ notify'[k] = notify[k] /\ arg'[k] = arg[k]
  BY Zenon DEF FinishScan, Forget, Goto, request, head, parts, scan, TypeOK, RequestType,
       ControlType
<1>4. RequestType'
  BY Zenon, <1>2 DEF FinishScan, TypeOK, RequestType
<1>5. ControlType'
  <2>1. checkConflictQueue' \in BOOLEAN /\ newlyCompatibleFirst' \in BOOLEAN
    BY Zenon DEF FinishScan
  <2>2. bucketMutex' = NoThread /\ iter' \in Nat \ {0} /\ pc' \in [Thread -> Label]
    BY DEF FinishScan, Goto, TypeOK, ControlType, Label
  <2> QED BY Zenon, <2>1, <2>2 DEF FinishScan, TypeOK, ControlType
<1>6. Mutexes'
  BY Zenon, <1>2, <1>3, MutexesStep DEF InCriticalSection, RequestOK
<1>7. Migration'
  BY Zenon, <1>2, <1>3, MigrationStep DEF InMigration, InCriticalSection, head, parts,
       IntentOnly, GrantedModes, ConflictModes
<1>8. Notification'
  BY Zenon, <1>2, <1>3, NotificationStep
<1>9. RequestOK(l)'
  BY Zenon, <1>2 DEF RequestOK, Held, InScan, None
<1> QED BY Zenon, <1>3, <1>4, <1>5, <1>6, <1>7, <1>8, <1>9, ControlStep

\* The end of _onLockModeChanged keeps the invariant.
LEMMA FinishScanStep ==
  ASSUME IInv, Counting, NEW l \in Locker, FinishScan(l)
  PROVE  IInv'
  BY Zenon, FinishScanForgets, FinishScanKeeps

\* convert(): what the other requests hold is in OtherModes.
LEMMA ConvertCompatible ==
  ASSUME IInv, Counting, NEW l \in Locker, list[l] = "granted", partitions = << >>,
         NEW m \in Mode, ~conflicts(m, OtherModes(l))
  PROVE  \A k \in Held : k # l => m \notin LockConflictsTable(mode[k])
<1> TAKE k \in Held
<1> HAVE k # l
<1>1. k \in Locker /\ list[k] = "granted" /\ mode[k] \in Mode
  BY Zenon, HeldOnHead, Counted DEF Held, None
<1>2. mode[k] \in OtherModes(l)
  BY Zenon, <1>1, OtherHolders
<1> QED BY Zenon, <1>1, <1>2, Symmetric DEF conflicts

\* A conversion that conflicts with the other holders waits.
LEMMA ConvertOnHeadWaits ==
  ASSUME IInv, Counting, NEW l \in Locker, ConvertWaits(l, arg[l]), ConvertOnHead(l)
  PROVE  IInv'
<1>1. /\ l \in Thread /\ Locker \subseteq Thread /\ l # Cleaner /\ TypeOK /\ RequestOK(l)
  BY Zenon, LockerAssumption DEF IInv, Thread, Requests
<1> USE <1>1
<1>a. partitions = << >>
  BY Zenon DEF ConvertOnHead, IInv, Migration
<1>b. list[l] = "granted"
  BY ZenonT(60), <1>a, HeldOnHead DEF ConvertOnHead, RequestOK
<1>2. /\ pc[l] = "locked" /\ bucketMutex = l /\ bucketMutex' = NoThread
      /\ arg[l] \in Mode /\ arg'[l] = None /\ partitions = << >>
      /\ status[l] = "granted" /\ list[l] = "granted" /\ list'[l] = "granted"
      /\ mode[l] \in Mode /\ convertMode[l] = None
      /\ recursiveCount'[l] = recursiveCount[l] /\ recursiveCount[l] > 1
      /\ recursiveCount[l] \in Nat
      /\ partitioned'[l] = partitioned[l] /\ notify'[l] = notify[l]
      /\ status'[l] = "converting" /\ mode'[l] = mode[l] /\ convertMode'[l] = arg[l]
      /\ pc'[l] = "wait" /\ notify[l] = "invalid"
  <2>1. /\ pc[l] = "locked" /\ arg[l] \in Mode /\ bucketMutex = l /\ bucketMutex' = NoThread
    BY Zenon DEF ConvertOnHead, IInv, Mutexes, InCriticalSection, TypeOK, ControlType
  <2>2. /\ status[l] = "granted" /\ convertMode[l] = None /\ recursiveCount[l] > 1
        /\ notify[l] = "invalid"
    BY Zenon, <2>1 DEF RequestOK, None, Mode
  <2>3. mode[l] \in Mode
    BY Zenon, <1>b, Counted DEF None
  <2>4. recursiveCount[l] \in Nat
    BY Zenon, Recursion DEF TypeOK, RequestType
  <2>5. /\ status'[l] = "converting" /\ mode'[l] = mode[l] /\ convertMode'[l] = arg[l]
        /\ pc'[l] = "wait"
    BY Zenon DEF ConvertOnHead, ConvertWaits, Goto, TypeOK, RequestType, ControlType
  <2>6. /\ arg'[l] = None /\ UNCHANGED << recursiveCount, partitioned, list, notify >>
    BY Zenon DEF ConvertOnHead, TypeOK, ControlType
  <2> QED BY ZenonT(60), <1>a, <1>b, <2>1, <2>2, <2>3, <2>4, <2>5, <2>6
<1>3. /\ OthersKept(l)
      /\ \A u \in Thread : u # l => pc'[u] = pc[u]
      /\ \A k \in Locker : k # l => arg'[k] = arg[k]
  BY Zenon DEF ConvertOnHead, ConvertWaits, ConvertGranted, Inc, Dec, Goto, request, head,
       parts, scan, OthersKept, TypeOK, RequestType, ControlType
<1>4. RequestType'
  BY Zenon, <1>2 DEF ConvertOnHead, ConvertWaits, TypeOK, RequestType
<1>5. HeadType'
  <2>1. /\ grantedCounts \in [Mode -> Nat] /\ grantedCounts' = Inc(grantedCounts, arg[l])
        /\ arg[l] \in Mode /\ mode[l] \in Mode /\ grantedCounts[mode[l]] > 0
    BY Zenon, <1>2, Counted DEF ConvertOnHead, ConvertWaits, TypeOK, HeadType
  <2>2. grantedCounts' \in [Mode -> Nat]
    BY Zenon, <2>1, IncDec
  <2>3. conversionsCount' \in Nat
    BY DEF ConvertOnHead, ConvertWaits, TypeOK, HeadType
  <2> QED BY Zenon, <2>2, <2>3 DEF ConvertOnHead, TypeOK, HeadType
<1>6. PartitionType'
  BY Zenon, Frame DEF ConvertOnHead
<1>7. ControlType'
  BY ZenonT(60) DEF ConvertOnHead, ConvertWaits, ConvertGranted, Inc, Dec, Goto, request,
       head, parts, scan, TypeOK, ControlType, Label, Thread
<1>8. CountsFollow(l)
  BY Zenon, <1>2, ConversionWaitsCounted DEF ConvertOnHead, ConvertWaits, TypeOK
<1>9. CompatibleOne(l)
  BY Zenon, <1>2 DEF CompatibleOne, IInv, Compatible, Held
<1>10. Partitions'
  BY Zenon, <1>2 DEF ConvertOnHead, parts, IInv, Partitions
<1>11. Lists'
  BY Zenon, <1>2, <1>3, ListsFrame DEF ConvertOnHead, parts
<1>12. Mutexes'
  BY Zenon, <1>2, <1>3, MutexesKept DEF InCriticalSection
<1>13. Migration'
  BY Zenon, <1>2, <1>3, MigrationStep DEF InMigration
<1>14. Notification'
  BY Zenon, <1>2, <1>3, NotificationKept
<1>15. RequestOK(l)'
  <2>1. recursiveCount'[l] > 0 /\ recursiveCount[l] # 1
    BY <1>2
  <2>2. mode'[l] # None /\ convertMode'[l] # None
    BY ZenonT(60), <1>2 DEF None, Mode
  <2> QED BY ZenonT(60), <1>2, <2>1, <2>2 DEF RequestOK, InScan, None
<1> QED BY ZenonT(60), <1>3, <1>4, <1>5, <1>6, <1>7, <1>8, <1>9, <1>10, <1>11, <1>12, <1>13,
           <1>14, <1>15, RequestStep

\* A conversion that conflicts with nobody is granted.
LEMMA ConvertOnHeadGrants ==
  ASSUME IInv, Counting, NEW l \in Locker, ConvertGranted(l, arg[l]), ConvertOnHead(l)
  PROVE  IInv'
<1>1. /\ l \in Thread /\ Locker \subseteq Thread /\ l # Cleaner /\ TypeOK /\ RequestOK(l)
  BY Zenon, LockerAssumption DEF IInv, Thread, Requests
<1> USE <1>1
<1>a. partitions = << >>
  BY Zenon DEF ConvertOnHead, IInv, Migration
<1>b. list[l] = "granted"
  BY ZenonT(60), <1>a, HeldOnHead DEF ConvertOnHead, RequestOK
<1>2. /\ pc[l] = "locked" /\ bucketMutex = l /\ bucketMutex' = NoThread
      /\ arg[l] \in Mode /\ arg'[l] = None /\ partitions = << >>
      /\ status[l] = "granted" /\ list[l] = "granted" /\ list'[l] = "granted"
      /\ mode[l] \in Mode /\ convertMode[l] = None
      /\ recursiveCount'[l] = recursiveCount[l] /\ recursiveCount[l] > 1
      /\ recursiveCount[l] \in Nat
      /\ partitioned'[l] = partitioned[l] /\ notify'[l] = notify[l]
      /\ status'[l] = "granted" /\ mode'[l] = arg[l] /\ convertMode'[l] = None
      /\ pc'[l] = "idle"
  <2>1. /\ pc[l] = "locked" /\ arg[l] \in Mode /\ bucketMutex = l /\ bucketMutex' = NoThread
    BY ZenonT(60) DEF ConvertOnHead, IInv, Mutexes, InCriticalSection, TypeOK, ControlType
  <2>2. /\ status[l] = "granted" /\ convertMode[l] = None /\ recursiveCount[l] > 1
        /\ notify[l] = "invalid"
    BY Zenon, <2>1 DEF RequestOK, None, Mode
  <2>3. mode[l] \in Mode
    BY Zenon, <1>b, Counted DEF None
  <2>4. recursiveCount[l] \in Nat
    BY Zenon, Recursion DEF TypeOK, RequestType
  <2>5. /\ status'[l] = status[l] /\ mode'[l] = arg[l] /\ convertMode'[l] = convertMode[l]
        /\ pc'[l] = "idle"
    BY Zenon DEF ConvertOnHead, ConvertGranted, Goto, TypeOK, RequestType, ControlType
  <2>6. /\ arg'[l] = None /\ UNCHANGED << recursiveCount, partitioned, list, notify >>
    BY Zenon DEF ConvertOnHead, TypeOK, ControlType
  <2> QED BY ZenonT(60), <1>a, <1>b, <2>1, <2>2, <2>3, <2>4, <2>5, <2>6
<1>3. /\ OthersKept(l)
      /\ \A u \in Thread : u # l => pc'[u] = pc[u]
      /\ \A k \in Locker : k # l => arg'[k] = arg[k]
  BY Zenon DEF ConvertOnHead, ConvertWaits, ConvertGranted, Inc, Dec, Goto, request, head,
       parts, scan, OthersKept, TypeOK, RequestType, ControlType
<1>4. RequestType'
  BY Zenon, <1>2 DEF ConvertOnHead, ConvertGranted, TypeOK, RequestType
<1>5. HeadType'
  <2>1. /\ grantedCounts \in [Mode -> Nat] /\ grantedCounts' = Dec(Inc(grantedCounts, arg[l]), mode[l])
        /\ arg[l] \in Mode /\ mode[l] \in Mode /\ grantedCounts[mode[l]] > 0
    BY Zenon, <1>2, Counted DEF ConvertOnHead, ConvertGranted, TypeOK, HeadType
  <2>2. grantedCounts' \in [Mode -> Nat]
    BY Zenon, <2>1, IncDec
  <2>3. conversionsCount' \in Nat
    BY Zenon DEF ConvertOnHead, ConvertGranted, TypeOK, HeadType
  <2> QED BY Zenon, <2>2, <2>3 DEF ConvertOnHead, TypeOK, HeadType
<1>6. PartitionType'
  BY Zenon, Frame DEF ConvertOnHead
<1>7. ControlType'
  BY ZenonT(60) DEF ConvertOnHead, ConvertWaits, ConvertGranted, Inc, Dec, Goto, request,
       head, parts, scan, TypeOK, ControlType, Label, Thread
<1>8. CountsFollow(l)
  BY Zenon, <1>2, ModeChanged DEF ConvertOnHead, ConvertGranted, TypeOK
<1>9. CompatibleOne(l)
  BY Zenon, <1>2, ConvertCompatible DEF CompatibleOne, ConvertGranted
<1>10. Partitions'
  BY Zenon, <1>2 DEF ConvertOnHead, parts, IInv, Partitions
<1>11. Lists'
  BY Zenon, <1>2, <1>3, ListsFrame DEF ConvertOnHead, parts
<1>12. Mutexes'
  BY Zenon, <1>2, <1>3, MutexesKept DEF InCriticalSection
<1>13. Migration'
  BY Zenon, <1>2, <1>3, MigrationStep DEF InMigration
<1>14. Notification'
  BY Zenon, <1>2, <1>3, NotificationKept
<1>15. RequestOK(l)'
  <2>1. recursiveCount'[l] > 0 /\ mode'[l] # None /\ l \in Held'
    <3>1. recursiveCount'[l] > 0
      BY Zenon, <1>2, Recursion DEF TypeOK, RequestType
    <3>2. mode'[l] # None
      BY Zenon, <1>2 DEF None, Mode
    <3> QED BY Zenon, <1>2, <3>1, <3>2 DEF Held
  <2> QED BY ZenonT(60), <1>2, <2>1 DEF RequestOK, InScan, None
<1> QED BY Zenon, <1>3, <1>4, <1>5, <1>6, <1>7, <1>8, <1>9, <1>10, <1>11, <1>12, <1>13,
           <1>14, <1>15, RequestStep

\* convert, on the lock head, keeps the invariant.
LEMMA ConvertOnHeadStep ==
  ASSUME IInv, Counting, NEW l \in Locker, ConvertOnHead(l)
  PROVE  IInv'
  BY Zenon, ConvertOnHeadWaits, ConvertOnHeadGrants DEF ConvertOnHead

\* A new request that must wait is queued.
LEMMA LockOnHeadWaits ==
  ASSUME IInv, Counting, NEW l \in Locker, NewRequestWaits(l), LockOnHead(l)
  PROVE  IInv'
<1>1. /\ l \in Thread /\ Locker \subseteq Thread /\ l # Cleaner /\ TypeOK /\ RequestOK(l)
  BY Zenon, LockerAssumption DEF IInv, Thread, Requests
<1> USE <1>1
<1>a. partitions = << >>
  BY Zenon DEF LockOnHead, IInv, Migration
<1>2. /\ pc[l] = "locked" /\ bucketMutex = l /\ bucketMutex' = NoThread /\ partitions = << >>
      /\ status[l] = "new" /\ list[l] = None /\ mode[l] \in Mode /\ mode'[l] = mode[l]
      /\ convertMode[l] = None /\ convertMode'[l] = None
      /\ arg[l] = None /\ arg'[l] = None /\ notify'[l] = "invalid"
      /\ recursiveCount'[l] = 1 /\ ~partitioned'[l]
      /\ status'[l] = "waiting" /\ list'[l] = "conflict" /\ pc'[l] = "wait"
  BY ZenonT(60), <1>a DEF LockOnHead, NewRequest, NewRequestWaits, NewRequestGranted, Inc,
       Goto, request, head, parts, scan, None, Mode, IInv, Mutexes, InCriticalSection, RequestOK,
       TypeOK, RequestType, ControlType
<1>3. /\ OthersKept(l)
      /\ \A u \in Thread : u # l => pc'[u] = pc[u]
      /\ \A k \in Locker : k # l => arg'[k] = arg[k]
  BY Zenon DEF LockOnHead, NewRequest, NewRequestWaits, NewRequestGranted, Inc, Goto,
       request, head, parts, scan, OthersKept, TypeOK, RequestType, ControlType
<1>4. RequestType'
  <2>1. partitioned' \in [Locker -> BOOLEAN]
    BY Zenon, BooleanUpdate DEF LockOnHead, TypeOK, RequestType
  <2> QED BY Zenon, <1>2, <2>1 DEF LockOnHead, NewRequest, NewRequestWaits, TypeOK,
       RequestType
<1>5. HeadType'
  <2>1. conflictCounts \in [Mode -> Nat] /\ mode[l] \in Mode
        /\ conflictCounts' = Inc(conflictCounts, mode[l])
    BY Zenon, <1>2 DEF NewRequestWaits, TypeOK, HeadType
  <2>2. conflictCounts' \in [Mode -> Nat]
    BY Zenon, <2>1, IncDec
  <2>3. conflictList \in Seq(Locker) /\ NoRepeats(conflictList)
        /\ \A i \in DOMAIN conflictList : conflictList[i] # l
    BY ZenonT(60), <1>2 DEF IInv, Lists, TypeOK, HeadType, None
  <2>4. conflictList' \in Seq(Locker)
    BY Zenon, <2>3, AppendFacts, PrependFacts DEF NewRequestWaits
  <2> QED BY Zenon, <2>2, <2>4 DEF LockOnHead, NewRequest, NewRequestWaits, TypeOK, HeadType
<1>6. PartitionType'
  BY Zenon, Frame DEF LockOnHead
<1>7. ControlType'
  BY ZenonT(60) DEF LockOnHead, NewRequest, NewRequestWaits, NewRequestGranted, Inc, Goto,
       request, head, parts, scan, TypeOK, ControlType, Label, Thread
<1>8. CountsFollow(l)
  <2>1. /\ conflictCounts' = Inc(conflictCounts, mode[l])
        /\ UNCHANGED << grantedCounts, conversionsCount >>
    BY Zenon DEF LockOnHead, NewRequest, NewRequestWaits, NewRequestGranted
  <2> QED BY Zenon, <1>2, <2>1, WaitingCounted DEF TypeOK
<1>9. CompatibleOne(l)
  BY Zenon, <1>2 DEF CompatibleOne, Held
<1>10. Partitions'
  BY ZenonT(60), <1>2 DEF LockOnHead, parts, IInv, Partitions
<1>11. Lists'
  <2>1. /\ partGranted' = partGranted
        /\ \/ conflictList' = << l >> \o conflictList
           \/ conflictList' = Append(conflictList, l)
    BY Zenon DEF LockOnHead, NewRequestWaits, parts
  <2>2. \A i \in DOMAIN conflictList : conflictList[i] # l
    BY Zenon, <1>2, OnConflictList DEF None
  <2>3. /\ NoRepeats(conflictList')
        /\ \A j \in DOMAIN conflictList' :
             conflictList'[j] = l \/ \E k \in DOMAIN conflictList : conflictList'[j] = conflictList[k]
    <3>1. CASE conflictList' = << l >> \o conflictList
      BY ZenonT(60), <2>2, <3>1, OnConflictList, PrependFacts
    <3>2. CASE conflictList' = Append(conflictList, l)
      BY ZenonT(60), <2>2, <3>2, OnConflictList, AppendFacts
    <3> QED BY Zenon, <2>1, <3>1, <3>2
  <2>4. \A j \in DOMAIN conflictList' : list'[conflictList'[j]] = "conflict"
    BY ZenonT(60), <1>2, <1>3, <2>2, <2>3, OnConflictList DEF OthersKept
  <2> QED BY ZenonT(60), <1>2, <1>3, <2>1, <2>3, <2>4, ConflictListsFrame DEF None
<1>12. Mutexes'
  BY Zenon, <1>2, <1>3, MutexesKept DEF InCriticalSection
<1>13. Migration'
  BY Zenon, <1>2, <1>3, MigrationStep DEF InMigration
<1>14. Notification'
  BY ZenonT(60), <1>2, <1>3, NotificationKept
<1>15. RequestOK(l)'
  BY ZenonT(60), <1>2, FirstReference DEF RequestOK, Held, InScan, None, Mode
<1> QED BY ZenonT(60), <1>3, <1>4, <1>5, <1>6, <1>7, <1>8, <1>9, <1>10, <1>11, <1>12, <1>13,
           <1>14, <1>15, RequestStep

\* A mode that conflicts with no granted mode conflicts with nothing held.
LEMMA HeadGrantCompatible ==
  ASSUME IInv, Counting, partitions = << >>, NEW m \in Mode, ~conflicts(m, GrantedModes)
  PROVE  \A k \in Held : m \notin LockConflictsTable(mode[k])
<1> TAKE k \in Held
<1>1. k \in Locker /\ mode[k] \in Mode /\ mode[k] \in GrantedModes
  BY ZenonT(60), HeldOnHead, Counted DEF Held, None
<1> QED BY Zenon, <1>1, Symmetric DEF conflicts

\* A new request that need not wait is granted.
LEMMA LockOnHeadGrants ==
  ASSUME IInv, Counting, NEW l \in Locker, NewRequestGranted(l), LockOnHead(l)
  PROVE  IInv'
<1>1. /\ l \in Thread /\ Locker \subseteq Thread /\ l # Cleaner /\ TypeOK /\ RequestOK(l)
  BY Zenon, LockerAssumption DEF IInv, Thread, Requests
<1> USE <1>1
<1>a. partitions = << >>
  BY Zenon DEF LockOnHead, IInv, Migration
<1>2. /\ pc[l] = "locked" /\ bucketMutex = l /\ bucketMutex' = NoThread /\ partitions = << >>
      /\ status[l] = "new" /\ list[l] = None /\ mode[l] \in Mode /\ mode'[l] = mode[l]
      /\ convertMode[l] = None /\ convertMode'[l] = None
      /\ arg[l] = None /\ arg'[l] = None /\ notify'[l] = "invalid"
      /\ recursiveCount'[l] = 1 /\ ~partitioned'[l]
      /\ status'[l] = "granted" /\ list'[l] = "granted" /\ pc'[l] = "idle"
  BY ZenonT(60), <1>a DEF LockOnHead, NewRequest, NewRequestWaits, NewRequestGranted, Inc,
       Goto, request, head, parts, scan, None, Mode, IInv, Mutexes, InCriticalSection, RequestOK,
       TypeOK, RequestType, ControlType
<1>3. /\ OthersKept(l)
      /\ \A u \in Thread : u # l => pc'[u] = pc[u]
      /\ \A k \in Locker : k # l => arg'[k] = arg[k]
  BY Zenon DEF LockOnHead, NewRequest, NewRequestWaits, NewRequestGranted, Inc, Goto,
       request, head, parts, scan, OthersKept, TypeOK, RequestType, ControlType
<1>4. RequestType'
  <2>1. partitioned' \in [Locker -> BOOLEAN]
    BY Zenon, BooleanUpdate DEF LockOnHead, TypeOK, RequestType
  <2> QED BY ZenonT(60), <1>2, <2>1 DEF LockOnHead, NewRequest, NewRequestGranted, TypeOK,
       RequestType
<1>5. HeadType'
  <2>1. grantedCounts \in [Mode -> Nat] /\ mode[l] \in Mode
        /\ grantedCounts' = Inc(grantedCounts, mode[l])
    BY ZenonT(60), <1>2 DEF NewRequestGranted, TypeOK, HeadType
  <2>2. grantedCounts' \in [Mode -> Nat]
    BY Zenon, <2>1, IncDec
  <2>3. grantedList' \in Seq(Locker) /\ compatibleFirstCount' \in 0 .. UIntRange - 1
    BY SMTT(30), PolicyType DEF NewRequestGranted, TypeOK, HeadType
  <2> QED BY Zenon, <2>2, <2>3 DEF LockOnHead, NewRequest, NewRequestGranted, TypeOK, HeadType
<1>6. PartitionType'
  BY Zenon, Frame DEF LockOnHead
<1>7. ControlType'
  BY Zenon DEF LockOnHead, NewRequest, NewRequestWaits, NewRequestGranted, Inc, Goto,
       request, head, parts, scan, TypeOK, ControlType, Label, Thread
<1>8. CountsFollow(l)
  <2>1. /\ grantedCounts' = Inc(grantedCounts, mode[l])
        /\ UNCHANGED << conflictCounts, conversionsCount >>
    BY Zenon DEF LockOnHead, NewRequest, NewRequestWaits, NewRequestGranted
  <2> QED BY Zenon, <1>2, <2>1, GrantedCounted DEF TypeOK
<1>9. CompatibleOne(l)
  BY Zenon, <1>2, HeadGrantCompatible DEF CompatibleOne, NewRequestGranted, MustWait
<1>10. Partitions'
  BY Zenon, <1>2 DEF LockOnHead, parts, IInv, Partitions
<1>11. Lists'
  BY Zenon, <1>2, <1>3, ListsFrame DEF LockOnHead, NewRequestGranted, parts, None
<1>12. Mutexes'
  BY Zenon, <1>2, <1>3, MutexesKept DEF InCriticalSection
<1>13. Migration'
  BY Zenon, <1>2, <1>3, MigrationStep DEF InMigration
<1>14. Notification'
  BY ZenonT(60), <1>2, <1>3, NotificationKept
<1>15. RequestOK(l)'
  BY ZenonT(60), <1>2, FirstReference DEF RequestOK, Held, InScan, None, Mode
<1> QED BY Zenon, <1>3, <1>4, <1>5, <1>6, <1>7, <1>8, <1>9, <1>10, <1>11, <1>12, <1>13,
           <1>14, <1>15, RequestStep

\* newRequest, on the lock head, keeps the invariant.
LEMMA LockOnHeadStep ==
  ASSUME IInv, Counting, NEW l \in Locker, LockOnHead(l)
  PROVE  IInv'
  BY Zenon, LockOnHeadWaits, LockOnHeadGrants DEF LockOnHead, NewRequest

\* The thread that scans has the bucket, and nobody else is inside.
LEMMA Scanning ==
  ASSUME IInv, Counting, NEW t \in Locker, pc[t] \in InScan
  PROVE  /\ t \in Thread /\ Locker \subseteq Thread /\ t # Cleaner /\ TypeOK /\ RequestOK(t)
         /\ bucketMutex = t
         /\ \A u \in Thread : u # t => pc[u] \notin InCriticalSection
         /\ \A k \in Locker : k # t /\ status[k] = "converting" => pc[k] = "wait"
<1>1. t \in Thread /\ Locker \subseteq Thread /\ t # Cleaner /\ TypeOK /\ RequestOK(t)
  BY Zenon, LockerAssumption DEF IInv, Thread, Requests
<1>2. bucketMutex = t
  BY Zenon, <1>1 DEF IInv, Mutexes, InScan, InCriticalSection
<1> QED BY Zenon, <1>1, <1>2, OthersOutside

\* The scan grants a pending conversion.
LEMMA ScanConversionGrants ==
  ASSUME IInv, Counting, NEW t \in Locker, ScanConversion(t),
         NEW l \in Locker, l = grantedList[iter], status[l] = "converting",
         ~conflicts(convertMode[l], OtherModes(l))
  PROVE  IInv'
<1> USE DEF ScanConversion, Goto
<1>1. /\ t \in Thread /\ Locker \subseteq Thread /\ t # Cleaner /\ TypeOK /\ RequestOK(t)
      /\ bucketMutex = t /\ bucketMutex' = t /\ RequestOK(l)
      /\ \A u \in Thread : u # t => pc[u] \notin InCriticalSection
  BY Zenon, Scanning DEF InScan, IInv, Requests
<1> USE <1>1
<1>2. l # t /\ pc[l] = "wait"
  <2>1. l # t
    BY ZenonT(60) DEF RequestOK
  <2> QED BY Zenon, <2>1, Scanning DEF InScan
<1>3. /\ status'[l] = "granted" /\ list[l] = "granted" /\ list'[l] = "granted"
      /\ mode[l] \in Mode /\ convertMode[l] \in Mode /\ mode'[l] = convertMode[l]
      /\ convertMode'[l] = None /\ arg'[l] = arg[l] /\ pc'[l] = "wait"
      /\ recursiveCount'[l] = recursiveCount[l] /\ partitioned'[l] = partitioned[l]
      /\ notify[l] = "invalid" /\ notify'[l] = "invalid" /\ recursiveCount[l] \in Nat
  <2>1. /\ list[l] = "granted" /\ convertMode[l] \in Mode /\ mode[l] \in Mode
        /\ notify[l] = "invalid"
    BY ZenonT(60), Counted DEF RequestOK, None
  <2>2. recursiveCount[l] \in Nat
    BY SMTT(30) DEF TypeOK, RequestType
  <2> QED BY ZenonT(60), <1>2, <2>1, <2>2 DEF TypeOK, RequestType, ControlType
<1>4. /\ pc[t] = "scanConversions" /\ pc'[t] = "notifyConversion" /\ iter' = iter
      /\ iter \in DOMAIN grantedList /\ grantedList' = grantedList
      /\ UNCHANGED << parts, arg, partMutex, conflictList, conflictCounts, notify, partGranted >>
  BY DEF MoreConversions, TypeOK, HeadType, ControlType, parts
<1>5. OthersKept(l) /\ \A u \in Thread : u # t => pc'[u] = pc[u]
  <2>1. \A u \in Thread : u # t => pc'[u] = pc[u]
    BY Zenon, <1>4 DEF TypeOK, ControlType
  <2>2. \A k \in Locker : k # l => status'[k] = status[k] /\ mode'[k] = mode[k]
    BY Zenon, <1>4 DEF TypeOK, RequestType
  <2>3. \A k \in Locker : k # l => convertMode'[k] = convertMode[k]
    BY Zenon, <1>4 DEF TypeOK, RequestType
  <2>4. UNCHANGED << recursiveCount, partitioned, list, notify >>
    BY ZenonT(60)
  <2> QED BY Zenon, <2>1, <2>2, <2>3, <2>4 DEF OthersKept
<1>6. RequestType'
  BY <1>3 DEF TypeOK, RequestType
<1>7. grantedCounts \in [Mode -> Nat] /\ grantedCounts' = Dec(grantedCounts, mode[l])
      /\ grantedCounts[mode[l]] > 0 /\ conversionsCount \in Nat /\ conversionsCount > 0
      /\ conversionsCount' = conversionsCount - 1
  BY ZenonT(60), <1>3, Counted DEF TypeOK, HeadType
<1>8. HeadType'
  <2>1. grantedCounts' \in [Mode -> Nat]
    BY Zenon, <1>3, <1>7, IncDec
  <2> QED BY SMTT(30), <1>7, <2>1 DEF TypeOK, HeadType
<1>9. PartitionType'
  BY Zenon, <1>4, Frame
<1>10. ControlType'
  BY ZenonT(60) DEF TypeOK, ControlType, Label
<1>11. CountsFollow(l)
  BY Zenon, <1>3, <1>4, <1>7, ConversionCounted DEF TypeOK
<1> HIDE DEF ScanConversion
<1>12. CompatibleOne(l) /\ Lists' /\ Partitions'
  <2>1. CASE partitions = << >>
    <3>1. CompatibleOne(l)
      BY Zenon, <1>3, <2>1, ConvertCompatible DEF CompatibleOne
    <3>2. Lists'
      BY Zenon, <1>3, <1>4, <1>5, ListsFrame
    <3>3. Partitions'
      BY ZenonT(60), <1>4, <2>1 DEF IInv, Partitions, parts
    <3> QED BY Zenon, <3>1, <3>2, <3>3
  <2>2. CASE partitions # << >>
    <3>1. IntentOnly
      BY Zenon, <2>2 DEF IInv, Partitions
    <3>2. convertMode[l] \in Intent
      BY ZenonT(60), <3>1, Counted DEF IntentOnly
    <3>3. \A k \in Held : mode[k] \in Intent
      BY ZenonT(60), <3>1, Counted DEF Held, IntentOnly, IInv, Lists
    <3>4. CompatibleOne(l)
      BY ZenonT(60), <1>3, <3>2, <3>3, Symmetric DEF CompatibleOne, Intent, Mode
    <3>5. Lists'
      BY Zenon, <1>3, <1>4, <1>5, ListsFrame
    <3>6. GrantedModes' \subseteq GrantedModes /\ ConflictModes' = ConflictModes
      BY Zenon, <1>3, <1>4, <1>7 DEF GrantedModes, ConflictModes, Dec
    <3>7. Partitions'
      BY ZenonT(60), <1>4, <3>1, <3>6 DEF IInv, Partitions, parts, IntentOnly
    <3> QED BY Zenon, <3>4, <3>5, <3>7
  <2> QED BY Zenon, <2>1, <2>2
<1>13. Mutexes'
  <2>1. status'[t] # "converting"
    BY ZenonT(60), <1>2, <1>4, <1>5 DEF OthersKept, RequestOK
  <2>2. \A k \in Locker : status'[k] = "converting" => status[k] = "converting"
    BY Zenon, <1>3, <1>5 DEF OthersKept
  <2> QED BY ZenonT(60), <1>4, <1>5, <2>1, <2>2, MutexesStep
<1>14. Migration'
  BY Zenon, <1>4, <1>5, MigrationStep DEF InMigration
<1>15. Notification'
  <2>1. \A u \in Thread : pc'[u] = "notifyConversion" => u = t
    BY Zenon, <1>5 DEF InCriticalSection
  <2>2. ASSUME NEW k \in Locker, pc'[k] = "wait", status'[k] = "granted", notify'[k] = "invalid"
        PROVE  k = l
    <3>1. SUFFICES ASSUME k # l
                   PROVE  FALSE
      OBVIOUS
    <3>2. pc[k] = "wait" /\ status[k] = "granted" /\ notify[k] = "invalid"
      BY ZenonT(60), <1>4, <1>5, <2>2, <3>1 DEF OthersKept
    <3>3. \E u \in Thread : pc[u] = "notifyConversion"
      BY Zenon, <3>2 DEF IInv, Notification
    <3> QED BY Zenon, <1>4, <3>3 DEF InCriticalSection
  <2>3. grantedList'[iter'] = l
    BY ZenonT(60), <1>4
  <2> QED BY ZenonT(60), <1>3, <1>4, <2>1, <2>2, <2>3 DEF Notification
<1>16. RequestOK(l)'
  <2>1. arg'[l] = None /\ recursiveCount[l] > 1
    BY ZenonT(60), <1>2, <1>3 DEF RequestOK
  <2> QED BY Zenon, <1>3, <2>1, ConvertedWaits
<1>17. RequestOK(t)'
  <2>1. /\ status'[t] = status[t] /\ mode'[t] = mode[t] /\ convertMode'[t] = convertMode[t]
        /\ recursiveCount'[t] = recursiveCount[t] /\ partitioned'[t] = partitioned[t]
        /\ list'[t] = list[t] /\ notify'[t] = notify[t] /\ arg'[t] = arg[t]
    BY Zenon, <1>2, <1>4, <1>5 DEF OthersKept
  <2> QED BY ZenonT(60), <1>4, <2>1 DEF RequestOK, Held, InScan, None
<1> QED BY ZenonT(60), <1>4, <1>5, <1>6, <1>8, <1>9, <1>10, <1>11, <1>12, <1>13, <1>14,
     <1>15, <1>16,
           <1>17, RequestStep

\* The scan passes over a request it cannot grant a conversion.
LEMMA ScanConversionSkips ==
  ASSUME IInv, Counting, NEW l \in Locker, iter' = iter + 1, ScanConversion(l)
  PROVE  IInv'
<1>1. /\ l \in Thread /\ Locker \subseteq Thread /\ l # Cleaner /\ TypeOK /\ RequestOK(l)
  BY ZenonT(60), LockerAssumption DEF IInv, Thread, Requests
<1> USE <1>1
<1>a. iter \in Nat /\ iter # iter + 1 /\ iter + 1 \in Nat \ {0}
  BY DEF TypeOK, ControlType
<1>b. /\ UNCHANGED << request, head, parts, pc, arg, bucketMutex, partMutex >>
      /\ UNCHANGED << checkConflictQueue, newlyCompatibleFirst >>
  BY Zenon, <1>a DEF ScanConversion, request, head
<1>2. /\ status'[l] = status[l] /\ mode'[l] = mode[l] /\ convertMode'[l] = convertMode[l]
      /\ list'[l] = list[l] /\ recursiveCount'[l] = recursiveCount[l] /\ partitioned'[l] = partitioned[l]
      /\ notify'[l] = notify[l] /\ arg'[l] = arg[l] /\ recursiveCount[l] \in 0 .. MaxRecursion
      /\ pc[l] = "scanConversions" /\ pc'[l] = pc[l]
      /\ bucketMutex = l /\ bucketMutex' = l
  <2>1. /\ recursiveCount[l] \in 0 .. MaxRecursion /\ pc[l] = "scanConversions"
    BY Zenon DEF ScanConversion, TypeOK, RequestType
  <2>2. bucketMutex = l
    BY ZenonT(60), <2>1 DEF IInv, Mutexes, InCriticalSection
  <2> QED BY Zenon, <1>b, <2>1, <2>2 DEF request
<1>3. /\ UNCHANGED << status, mode, convertMode, list, notify, head, parts >>
      /\ \A u \in Thread : u # l => pc'[u] = pc[u]
      /\ \A k \in Locker : k # l => /\ recursiveCount'[k] = recursiveCount[k]
                                    /\ partitioned'[k] = partitioned[k]
                                    /\ notify'[k] = notify[k] /\ arg'[k] = arg[k]
  BY Zenon, <1>b DEF request
<1>4. RequestType'
  BY Zenon, <1>b, Frame DEF request
<1>5. ControlType'
  BY Zenon, <1>a, <1>b DEF TypeOK, ControlType
<1>6. Mutexes'
  BY Zenon, <1>2, <1>3, MutexesStep DEF InCriticalSection, RequestOK
<1>7. Migration'
  BY Zenon, <1>2, <1>3, MigrationStep DEF InMigration, InCriticalSection, head, parts,
       IntentOnly, GrantedModes, ConflictModes
<1>8. Notification'
  BY Zenon, <1>2, <1>3, NotificationStep
<1>9. RequestOK(l)'
  BY ZenonT(60), <1>2 DEF RequestOK, Held, InScan, None
<1> QED BY Zenon, <1>3, <1>4, <1>5, <1>6, <1>7, <1>8, <1>9, ControlStep

\* A round of the loop over the conversions keeps the invariant.
LEMMA ScanConversionStep ==
  ASSUME IInv, Counting, NEW t \in Locker, ScanConversion(t)
  PROVE  IInv'
<1>1. grantedList[iter] \in Locker
  BY DEF ScanConversion, MoreConversions, IInv, TypeOK, HeadType, ControlType
<1>2. CASE iter' = iter + 1
  BY Zenon, <1>2, ScanConversionSkips
<1>3. CASE iter' # iter + 1
  BY Zenon, <1>1, <1>3, ScanConversionGrants DEF ScanConversion
<1> QED BY ZenonT(60), <1>2, <1>3

=============================================================================
