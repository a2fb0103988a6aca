---------------------------- MODULE LockManager ----------------------------
(***************************************************************************)
(* One resource of the lock manager (src/mongo/db/concurrency/             *)
(* lock_manager.cpp) and the part of LockerImpl that calls it.             *)
(*                                                                         *)
(* Each locker has at most one LockRequest for the resource.  The LockHead *)
(* is protected by the mutex of its bucket, each PartitionedLockHead by    *)
(* the mutex of its partition.  An action is one critical section, or one  *)
(* iteration of a loop that runs while a mutex is held; what the code      *)
(* reads or writes outside any mutex is an action of its own.              *)
(***************************************************************************)
EXTENDS Integers, Sequences, FiniteSets

CONSTANTS Locker,         \* lockers, each run by a thread of its own
          Cleaner,        \* the thread that runs cleanupUnusedLocks
          Partition,      \* partitions of the lock manager
          PartitionOf,    \* _getPartition: the partition of each locker
          Asked,          \* the modes that lockers ask for
          IsGlobal,       \* the resource is of type RESOURCE_GLOBAL
          CancelRace,     \* FALSE: no conversion is granted once its owner
                          \* has begun to cancel it (see WaitTimeout)
          MaxRecursion,   \* bound on LockRequest::recursiveCount
          UIntRange       \* the unsigned counters are modulo UIntRange

None == "none"
Mode == {"IS", "IX", "S", "X"}
Intent == {"IS", "IX"}
Thread == Locker \cup {Cleaner}
NoThread == "free"

ASSUME LockerAssumption == /\ IsFiniteSet(Locker)
                           /\ Cleaner \notin Locker
                           /\ NoThread \notin Thread
ASSUME PartitionAssumption == PartitionOf \in [Locker -> Partition]
ASSUME AskedAssumption == Asked \subseteq Mode
ASSUME FlagAssumption == IsGlobal \in BOOLEAN /\ CancelRace \in BOOLEAN
ASSUME BoundAssumption == /\ MaxRecursion \in Nat \ {0}
                          /\ UIntRange \in Nat \ {0}
                          /\ Cardinality(Locker) < UIntRange

VARIABLES
  \* LockRequest of each locker, and the notification object of the locker
  status,          \* "none" when the locker has no request
  mode,
  convertMode,
  recursiveCount,
  partitioned,     \* the request was first put on a partition
  compatibleFirst, \* always set together with enqueueAtFront
  list,            \* the list on which the request hangs
  notify,          \* CondVarLockGrantNotification::_result
  \* LockHead
  grantedList, grantedCounts,
  conflictList, conflictCounts,
  conversionsCount, compatibleFirstCount,
  partitions,      \* partitions that may have a PartitionedLockHead
  \* PartitionedLockHead of each partition: whether it exists, its grantedList
  partExists, partGranted,
  \* mutexes
  bucketMutex, partMutex,
  \* control: where each thread is, and the mode it passed to the call
  pc, arg,
  \* locals of _onLockModeChanged in the thread that holds bucketMutex
  iter, checkConflictQueue, newlyCompatibleFirst

request == << status, mode, convertMode, recursiveCount, partitioned,
              compatibleFirst, list, notify >>
head == << grantedList, grantedCounts, conflictList, conflictCounts,
           conversionsCount, compatibleFirstCount >>
parts == << partitions, partExists, partGranted >>
scan == << iter, checkConflictQueue, newlyCompatibleFirst >>
vars == << request, head, parts, bucketMutex, partMutex, pc, arg, scan >>

-----------------------------------------------------------------------------
(* Modes and their conflicts.                                              *)

LockConflictsTable(m) ==
  { n \in Mode : \/ m = "IS" /\ n = "X"
                 \/ m = "IX" /\ n \in {"S", "X"}
                 \/ m = "S"  /\ n \in {"IX", "X"}
                 \/ m = "X" }

conflicts(m, modes) == \E n \in modes : n \in LockConflictsTable(m)

\* Whatever conflicts with mode n conflicts with mode m already.
Covers(m, n) == LockConflictsTable(n) \subseteq LockConflictsTable(m)

\* The bit masks grantedModes and conflictModes, kept in step with the counts.
GrantedModes == { m \in Mode : grantedCounts[m] > 0 }
ConflictModes == { m \in Mode : conflictCounts[m] > 0 }

\* grantedModesWithoutCurrentRequest: what l holds and waits for is left out.
OtherModes(l) ==
  { m \in Mode : grantedCounts[m] > (IF mode[l] = m THEN 1 ELSE 0)
                                  + (IF convertMode[l] = m THEN 1 ELSE 0) }

\* lockBegin gives priority to the full modes of the global resource.
HasPriority(m) == IsGlobal /\ m \in {"S", "X"}

\* Mutant: the policy is never given back.
PolicyCountNoRelease(l, d) ==
  IF compatibleFirst[l] /\ d > 0 THEN (compatibleFirstCount + d) % UIntRange
                                 ELSE compatibleFirstCount

\* compatibleFirstCount once request l is granted (d = 1) or released (d = -1).
PolicyCount(l, d) ==
  IF compatibleFirst[l] THEN (compatibleFirstCount + d) % UIntRange
                        ELSE compatibleFirstCount

\* Sequences, with the definitions of SequencesExt: the whole of that module in
\* the context of every obligation makes the proofs several times as slow.
ToSet(s) == {s[i] : i \in DOMAIN s}
Last(s) == s[Len(s)]
Front(s) == SubSeq(s, 1, Len(s) - 1)
RemoveAt(s, i) == SubSeq(s, 1, i - 1) \o SubSeq(s, i + 1, Len(s))
PositionOf(s, l) == CHOOSE i \in DOMAIN s : s[i] = l

\* LockRequestList::remove.  A request that hangs on no list has null links,
\* so removing it clears the front and the back of the list.
RemoveRequest(s, l) ==
  IF l \in ToSet(s) THEN RemoveAt(s, PositionOf(s, l)) ELSE << >>

\* Mutant: the count is kept as a flag.
IncOnce(counts, m) == [counts EXCEPT ![m] = 1]

Inc(counts, m) == [counts EXCEPT ![m] = @ + 1]
Dec(counts, m) == [counts EXCEPT ![m] = @ - 1]

BucketFree == bucketMutex = NoThread
PartitionFree(p) == partMutex[p] = NoThread

Goto(t, label) == pc' = [pc EXCEPT ![t] = label]

-----------------------------------------------------------------------------
Init ==
  /\ status = [l \in Locker |-> None]
  /\ mode = [l \in Locker |-> None]
  /\ convertMode = [l \in Locker |-> None]
  /\ recursiveCount = [l \in Locker |-> 0]
  /\ partitioned = [l \in Locker |-> FALSE]
  /\ compatibleFirst = [l \in Locker |-> FALSE]
  /\ list = [l \in Locker |-> None]
  /\ notify = [l \in Locker |-> "invalid"]
  /\ grantedList = << >>
  /\ grantedCounts = [m \in Mode |-> 0]
  /\ conflictList = << >>
  /\ conflictCounts = [m \in Mode |-> 0]
  /\ conversionsCount = 0
  /\ compatibleFirstCount = 0
  /\ partitions = << >>
  /\ partExists = [p \in Partition |-> FALSE]
  /\ partGranted = [p \in Partition |-> << >>]
  /\ bucketMutex = NoThread
  /\ partMutex = [p \in Partition |-> NoThread]
  /\ pc = [t \in Thread |-> "idle"]
  /\ arg = [l \in Locker |-> None]
  /\ iter = 1
  /\ checkConflictQueue = FALSE
  /\ newlyCompatibleFirst = FALSE

-----------------------------------------------------------------------------
\* Mutant: the result of an earlier wait is left in place.
KeepNotification(l) == UNCHANGED notify

\* CondVarLockGrantNotification::clear, called by lockBegin.
ClearNotification(l) == notify' = [notify EXCEPT ![l] = "invalid"]

(* LockerImpl::lockBegin for a resource the locker has no request for, and *)
(* the part of LockManager::lock before any mutex is taken.                *)
CallLock(l, m) ==
  /\ pc[l] = "idle" /\ status[l] = None
  /\ status' = [status EXCEPT ![l] = "new"]
  /\ mode' = [mode EXCEPT ![l] = m]
  /\ convertMode' = [convertMode EXCEPT ![l] = None]
  /\ recursiveCount' = [recursiveCount EXCEPT ![l] = 1]
  /\ partitioned' = [partitioned EXCEPT ![l] = m \in Intent]
  /\ compatibleFirst' = [compatibleFirst EXCEPT ![l] = HasPriority(m)]
  /\ ClearNotification(l)
  /\ Goto(l, IF m \in Intent THEN "lockPartition" ELSE "lock")
  /\ UNCHANGED << list, head, parts, bucketMutex, partMutex, arg, scan >>

\* PartitionedLockHead::newRequest
PartitionNewRequest(l) ==
  /\ partGranted' = [partGranted EXCEPT ![PartitionOf[l]] = Append(@, l)]
  /\ status' = [status EXCEPT ![l] = "granted"]
  /\ list' = [list EXCEPT ![l] = "partition"]
  /\ UNCHANGED << mode, convertMode, recursiveCount, partitioned,
                  compatibleFirst, notify >>

(* lock(): the fast path for intent modes.                                 *)
LockPartition(l) ==
  /\ pc[l] = "lockPartition" /\ PartitionFree(PartitionOf[l])
  /\ \/ /\ partExists[PartitionOf[l]]
        /\ PartitionNewRequest(l)
        /\ Goto(l, "idle")
     \/ /\ ~partExists[PartitionOf[l]]
        /\ Goto(l, "lock")
        /\ UNCHANGED << request, partGranted >>
  /\ UNCHANGED << head, partitions, partExists, bucketMutex, partMutex, arg, scan >>

\* Mutant: a partition is started although requests wait on the head.
PathIgnoresWaiters(l) ==
  IF partitioned[l] /\ GrantedModes \subseteq Intent THEN "startPartition"
  ELSE IF partitions # << >> THEN "migrate" ELSE "locked"

(* lock(): take the bucket mutex and choose between a partition, a         *)
(* migration and the lock head.                                            *)
PathOnBucket(l) ==
  IF partitioned[l] /\ GrantedModes \subseteq Intent /\ ConflictModes = {}
  THEN "startPartition"
  ELSE IF partitions # << >> THEN "migrate" ELSE "locked"

LockBucket(l) ==
  /\ pc[l] = "lock" /\ BucketFree
  /\ bucketMutex' = l
  /\ Goto(l, PathOnBucket(l))
  /\ UNCHANGED << request, head, parts, partMutex, arg, scan >>

StartPartition(l) ==
  /\ pc[l] = "startPartition" /\ PartitionFree(PartitionOf[l])
  /\ partExists' = [partExists EXCEPT ![PartitionOf[l]] = TRUE]
  /\ partitions' = Append(partitions, PartitionOf[l])
  /\ PartitionNewRequest(l)
  /\ bucketMutex' = NoThread
  /\ Goto(l, "idle")
  /\ UNCHANGED << head, partMutex, arg, scan >>

\* Mutants: compatible-first lets everything in; new requests always overtake.
MustWaitMisparenthesised(l) ==
  compatibleFirstCount = 0 /\ ( \/ conflicts(mode[l], GrantedModes)
                                \/ conflicts(mode[l], ConflictModes) )

MustWaitOvertakes(l) == conflicts(mode[l], GrantedModes)

\* LockHead::newRequest, also used to migrate a granted request.
MustWait(l) ==
  \/ conflicts(mode[l], GrantedModes)
  \/ compatibleFirstCount = 0 /\ conflicts(mode[l], ConflictModes)

NewRequestWaits(l) ==
  /\ MustWait(l)
  /\ status' = [status EXCEPT ![l] = "waiting"]
  /\ list' = [list EXCEPT ![l] = "conflict"]
  /\ conflictList' = IF compatibleFirst[l] THEN << l >> \o conflictList
                                           ELSE Append(conflictList, l)
  /\ conflictCounts' = Inc(conflictCounts, mode[l])
  /\ UNCHANGED << grantedList, grantedCounts, compatibleFirstCount >>

NewRequestGranted(l) ==
  /\ ~MustWait(l)
  /\ status' = [status EXCEPT ![l] = "granted"]
  /\ list' = [list EXCEPT ![l] = "granted"]
  /\ grantedList' = Append(grantedList, l)
  /\ grantedCounts' = Inc(grantedCounts, mode[l])
  /\ compatibleFirstCount' = PolicyCount(l, 1)
  /\ UNCHANGED << conflictList, conflictCounts >>

NewRequest(l) ==
  /\ NewRequestWaits(l) \/ NewRequestGranted(l)
  /\ UNCHANGED << mode, convertMode, recursiveCount, compatibleFirst, notify,
                  conversionsCount >>

(* LockHead::migratePartitionedLockHeads: the partitions are emptied from  *)
(* the back, each under its own mutex, while the bucket mutex is held.     *)
MigrateBegin(t) ==
  /\ pc[t] = "migrate" /\ PartitionFree(Last(partitions))
  /\ partMutex' = [partMutex EXCEPT ![Last(partitions)] = t]
  /\ Goto(t, "migrating")
  /\ UNCHANGED << request, head, parts, bucketMutex, arg, scan >>

MigrateRequest(t) ==
  LET p == Last(partitions) IN
  /\ pc[t] = "migrating" /\ partGranted[p] # << >>
  /\ partGranted' = [partGranted EXCEPT ![p] = Tail(@)]
  /\ NewRequest(Head(partGranted[p]))
  /\ UNCHANGED << partitioned, partitions, partExists, bucketMutex, partMutex,
                  pc, arg, scan >>

MigrateEnd(t) ==
  LET p == Last(partitions) IN
  /\ pc[t] = "migrating" /\ partGranted[p] = << >>
  /\ partExists' = [partExists EXCEPT ![p] = FALSE]
  /\ partitions' = Front(partitions)
  /\ partMutex' = [partMutex EXCEPT ![p] = NoThread]
  /\ Goto(t, IF Len(partitions) > 1 THEN "migrate" ELSE "locked")
  /\ UNCHANGED << request, head, partGranted, bucketMutex, arg, scan >>

(* lock() once the head is locked and no longer partitioned.               *)
LockOnHead(l) ==
  /\ pc[l] = "locked" /\ arg[l] = None
  /\ partitioned' = [partitioned EXCEPT ![l] = FALSE]
  /\ NewRequest(l)
  /\ bucketMutex' = NoThread
  /\ Goto(l, IF MustWait(l) THEN "wait" ELSE "idle")
  /\ UNCHANGED << parts, partMutex, arg, scan >>

-----------------------------------------------------------------------------
(* lockBegin for a resource the locker holds already, and the fast path of *)
(* convert().  Conversions between unrelated modes are not allowed.        *)
CallConvert(l, m) ==
  /\ pc[l] = "idle" /\ status[l] # None
  /\ recursiveCount[l] < MaxRecursion
  /\ Covers(mode[l], m) \/ Covers(m, mode[l])
  /\ compatibleFirst' = [compatibleFirst EXCEPT ![l] = @ \/ HasPriority(m)]
  /\ ClearNotification(l)
  /\ recursiveCount' = [recursiveCount EXCEPT ![l] = @ + 1]
  /\ \/ /\ Covers(mode[l], m)
        /\ UNCHANGED << pc, arg >>
     \/ /\ ~Covers(mode[l], m)
        /\ arg' = [arg EXCEPT ![l] = m]
        /\ Goto(l, "convert")
  /\ UNCHANGED << status, mode, convertMode, partitioned, list, head, parts,
                  bucketMutex, partMutex, scan >>

ConvertBucket(l) ==
  /\ pc[l] = "convert" /\ BucketFree
  /\ bucketMutex' = l
  /\ Goto(l, IF partitions # << >> THEN "migrate" ELSE "locked")
  /\ UNCHANGED << request, head, parts, partMutex, arg, scan >>

ConvertWaits(l, m) ==
  /\ conflicts(m, OtherModes(l))
  /\ status' = [status EXCEPT ![l] = "converting"]
  /\ convertMode' = [convertMode EXCEPT ![l] = m]
  /\ conversionsCount' = conversionsCount + 1
  /\ grantedCounts' = Inc(grantedCounts, m)
  /\ Goto(l, "wait")
  /\ UNCHANGED mode

\* Mutant: the mode given up stays in the counts.
ConvertGrantedKeepsCount(l, m) ==
  /\ ~conflicts(m, OtherModes(l))
  /\ grantedCounts' = Inc(grantedCounts, m)
  /\ mode' = [mode EXCEPT ![l] = m]
  /\ Goto(l, "idle")
  /\ UNCHANGED << status, convertMode, conversionsCount >>

ConvertGranted(l, m) ==
  /\ ~conflicts(m, OtherModes(l))
  /\ grantedCounts' = Dec(Inc(grantedCounts, m), mode[l])
  /\ mode' = [mode EXCEPT ![l] = m]
  /\ Goto(l, "idle")
  /\ UNCHANGED << status, convertMode, conversionsCount >>

ConvertOnHead(l) ==
  /\ pc[l] = "locked" /\ arg[l] # None
  /\ ConvertWaits(l, arg[l]) \/ ConvertGranted(l, arg[l])
  /\ arg' = [arg EXCEPT ![l] = None]
  /\ bucketMutex' = NoThread
  /\ UNCHANGED << recursiveCount, partitioned, compatibleFirst, list, notify,
                  grantedList, conflictList, conflictCounts,
                  compatibleFirstCount, parts, partMutex, scan >>

-----------------------------------------------------------------------------
(* The call of _onLockModeChanged with the bucket mutex held.              *)
StartScan(t, check) ==
  /\ bucketMutex' = t
  /\ iter' = 1
  /\ checkConflictQueue' = check
  /\ newlyCompatibleFirst' = FALSE
  /\ Goto(t, "scanConversions")

(* downgrade(): the mode held is a full one, so the request is on the head. *)
CallDowngrade(l, m) ==
  /\ pc[l] = "idle" /\ status[l] # None
  /\ mode[l] \notin Intent /\ m # mode[l] /\ Covers(mode[l], m)
  /\ arg' = [arg EXCEPT ![l] = m]
  /\ Goto(l, "downgrade")
  /\ UNCHANGED << request, head, parts, bucketMutex, partMutex, scan >>

Downgrade(l) ==
  /\ pc[l] = "downgrade" /\ BucketFree
  /\ grantedCounts' = Dec(Inc(grantedCounts, arg[l]), mode[l])
  /\ mode' = [mode EXCEPT ![l] = arg[l]]
  /\ arg' = [arg EXCEPT ![l] = None]
  /\ StartScan(l, TRUE)
  /\ UNCHANGED << status, convertMode, recursiveCount, partitioned,
                  compatibleFirst, list, notify, grantedList, conflictList,
                  conflictCounts, conversionsCount, compatibleFirstCount,
                  parts, partMutex >>

-----------------------------------------------------------------------------
(* unlock(): everything before the first mutex.  The status is read with   *)
(* no mutex held.                                                          *)
BeginUnlock(l) ==
  /\ recursiveCount' = [recursiveCount EXCEPT ![l] = @ - 1]
  /\ Goto(l, IF status[l] = "granted" /\ recursiveCount[l] > 1 THEN "idle"
             ELSE IF partitioned[l] THEN "unlockPartition" ELSE "unlock")
  /\ UNCHANGED << status, mode, convertMode, partitioned, compatibleFirst,
                  list, notify, head, parts, partMutex, arg, scan >>

CallUnlock(l) ==
  /\ pc[l] = "idle" /\ status[l] # None
  /\ BeginUnlock(l)
  /\ UNCHANGED bucketMutex

\* The request is gone: LockerImpl::_unlockImpl removes it from the locker.
Forget(l) ==
  /\ status' = [status EXCEPT ![l] = None]
  /\ mode' = [mode EXCEPT ![l] = None]
  /\ partitioned' = [partitioned EXCEPT ![l] = FALSE]
  /\ compatibleFirst' = [compatibleFirst EXCEPT ![l] = FALSE]
  /\ notify' = [notify EXCEPT ![l] = "invalid"]

UnlockPartition(l) ==
  /\ pc[l] = "unlockPartition" /\ PartitionFree(PartitionOf[l])
  /\ \/ /\ list[l] = "partition"
        /\ partGranted' = [partGranted EXCEPT ![PartitionOf[l]] = RemoveRequest(@, l)]
        /\ list' = [list EXCEPT ![l] = None]
        /\ Forget(l)
        /\ Goto(l, "idle")
     \/ /\ list[l] # "partition"
        /\ Goto(l, "unlock")
        /\ UNCHANGED << status, mode, partitioned, compatibleFirst, list,
                        notify, partGranted >>
  /\ UNCHANGED << convertMode, recursiveCount, head, partitions, partExists,
                  bucketMutex, partMutex, arg, scan >>

\* Mutant: the count is tested before it is decremented.
LeavesNoHolderLate(l) == grantedCounts[mode[l]] = 0

\* The mode is no longer granted to anyone once l has released it.
LeavesNoHolder(l) == grantedCounts[mode[l]] = 1

(* unlock(): the part under the bucket mutex, by the status found there.   *)
UnlockGranted(l) ==
  /\ pc[l] = "unlock" /\ BucketFree /\ status[l] = "granted"
  /\ grantedList' = RemoveRequest(grantedList, l)
  /\ grantedCounts' = Dec(grantedCounts, mode[l])
  /\ list' = [list EXCEPT ![l] = None]
  /\ compatibleFirstCount' = PolicyCount(l, -1)
  /\ StartScan(l, LeavesNoHolder(l))
  /\ UNCHANGED << status, mode, convertMode, recursiveCount, partitioned,
                  compatibleFirst, notify, conflictList, conflictCounts,
                  conversionsCount, parts, partMutex, arg >>

UnlockWaiting(l) ==
  /\ pc[l] = "unlock" /\ BucketFree /\ status[l] = "waiting"
  /\ conflictList' = RemoveRequest(conflictList, l)
  /\ conflictCounts' = Dec(conflictCounts, mode[l])
  /\ list' = [list EXCEPT ![l] = None]
  /\ StartScan(l, TRUE)
  /\ UNCHANGED << status, mode, convertMode, recursiveCount, partitioned,
                  compatibleFirst, notify, grantedList, grantedCounts,
                  conversionsCount, compatibleFirstCount, parts, partMutex, arg >>

\* The count tested is the one of MODE_NONE, which is always 0.
UnlockConverting(l) ==
  /\ pc[l] = "unlock" /\ bucketMutex \in {NoThread, l}
  /\ status[l] = "converting"
  /\ status' = [status EXCEPT ![l] = "granted"]
  /\ conversionsCount' = conversionsCount - 1
  /\ grantedCounts' = Dec(grantedCounts, convertMode[l])
  /\ convertMode' = [convertMode EXCEPT ![l] = None]
  /\ StartScan(l, TRUE)
  /\ UNCHANGED << mode, recursiveCount, partitioned, compatibleFirst, list,
                  notify, grantedList, conflictList, conflictCounts,
                  compatibleFirstCount, parts, partMutex, arg >>

-----------------------------------------------------------------------------
(* lockComplete: the wait ends with the notification, or with a timeout or *)
(* a deadlock, and then the request is cancelled.                          *)
WaitOk(l) ==
  /\ pc[l] = "wait" /\ notify[l] = "ok"
  /\ Goto(l, "idle")
  /\ UNCHANGED << request, head, parts, bucketMutex, partMutex, arg, scan >>

\* Without CancelRace the thread that cancels a conversion starts when the
\* bucket mutex is free and is the next to get it.
WaitTimeout(l) ==
  /\ pc[l] = "wait" /\ notify[l] = "invalid"
  /\ \/ /\ recursiveCount[l] = 1 \/ CancelRace
        /\ UNCHANGED bucketMutex
     \/ /\ recursiveCount[l] > 1 /\ ~CancelRace
        /\ BucketFree /\ bucketMutex' = l
  /\ BeginUnlock(l)

-----------------------------------------------------------------------------
\* Mutant: the last request of the list is left out.
MoreConversionsOffByOne == iter < Len(grantedList) /\ conversionsCount > 0

\* The condition of the first loop of _onLockModeChanged.
MoreConversions == iter <= Len(grantedList) /\ conversionsCount > 0

(* _onLockModeChanged, first loop: one request of the granted list.  The   *)
(* status is set before the notification, and the owner of the request may *)
(* read it in between.                                                     *)
ScanConversion(t) ==
  LET l == grantedList[iter] IN
  /\ pc[t] = "scanConversions"
  /\ MoreConversions
  /\ \/ /\ status[l] = "converting" /\ ~conflicts(convertMode[l], OtherModes(l))
        /\ conversionsCount' = conversionsCount - 1
        /\ grantedCounts' = Dec(grantedCounts, mode[l])
        /\ status' = [status EXCEPT ![l] = "granted"]
        /\ mode' = [mode EXCEPT ![l] = convertMode[l]]
        /\ convertMode' = [convertMode EXCEPT ![l] = None]
        /\ Goto(t, "notifyConversion")
        /\ UNCHANGED iter
     \/ /\ status[l] = "converting" => conflicts(convertMode[l], OtherModes(l))
        /\ iter' = iter + 1
        /\ UNCHANGED << status, mode, convertMode, conversionsCount,
                        grantedCounts, pc >>
  /\ UNCHANGED << recursiveCount, partitioned, compatibleFirst, list, notify,
                  grantedList, conflictList, conflictCounts,
                  compatibleFirstCount, parts, bucketMutex, partMutex, arg,
                  checkConflictQueue, newlyCompatibleFirst >>

NotifyConversion(t) ==
  /\ pc[t] = "notifyConversion"
  /\ notify' = [notify EXCEPT ![grantedList[iter]] = "ok"]
  /\ iter' = iter + 1
  /\ Goto(t, "scanConversions")
  /\ UNCHANGED << status, mode, convertMode, recursiveCount, partitioned,
                  compatibleFirst, list, head, parts, bucketMutex, partMutex,
                  arg, checkConflictQueue, newlyCompatibleFirst >>

ScanConversionsDone(t) ==
  /\ pc[t] = "scanConversions"
  /\ ~MoreConversions
  /\ iter' = 1
  /\ Goto(t, IF checkConflictQueue THEN "scanConflicts" ELSE "scanned")
  /\ UNCHANGED << request, head, parts, bucketMutex, partMutex, arg,
                  checkConflictQueue, newlyCompatibleFirst >>

(* Second loop: one request of the conflict list.                          *)
ScanSkip(t) ==
  /\ pc[t] = "scanConflicts" /\ iter <= Len(conflictList)
  /\ conflicts(mode[conflictList[iter]], GrantedModes)
  /\ \/ /\ iter = 1 /\ ~newlyCompatibleFirst
        /\ Goto(t, "scanned")
        /\ UNCHANGED iter
     \/ /\ iter > 1 \/ newlyCompatibleFirst
        /\ iter' = iter + 1
        /\ UNCHANGED pc
  /\ UNCHANGED << request, head, parts, bucketMutex, partMutex, arg,
                  checkConflictQueue, newlyCompatibleFirst >>

ScanGrant(t) ==
  LET l == conflictList[iter] IN
  /\ pc[t] = "scanConflicts" /\ iter <= Len(conflictList)
  /\ ~conflicts(mode[l], GrantedModes)
  /\ status' = [status EXCEPT ![l] = "granted"]
  /\ conflictList' = RemoveAt(conflictList, iter)
  /\ conflictCounts' = Dec(conflictCounts, mode[l])
  /\ grantedList' = Append(grantedList, l)
  /\ grantedCounts' = Inc(grantedCounts, mode[l])
  /\ list' = [list EXCEPT ![l] = "granted"]
  /\ newlyCompatibleFirst' =
       (newlyCompatibleFirst \/ (compatibleFirst[l] /\ compatibleFirstCount = 0))
  /\ compatibleFirstCount' = PolicyCount(l, 1)
  /\ notify' = [notify EXCEPT ![l] = "ok"]
  /\ Goto(t, IF mode[l] = "X" THEN "scanned" ELSE "scanConflicts")
  /\ UNCHANGED << mode, convertMode, recursiveCount, partitioned,
                  compatibleFirst, conversionsCount, parts, bucketMutex,
                  partMutex, arg, iter, checkConflictQueue >>

ScanConflictsDone(t) ==
  /\ pc[t] = "scanConflicts" /\ iter > Len(conflictList)
  /\ Goto(t, "scanned")
  /\ UNCHANGED << request, head, parts, bucketMutex, partMutex, arg, scan >>

(* unlock() and downgrade() return; a request without references is gone.  *)
FinishScan(t) ==
  /\ pc[t] = "scanned"
  /\ bucketMutex' = NoThread
  /\ iter' = 1 /\ checkConflictQueue' = FALSE /\ newlyCompatibleFirst' = FALSE
  /\ \/ recursiveCount[t] = 0 /\ Forget(t)
     \/ /\ recursiveCount[t] > 0
        /\ UNCHANGED << status, mode, partitioned, compatibleFirst, notify >>
  /\ Goto(t, "idle")
  /\ UNCHANGED << convertMode, recursiveCount, list, head, parts, partMutex, arg >>

-----------------------------------------------------------------------------
(* _cleanupUnusedLocksInBucket for this resource: migrate what is          *)
(* partitioned, then delete the lock head if nothing is granted.           *)
CleanBucket ==
  /\ pc[Cleaner] = "idle" /\ BucketFree
  /\ bucketMutex' = Cleaner
  /\ Goto(Cleaner, IF partitions # << >> THEN "migrate" ELSE "locked")
  /\ UNCHANGED << request, head, parts, partMutex, arg, scan >>

\* The invariant() calls on a head that is about to be deleted: the process does
\* not get past one that fails.
HeadUnused ==
  /\ grantedList = << >> /\ conflictList = << >> /\ ConflictModes = {}
  /\ conversionsCount = 0 /\ compatibleFirstCount = 0

CleanHead ==
  /\ pc[Cleaner] = "locked"
  /\ bucketMutex' = NoThread
  /\ Goto(Cleaner, "idle")
  /\ \/ /\ GrantedModes = {} /\ HeadUnused
        /\ grantedList' = << >> /\ grantedCounts' = [m \in Mode |-> 0]
        /\ conflictList' = << >> /\ conflictCounts' = [m \in Mode |-> 0]
        /\ conversionsCount' = 0 /\ compatibleFirstCount' = 0
     \/ GrantedModes # {} /\ UNCHANGED head
  /\ UNCHANGED << request, parts, partMutex, arg, scan >>

-----------------------------------------------------------------------------
\* What a locker's thread does on its own account, and what ends a call.
Call(l) ==
  \/ \E m \in Asked : CallLock(l, m) \/ CallConvert(l, m) \/ CallDowngrade(l, m)
  \/ WaitTimeout(l)

Acquire(l) ==
  LockBucket(l) \/ ConvertBucket(l) \/ Downgrade(l)
  \/ UnlockGranted(l) \/ UnlockWaiting(l) \/ UnlockConverting(l)

Progress(l) ==
  \/ LockPartition(l) \/ StartPartition(l) \/ LockOnHead(l) \/ ConvertOnHead(l)
  \/ UnlockPartition(l) \/ WaitOk(l) \/ FinishScan(l)
  \/ ScanConversion(l) \/ NotifyConversion(l) \/ ScanConversionsDone(l)
  \/ ScanSkip(l) \/ ScanGrant(l) \/ ScanConflictsDone(l)

Migrate(t) == MigrateBegin(t) \/ MigrateRequest(t) \/ MigrateEnd(t)

Next ==
  \/ \E l \in Locker : Call(l) \/ CallUnlock(l) \/ Acquire(l) \/ Progress(l)
  \/ \E t \in Thread : Migrate(t)
  \/ CleanBucket \/ CleanHead

Spec == Init /\ [][Next]_vars

(* Mutexes are handed out fairly (strong fairness of what takes the bucket *)
(* mutex), threads run, and whoever holds the lock gives it back.          *)
FairSpec ==
  /\ Spec
  /\ \A l \in Locker : /\ WF_vars(Progress(l)) /\ WF_vars(Migrate(l))
                       /\ SF_vars(Acquire(l)) /\ WF_vars(CallUnlock(l))
  /\ WF_vars(Migrate(Cleaner)) /\ WF_vars(CleanHead)

-----------------------------------------------------------------------------
Label == {"idle", "lockPartition", "lock", "startPartition", "migrate",
          "migrating", "locked", "wait", "convert", "downgrade",
          "unlockPartition", "unlock", "scanConversions", "notifyConversion",
          "scanConflicts", "scanned"}

RequestType ==
  /\ status \in [Locker -> {None, "new", "granted", "waiting", "converting"}]
  /\ mode \in [Locker -> Mode \cup {None}]
  /\ convertMode \in [Locker -> Mode \cup {None}]
  /\ recursiveCount \in [Locker -> 0 .. MaxRecursion]
  /\ partitioned \in [Locker -> BOOLEAN]
  /\ compatibleFirst \in [Locker -> BOOLEAN]
  /\ list \in [Locker -> {None, "granted", "conflict", "partition"}]
  /\ notify \in [Locker -> {"invalid", "ok"}]

HeadType ==
  /\ grantedList \in Seq(Locker) /\ conflictList \in Seq(Locker)
  /\ grantedCounts \in [Mode -> Nat] /\ conflictCounts \in [Mode -> Nat]
  /\ conversionsCount \in Nat /\ compatibleFirstCount \in 0 .. UIntRange - 1

PartitionType ==
  /\ partitions \in Seq(Partition)
  /\ partExists \in [Partition -> BOOLEAN]
  /\ partGranted \in [Partition -> Seq(Locker)]

ControlType ==
  /\ bucketMutex \in Thread \cup {NoThread}
  /\ partMutex \in [Partition -> Thread \cup {NoThread}]
  /\ pc \in [Thread -> Label]
  /\ arg \in [Locker -> Mode \cup {None}]
  /\ iter \in Nat \ {0}
  /\ checkConflictQueue \in BOOLEAN /\ newlyCompatibleFirst \in BOOLEAN

(* Types of the requests, the lock head, the partitions and the control.   *)
TypeOK == RequestType /\ HeadType /\ PartitionType /\ ControlType

Compatible(S) ==
  \A l1, l2 \in S : l1 # l2 => mode[l1] \notin LockConflictsTable(mode[l2])

(* Two lockers whose last lock call returned LOCK_OK hold compatible modes, *)
(* whether their requests hang on the lock head or on a partition.         *)
MutualExclusion ==
  Compatible({ l \in Locker : pc[l] = "idle" /\ status[l] # None })

(* The counts of the lock head are those of its two lists (lock_manager.cpp *)
(* 285-287, 302-304 and 312-319): "exactly match the aggregated modes".    *)
CountsMatch ==
  /\ \A m \in Mode :
       /\ grantedCounts[m] =
            Cardinality({ l \in Locker : list[l] = "granted" /\ mode[l] = m })
            + Cardinality({ l \in Locker : convertMode[l] = m })
       /\ conflictCounts[m] =
            Cardinality({ l \in Locker : list[l] = "conflict" /\ mode[l] = m })
  /\ conversionsCount = Cardinality({ l \in Locker : status[l] = "converting" })

(* A partition has requests only while the head is partitioned, and then   *)
(* the head has intent modes and no waiters (305-306, 334-344): no request *)
(* on a partition is overlooked when a full mode is granted.               *)
PartitionedIsIntent ==
  /\ \A p \in Partition : /\ partExists[p] => p \in ToSet(partitions)
                          /\ partGranted[p] # << >> => partExists[p]
  /\ partitions # << >> => GrantedModes \subseteq Intent /\ ConflictModes = {}

(* Unless a request jumps the queue, whoever is first in the queue really  *)
(* conflicts with a granted mode: skipping the scan (checkConflictQueue)   *)
(* and leaving it early lose no grant.                                     *)
NoLostWakeup ==
  BucketFree /\ conflictList # << >> /\ ~IsGlobal
    => conflicts(mode[Head(conflictList)], GrantedModes)

(* A conversion left waiting conflicts with a mode of another request: one *)
(* pass over the granted list is enough.                                   *)
NoLostConversion ==
  BucketFree => \A l \in Locker : status[l] = "converting"
                                    => conflicts(convertMode[l], OtherModes(l))

(* The invariant() calls of the lock manager, each where it is evaluated.  *)
AssertedLocker(l) ==
  /\ pc[l] = "unlockPartition" => status[l] \in {"granted", "converting"}
  /\ pc[l] \in {"unlock", "downgrade"} => list[l] \in {"granted", "conflict"}
  /\ pc[l] = "unlock" /\ bucketMutex \in {NoThread, l} =>
       \/ status[l] = "waiting" /\ recursiveCount[l] = 0
       \/ status[l] = "converting" /\ recursiveCount[l] > 0 /\ conversionsCount > 0
       \/ status[l] = "granted" /\ grantedCounts[mode[l]] > 0
  /\ pc[l] = "idle" /\ status[l] # None => status[l] = "granted" /\ recursiveCount[l] > 0
  /\ status[l] \in {"waiting", "converting"} => notify[l] = "invalid"
  /\ pc[l] = "scanned" => /\ GrantedModes = {} <=> grantedList = << >>
                          /\ ConflictModes = {} <=> conflictList = << >>

Asserted ==
  /\ \A l \in Locker : AssertedLocker(l)
  /\ \A t \in Thread :
       /\ pc[t] = "migrate" => GrantedModes \subseteq Intent /\ ConflictModes = {}
       /\ pc[t] = "migrating" /\ partGranted[Last(partitions)] # << >>
            => ~MustWait(Head(partGranted[Last(partitions)]))
  /\ pc[Cleaner] = "locked" /\ GrantedModes = {} => HeadUnused

(* unlock() says of a request it finds granted (587-589): "The fast path   *)
(* for decrementing multiple references did already ensure                 *)
(* request->recursiveCount == 0."                                          *)
ReleasesLastReference ==
  \A l \in Locker : pc[l] = "unlock" /\ BucketFree /\ status[l] = "granted"
                      => recursiveCount[l] = 0

(* convert() says (480-482): "If we are here, we already hold the lock in  *)
(* some mode", and asserts that the request is granted.                    *)
ConvertsWhatIsHeld ==
  \A l \in Locker : pc[l] = "idle" /\ status[l] # None => status[l] = "granted"

(* LockHead says of compatibleFirstCount (321-323): it "Counts the number  *)
(* of requests on the granted queue, which have requested that the policy  *)
(* be switched to compatible-first".                                       *)
CompatibleFirstCounted ==
  (\A t \in Thread : pc[t] = "idle")
    => compatibleFirstCount =
         Cardinality({ l \in Locker : list[l] = "granted" /\ compatibleFirst[l] })

(* _onLockModeChanged says of the queue it scans once an X lock was freed  *)
(* (733-742) that it "will grant *all* compatible requests on the line     *)
(* even though there might be conflicting ones interspersed".              *)
GrantsAllCompatible ==
  \A l \in Locker :
    pc[l] = "scanned" /\ mode[l] = "X" /\ list[l] = None
      => \A w \in ToSet(conflictList) : conflicts(mode[w], GrantedModes)

(* Every waiter is served or gives up, even an X behind a stream of        *)
(* compatible requests: the scan stops at the front of the queue (757-767). *)
WaiterServed ==
  \A l \in Locker : status[l] = "waiting" ~> status[l] # "waiting"

=============================================================================
