------------------------- MODULE LockManagerProofs --------------------------
(* The lock manager, for any number of lockers and partitions: it excludes *)
(* conflicting modes, it leaves nobody waiting without reason, and its     *)
(* invariant() calls hold.  The last two rest on the second invariant of   *)
(* LockManagerInvariant, which says who is blocked by whom: first, that    *)
(* conversions, downgrades, releases and the steps of a scan keep it.      *)
EXTENDS LockManagerGrants, Integers, TLAPS

-----------------------------------------------------------------------------
(* The steps of a scan keep the first invariant.                           *)

\* The notification of a granted conversion keeps the invariant.
LEMMA NotifyConversionStep ==
  ASSUME IInv, Counting, NEW t \in Locker, NotifyConversion(t)
  PROVE  IInv'
<1>1. /\ t \in Thread /\ Locker \subseteq Thread /\ t # Cleaner /\ TypeOK /\ RequestOK(t)
      /\ bucketMutex = t
      /\ \A u \in Thread : u # t => pc[u] \notin InCriticalSection
  BY ZenonT(60), Scanning DEF InScan, NotifyConversion
<1>2. /\ iter \in DOMAIN grantedList /\ grantedList[iter] \in Locker
      /\ pc[grantedList[iter]] = "wait" /\ status[grantedList[iter]] = "granted"
  BY <1>1 DEF NotifyConversion, IInv, Notification, TypeOK, HeadType
<1>3. PICK l \in Locker : l = grantedList[iter]
  BY Zenon, <1>2
<1>4. /\ pc[t] = "notifyConversion" /\ pc'[t] = "scanConversions" /\ bucketMutex' = t
      /\ UNCHANGED << status, mode, convertMode, recursiveCount, partitioned, list, head, parts,
                      partMutex, arg, grantedCounts, conflictCounts, conflictList, partGranted,
                      partitions, conversionsCount >>
      /\ \A u \in Thread : u # t => pc'[u] = pc[u]
  BY Zenon, <1>1 DEF NotifyConversion, Goto, TypeOK, ControlType, head, parts
<1>5. l # t /\ pc'[l] = "wait" /\ pc[l] = "wait" /\ status[l] = "granted" /\ notify'[l] = "ok"
      /\ OthersKept(l) /\ RequestOK(l)
  BY ZenonT(60), <1>1, <1>2, <1>3, <1>4 DEF NotifyConversion, OthersKept, TypeOK, RequestType,
       IInv, Requests
<1>6. RequestType'
  BY Zenon, <1>1, <1>3 DEF NotifyConversion, TypeOK, RequestType
<1>7. HeadType' /\ PartitionType' /\ Partitions'
  BY Zenon, <1>4, Frame
<1>8. ControlType'
  BY <1>1 DEF NotifyConversion, Goto, TypeOK, ControlType, Label
<1>9. CountsFollow(l)
  BY Zenon, <1>1, <1>4, CountedAlike DEF TypeOK
<1>10. CompatibleOne(l)
  BY Zenon, <1>4 DEF CompatibleOne, IInv, Compatible, Held
<1>11. Lists'
  BY Zenon, <1>4, Frame
<1>12. Mutexes'
  BY ZenonT(60), <1>1, <1>4, MutexesStep DEF IInv, Mutexes, InCriticalSection
<1>13. Migration'
  BY Zenon, <1>1, <1>4, MigrationStep DEF InMigration
<1>14. Notification'
  <2>1. \A u \in Thread : pc'[u] # "notifyConversion"
    BY Zenon, <1>1, <1>4 DEF InCriticalSection
  <2>2. ASSUME NEW k \in Locker, pc'[k] = "wait", status'[k] = "granted", notify'[k] = "invalid"
        PROVE  FALSE
    <3>1. k # l /\ k # t
      BY Zenon, <1>4, <1>5, <2>2
    <3>2. pc[k] = "wait" /\ status[k] = "granted" /\ notify[k] = "invalid"
      BY ZenonT(60), <1>1, <1>4, <1>5, <2>2, <3>1 DEF OthersKept
    <3>3. PICK u \in Thread : pc[u] = "notifyConversion" /\ grantedList[iter] = k
      BY Zenon, <3>2 DEF IInv, Notification
    <3> QED BY Zenon, <1>3, <3>1, <3>3
  <2> QED BY Zenon, <2>1, <2>2 DEF Notification
<1>15. RequestOK(l)'
  BY Zenon, <1>4, <1>5 DEF RequestOK, Held, InScan
<1>16. RequestOK(t)'
  <2>1. notify'[t] = notify[t]
    BY Zenon, <1>5 DEF OthersKept
  <2> QED BY Zenon, <1>1, <1>4, <2>1 DEF RequestOK, Held, InScan, None
<1> QED BY ZenonT(60), <1>1, <1>4, <1>5, <1>6, <1>7, <1>8, <1>9, <1>10, <1>11, <1>12, <1>13,
     <1>14, <1>15,
           <1>16, RequestStep

\* A round of the loop over the waiters, which grants one, keeps the invariant.
LEMMA ScanGrantStep ==
  ASSUME IInv, Counting, NEW t \in Locker, ScanGrant(t)
  PROVE  IInv'
<1>1. /\ t \in Thread /\ Locker \subseteq Thread /\ t # Cleaner /\ TypeOK /\ RequestOK(t)
      /\ bucketMutex = t
      /\ \A u \in Thread : u # t => pc[u] \notin InCriticalSection
  BY ZenonT(60), Scanning DEF InScan, ScanGrant
<1>2. iter \in DOMAIN conflictList /\ conflictList[iter] \in Locker
  BY Zenon, <1>1, InList DEF ScanGrant, TypeOK, HeadType, ControlType
<1>3. PICK l \in Locker : l = conflictList[iter]
  BY Zenon, <1>2
<1>4. /\ list[l] = "conflict" /\ status[l] = "waiting" /\ pc[l] \in {"wait", "unlock"}
      /\ mode[l] \in Mode /\ convertMode[l] = None /\ RequestOK(l) /\ l # t
      /\ ~conflicts(mode[l], GrantedModes)
  <2>1. list[l] = "conflict" /\ RequestOK(l)
    BY ZenonT(60), <1>2, <1>3 DEF IInv, Lists, Requests
  <2>2. mode[l] \in Mode
    BY Zenon, <2>1, Counted DEF None
  <2>3. ~conflicts(mode[l], GrantedModes) /\ pc[t] = "scanConflicts"
    BY Zenon, <1>3 DEF ScanGrant
  <2>4. status[l] = "waiting" /\ pc[l] \in {"wait", "unlock"} /\ convertMode[l] = None
    BY Zenon, <2>1 DEF RequestOK
  <2> QED BY Zenon, <2>1, <2>2, <2>3, <2>4
<1>5. partitions = << >>
  <2>1. mode[l] \in ConflictModes
    BY Zenon, <1>4, Counted
  <2> QED BY Zenon, <2>1 DEF IInv, Partitions, IntentOnly
<1>6. /\ pc[t] = "scanConflicts" /\ pc'[t] \in {"scanConflicts", "scanned"} /\ bucketMutex' = t
      /\ UNCHANGED << mode, convertMode, recursiveCount, partitioned, parts, partMutex, arg,
                      partGranted, partitions, conversionsCount >>
      /\ \A u \in Thread : u # t => pc'[u] = pc[u]
  BY Zenon, <1>1 DEF ScanGrant, Goto, TypeOK, ControlType, parts
<1>7. /\ OthersKept(l) /\ status'[l] = "granted" /\ list'[l] = "granted" /\ notify'[l] = "ok"
      /\ pc'[l] = pc[l]
  <2>1. OthersKept(l) /\ status'[l] = "granted" /\ list'[l] = "granted" /\ notify'[l] = "ok"
    BY Zenon, <1>1, <1>3, <1>6 DEF ScanGrant, OthersKept, TypeOK, RequestType
  <2> QED BY Zenon, <1>1, <1>4, <1>6, <2>1
<1>8. RequestType'
  BY Zenon, <1>1, <1>3 DEF ScanGrant, TypeOK, RequestType
<1>9. /\ grantedCounts \in [Mode -> Nat] /\ grantedCounts' = Inc(grantedCounts, mode[l])
      /\ conflictCounts \in [Mode -> Nat] /\ conflictCounts' = Dec(conflictCounts, mode[l])
      /\ conflictCounts[mode[l]] > 0
      /\ grantedList' = Append(grantedList, l) /\ conflictList' = RemoveAt(conflictList, iter)
      /\ compatibleFirstCount' = PolicyCount(l, 1)
  BY Zenon, <1>1, <1>3, <1>4, Counted DEF ScanGrant, TypeOK, HeadType
<1>10. /\ conflictList \in Seq(Locker) /\ NoRepeats(conflictList)
       /\ conflictList' \in Seq(Locker) /\ NoRepeats(conflictList')
       /\ \A j \in DOMAIN conflictList' :
            \E k \in DOMAIN conflictList : k # iter /\ conflictList'[j] = conflictList[k]
  <2>1. conflictList \in Seq(Locker) /\ NoRepeats(conflictList)
    BY ZenonT(60), <1>1 DEF IInv, Lists, TypeOK, HeadType
  <2>2. LET u == RemoveAt(conflictList, iter)
        IN /\ u \in Seq(Locker) /\ NoRepeats(u)
           /\ \A j \in DOMAIN u : \E k \in DOMAIN conflictList : k # iter /\ u[j] = conflictList[k]
    BY Zenon, <1>2, <2>1, RemoveAtFacts
  <2> QED BY Zenon, <1>9, <2>1, <2>2
<1>11. HeadType'
  <2>1. grantedCounts' \in [Mode -> Nat] /\ conflictCounts' \in [Mode -> Nat]
    BY ZenonT(60), <1>4, <1>9, IncDec
  <2>2. grantedList' \in Seq(Locker) /\ compatibleFirstCount' \in 0 .. UIntRange - 1
    BY <1>1, <1>9, PolicyType DEF TypeOK, HeadType
  <2> QED BY Zenon, <1>1, <1>6, <1>10, <2>1, <2>2 DEF TypeOK, HeadType
<1>12. PartitionType'
  BY Zenon, <1>6, Frame
<1>13. ControlType'
  <2>1. newlyCompatibleFirst' \in BOOLEAN
    BY Zenon DEF ScanGrant
  <2>2. pc' \in [Thread -> Label]
    BY ZenonT(60), <1>1 DEF ScanGrant, Goto, TypeOK, ControlType, Label
  <2> QED BY Zenon, <1>1, <1>6, <2>1, <2>2 DEF ScanGrant, TypeOK, ControlType
<1>14. CountsFollow(l)
  BY Zenon, <1>1, <1>4, <1>6, <1>7, <1>9, WaiterGrantedCounted DEF TypeOK
<1>15. CompatibleOne(l)
  BY Zenon, <1>4, <1>5, <1>6, HeadGrantCompatible DEF CompatibleOne
<1>16. Partitions'
  BY ZenonT(60), <1>5, <1>6 DEF IInv, Partitions, parts
<1>17. Lists'
  <2>1. \A j \in DOMAIN conflictList' : list'[conflictList'[j]] = "conflict"
    <3> TAKE j \in DOMAIN conflictList'
    <3>1. PICK k \in DOMAIN conflictList : k # iter /\ conflictList'[j] = conflictList[k]
      BY Zenon, <1>10
    <3>2. conflictList[k] \in Locker /\ conflictList[k] # l /\ list[conflictList[k]] = "conflict"
      BY Zenon, <1>2, <1>3, <3>1, OnConflictList DEF NoRepeats
    <3> QED BY Zenon, <1>7, <3>1, <3>2 DEF OthersKept
  <2> QED BY Zenon, <1>4, <1>6, <1>7, <1>10, <2>1, ConflictListsFrame
<1>18. Mutexes'
  <2>1. status'[t] # "converting"
    BY ZenonT(60), <1>1, <1>4, <1>6, <1>7 DEF OthersKept, RequestOK
  <2>2. \A k \in Locker : status'[k] = "converting" => status[k] = "converting"
    BY Zenon, <1>7 DEF OthersKept
  <2> QED BY Zenon, <1>1, <1>6, <2>1, <2>2, MutexesStep
<1>19. Migration'
  BY Zenon, <1>1, <1>6, MigrationStep DEF InMigration
<1>20. Notification'
  BY ZenonT(60), <1>1, <1>6, <1>7, NotificationStep DEF OthersKept
<1>21. RequestOK(l)'
  <2>1. /\ mode'[l] = mode[l] /\ convertMode'[l] = convertMode[l] /\ arg'[l] = arg[l]
        /\ recursiveCount'[l] = recursiveCount[l] /\ partitioned'[l] = partitioned[l]
    BY Zenon, <1>6
  <2> QED BY ZenonT(60), <1>4, <1>7, <2>1 DEF RequestOK, Held, InScan, None
<1>22. RequestOK(t)'
  <2>1. /\ status'[t] = status[t] /\ mode'[t] = mode[t] /\ convertMode'[t] = convertMode[t]
        /\ recursiveCount'[t] = recursiveCount[t] /\ partitioned'[t] = partitioned[t]
        /\ list'[t] = list[t] /\ notify'[t] = notify[t] /\ arg'[t] = arg[t]
    BY Zenon, <1>4, <1>6, <1>7 DEF OthersKept
  <2> QED BY Zenon, <1>1, <1>6, <2>1 DEF RequestOK, Held, InScan, None
<1> QED BY ZenonT(60), <1>1, <1>6, <1>7, <1>8, <1>11, <1>12, <1>13, <1>14, <1>15, <1>16, <1>17,
     <1>18, <1>19,
           <1>20, <1>21, <1>22, RequestStep

-----------------------------------------------------------------------------
(* The steps that change the lock head keep the second invariant.          *)

\* A conversion that must wait: its mode is counted as granted from now on.
LEMMA ConvertWaitsQueues ==
  ASSUME IInv, IInv', Tallied, Waiting, NEW l \in Locker, ConvertOnHead(l), ConvertWaits(l, arg[l])
  PROVE  Waiting'
<1>1. /\ l \in Thread /\ Locker \subseteq Thread /\ TypeOK /\ RequestOK(l) /\ HeadType /\ HeadType'
      /\ pc[l] = "locked" /\ arg[l] # None
  BY Zenon DEF Thread, IInv, Requests, ConvertOnHead, TypeOK
<1>2. /\ arg[l] \in Mode /\ bucketMutex = l /\ status[l] = "granted" /\ convertMode[l] = None
  <2>1. arg[l] \in Mode /\ bucketMutex = l
    BY ZenonT(60), <1>1 DEF IInv, Mutexes, InCriticalSection, TypeOK, ControlType
  <2>2. status[l] = "granted"
    BY Zenon, <1>1 DEF RequestOK
  <2> QED BY ZenonT(60), <1>1, <2>1, <2>2 DEF RequestOK
<1>3. /\ UNCHANGED << mode, compatibleFirst, list, notify, grantedList, conflictList,
                      compatibleFirstCount, iter, checkConflictQueue, newlyCompatibleFirst >>
      /\ grantedCounts' = Inc(grantedCounts, arg[l]) /\ conflicts(arg[l], OtherModes(l))
  BY Zenon DEF ConvertOnHead, ConvertWaits, scan
<1>4. /\ OthersKept(l) /\ status'[l] = "converting" /\ convertMode'[l] = arg[l]
      /\ \A k \in Locker : k # l => arg'[k] = arg[k]
  BY Zenon, <1>1 DEF ConvertOnHead, ConvertWaits, OthersKept, TypeOK, RequestType, ControlType
<1>5. pc'[l] = "wait" /\ \A u \in Thread : u # l => pc'[u] = pc[u]
  BY Zenon, <1>1 DEF ConvertWaits, Goto, TypeOK, ControlType
<1>6. ~QueueToScan /\ \A k \in Locker : ~ToScan(k)
  BY Zenon, <1>1, <1>2, NobodyScans DEF InScan
<1>7. /\ grantedCounts \in [Mode -> Nat]
      /\ \A m \in Mode : grantedCounts'[m] = grantedCounts[m] + Bit(arg[l] = m)
  <2>1. grantedCounts \in [Mode -> Nat]
    BY Zenon, <1>1 DEF HeadType
  <2> QED BY <1>2, <1>3, <2>1 DEF Inc, Bit
<1>8. GrantsCovered /\ \A k \in Locker : k # l => OthersCovered(k)
  <2>1. \A m \in Mode : grantedCounts'[m] >= grantedCounts[m]
    BY <1>7 DEF Bit
  <2> QED BY Zenon, <1>1, <1>4, <2>1, GrowingCovers DEF OthersKept
<1>9. ListsExact'
  BY Zenon, <1>3 DEF Waiting, ListsExact, GrantedExact, QueueExact
<1>10. Widening' /\ Unnotified'
  <2>1. Covers(arg[l], mode[l])
    BY Zenon, <1>1 DEF Waiting, Widening, Converts
  <2>2. Widening'
    BY Zenon, <1>1, <1>3, <1>4, <1>5, <2>1 DEF Waiting, Widening, OthersKept, Converts
  <2> QED BY Zenon, <1>3, <1>4, <2>2 DEF Waiting, Unnotified, OthersKept
<1>11. PolicyUnused'
  <2>1. ~IsGlobal => newlyCompatibleFirst' = FALSE
    BY Zenon, <1>3 DEF Waiting, PolicyUnused
  <2>2. \A u \in Thread : pc'[u] = "scanConflicts" => pc[u] = "scanConflicts" /\ iter' = iter
    BY Zenon, <1>3, <1>5
  <2> QED BY Zenon, <1>3, <2>1, <2>2, PolicyUnusedStep DEF Waiting
<1>12. PolicyCounted'
  BY Zenon, <1>3, <1>4, PolicyStep DEF Waiting
<1>13. QueueBlocked'
  BY Zenon, <1>1, <1>3, <1>6, <1>8, QueueStep DEF Waiting, QueueBlocked
<1>14. ConversionsBlocked'
  <2> SUFFICES ASSUME NEW k \in Locker, status'[k] = "converting"
               PROVE  conflicts(convertMode'[k], OtherModes(k)')
    BY Zenon DEF ConversionsBlocked
  <2>1. CASE k = l
    <3>1. OtherModes(l)' = OtherModes(l)
      <4>1. mode'[l] = mode[l] /\ \A m \in Mode : m # None
        BY Zenon, <1>3 DEF Mode, None
      <4> QED BY SMTT(30), <1>2, <1>4, <1>7, <4>1 DEF OtherModes, Bit
    <3> QED BY ZenonT(60), <1>3, <1>4, <2>1, <3>1
  <2>2. CASE k # l
    <3>1. status[k] = "converting" /\ convertMode'[k] = convertMode[k]
      BY Zenon, <1>4, <2>2 DEF OthersKept
    <3>2. conflicts(convertMode[k], OtherModes(k))
      BY ZenonT(60), <1>6, <3>1 DEF Waiting, ConversionsBlocked
    <3> QED BY ZenonT(60), <1>8, <2>2, <3>1, <3>2, ConversionStep
  <2> QED BY Zenon, <2>1, <2>2
<1> QED BY ZenonT(60), <1>9, <1>10, <1>11, <1>12, <1>13, <1>14 DEF Waiting

\* A conversion that is granted at once: its new mode covers the old one.
LEMMA ConvertGrantedQueues ==
  ASSUME IInv, IInv', Tallied, Waiting, NEW l \in Locker, ConvertOnHead(l), ConvertGranted(l, arg[l])
  PROVE  Waiting'
<1>1. /\ l \in Thread /\ Locker \subseteq Thread /\ TypeOK /\ RequestOK(l) /\ HeadType /\ HeadType'
      /\ pc[l] = "locked" /\ arg[l] # None
  BY Zenon DEF Thread, IInv, Requests, ConvertOnHead, TypeOK
<1>2. /\ arg[l] \in Mode /\ bucketMutex = l /\ status[l] = "granted" /\ list[l] = "granted"
      /\ mode[l] \in Mode /\ Covers(arg[l], mode[l])
  <2>1. arg[l] \in Mode /\ bucketMutex = l
    BY Zenon, <1>1 DEF IInv, Mutexes, InCriticalSection, TypeOK, ControlType
  <2>2. status[l] = "granted" /\ l \in Held /\ partitions = << >>
    BY Zenon, <1>1 DEF RequestOK, IInv, Migration
  <2>3. list[l] = "granted"
    BY Zenon, <2>2, HeldOnHead
  <2>4. mode[l] \in Mode
    BY Zenon, <2>3, HeldAreCounted DEF HeldCounted, RequestCounted, None
  <2>5. Covers(arg[l], mode[l])
    BY Zenon, <1>1 DEF Waiting, Widening, Converts
  <2> QED BY ZenonT(60), <2>1, <2>2, <2>3, <2>4, <2>5
<1>3. /\ UNCHANGED << status, convertMode, compatibleFirst, list, notify, grantedList,
                      conflictList, compatibleFirstCount, iter, checkConflictQueue,
                      newlyCompatibleFirst >>
      /\ grantedCounts' = Dec(Inc(grantedCounts, arg[l]), mode[l])
  BY Zenon DEF ConvertOnHead, ConvertGranted, scan
<1>4. /\ OthersKept(l) /\ mode'[l] = arg[l]
      /\ \A k \in Locker : k # l => arg'[k] = arg[k]
  BY Zenon, <1>1 DEF ConvertOnHead, ConvertGranted, OthersKept, TypeOK, RequestType, ControlType
<1>5. pc'[l] = "idle" /\ \A u \in Thread : u # l => pc'[u] = pc[u]
  BY Zenon, <1>1 DEF ConvertGranted, Goto, TypeOK, ControlType
<1>6. ~QueueToScan /\ \A k \in Locker : ~ToScan(k)
  BY ZenonT(60), <1>1, <1>2, NobodyScans DEF InScan
<1>7. \A m \in Mode : m # mode[l] => grantedCounts'[m] >= grantedCounts[m]
  <2>1. grantedCounts \in [Mode -> Nat]
    BY Zenon, <1>1 DEF HeadType
  <2> QED BY SMTT(30), <1>2, <1>3, <2>1 DEF Inc, Dec
<1>8. GrantsCovered /\ \A k \in Locker : k # l /\ list'[k] = "granted" => OthersCovered(k)
  <2>1. HeldCounted' /\ list'[l] = "granted" /\ Covers(mode'[l], mode[l])
    BY Zenon, <1>2, <1>3, <1>4, HeldAreCountedNext
  <2> QED BY ZenonT(60), <1>1, <1>2, <1>4, <1>7, <2>1, WideningCovers DEF OthersKept
<1>9. ListsExact'
  BY Zenon, <1>3 DEF Waiting, ListsExact, GrantedExact, QueueExact
<1>10. Widening' /\ Unnotified'
  <2>1. Widening'
    BY ZenonT(60), <1>1, <1>2, <1>3, <1>4, <1>5 DEF Waiting, Widening, OthersKept, Converts
  <2> QED BY Zenon, <1>3, <2>1 DEF Waiting, Unnotified
<1>11. PolicyUnused'
  <2>1. ~IsGlobal => newlyCompatibleFirst' = FALSE
    BY Zenon, <1>3 DEF Waiting, PolicyUnused
  <2>2. \A u \in Thread : pc'[u] = "scanConflicts" => pc[u] = "scanConflicts" /\ iter' = iter
    BY Zenon, <1>3, <1>5
  <2> QED BY Zenon, <1>3, <2>1, <2>2, PolicyUnusedStep DEF Waiting
<1>12. PolicyCounted'
  BY Zenon, <1>3, <1>4, PolicyStep DEF Waiting
<1>13. QueueBlocked'
  <2> SUFFICES ASSUME conflictList # << >>
               PROVE  QueueBlocked'
    BY Zenon, <1>3 DEF QueueBlocked
  <2>1. mode'[conflictList[1]] = mode[conflictList[1]]
    <3>1. 1 \in DOMAIN conflictList
      BY OnConflictList
    <3>2. conflictList[1] \in Locker /\ conflictList[1] # l
      BY Zenon, <1>2, <3>1, OnConflictList
    <3> QED BY Zenon, <1>4, <3>2 DEF OthersKept
  <2> QED BY ZenonT(60), <1>1, <1>3, <1>6, <1>8, <2>1, QueueStep DEF Waiting, QueueBlocked
<1>14. ConversionsBlocked'
  BY ZenonT(60), <1>2, <1>3, <1>4, <1>6, <1>8, ConversionsStep DEF Waiting
<1> QED BY Zenon, <1>9, <1>10, <1>11, <1>12, <1>13, <1>14 DEF Waiting

\* When a scan starts, every pending conversion is ahead of it.
LEMMA ScanAhead ==
  ASSUME IInv', GrantedExact', NEW l \in Locker, pc'[l] = "scanConversions", iter' = 1
  PROVE  ConversionsBlocked'
<1> SUFFICES ASSUME NEW k \in Locker, status'[k] = "converting"
             PROVE  ToScan(k)'
  BY ZenonT(60) DEF ConversionsBlocked
<1>1. list'[k] = "granted" /\ l \in Thread
  BY ZenonT(60) DEF IInv, Requests, RequestOK, Thread
<1>2. PICK i \in DOMAIN grantedList' : grantedList'[i] = k
  BY Zenon, <1>1 DEF GrantedExact
<1>3. i >= iter'
  <2>1. grantedList' \in Seq(Locker)
    BY Zenon DEF IInv, TypeOK, HeadType
  <2> QED BY SMTT(30), <2>1, <1>2
<1> QED BY Zenon, <1>1, <1>2, <1>3 DEF ToScan, Scans

\* A step of locker l, which finds the bucket free or its own, that starts a scan.
LEMMA ScanStarts ==
  ASSUME IInv, IInv', Tallied, Waiting, NEW l \in Locker, NEW check, StartScan(l, check),
         bucketMutex \in {NoThread, l}, pc[l] \notin InScan,
         UNCHANGED << compatibleFirst, notify >>, OthersKept(l),
         \A k \in Locker : k # l => arg'[k] = arg[k],
         status'[l] = status[l] \/ status'[l] = "granted",
         status'[l] # "converting",
         ListsExact', PolicyCounted',
         compatibleFirstCount' = compatibleFirstCount \/
           \E k \in Locker, d \in {1, -1} : compatibleFirstCount' = PolicyCount(k, d),
         check = TRUE \/ QueueBlocked'
  PROVE  Waiting'
<1>1. l \in Thread /\ Locker \subseteq Thread /\ TypeOK
  BY Zenon DEF Thread, IInv
<1>2. /\ pc'[l] = "scanConversions" /\ iter' = 1 /\ checkConflictQueue' = check
      /\ newlyCompatibleFirst' = FALSE /\ \A u \in Thread : u # l => pc'[u] = pc[u]
  BY Zenon, <1>1 DEF StartScan, Goto, TypeOK, ControlType
<1>3. \A u \in Thread : pc'[u] # "scanConflicts"
  BY Zenon, <1>1, <1>2, OthersOutside DEF InCriticalSection
<1>4. PolicyUnused'
  BY Zenon, <1>2, <1>3, PolicyUnusedStep DEF Waiting
<1>5. Widening'
  BY Zenon, <1>1, <1>2 DEF Waiting, Widening, OthersKept, Converts
<1>6. Unnotified'
  BY Zenon DEF Waiting, Unnotified, OthersKept
<1>7. ConversionsBlocked'
  BY Zenon, <1>2, ScanAhead DEF ListsExact
<1>8. QueueBlocked'
  BY Zenon, <1>1, <1>2 DEF QueueBlocked, QueueToScan, Scans
<1> QED BY ZenonT(60), <1>4, <1>5, <1>6, <1>7, <1>8 DEF Waiting

\* downgrade, which starts a scan, keeps it.
LEMMA DowngradeQueues ==
  ASSUME IInv, IInv', Tallied, Waiting, NEW l \in Locker, Downgrade(l)
  PROVE  Waiting'
<1>1. l \in Thread /\ TypeOK /\ RequestOK(l) /\ pc[l] = "downgrade" /\ bucketMutex = NoThread
  BY Zenon DEF Thread, IInv, Requests, Downgrade, BucketFree
<1>2. /\ StartScan(l, TRUE)
      /\ UNCHANGED << status, convertMode, compatibleFirst, list, notify, grantedList,
                      conflictList, compatibleFirstCount >>
      /\ OthersKept(l) /\ \A k \in Locker : k # l => arg'[k] = arg[k]
  BY Zenon, <1>1 DEF Downgrade, OthersKept, TypeOK, RequestType, ControlType
<1>3. status[l] = "granted"
  BY Zenon, <1>1 DEF RequestOK
<1>4. ListsExact'
  BY Zenon, <1>2 DEF Waiting, ListsExact, GrantedExact, QueueExact
<1>5. PolicyCounted'
  BY Zenon, <1>2, PolicyStep DEF Waiting
<1> QED BY Zenon, <1>1, <1>2, <1>3, <1>4, <1>5, ScanStarts DEF InScan

\* The release of a granted request, which starts a scan, keeps it.
LEMMA UnlockGrantedQueues ==
  ASSUME IInv, IInv', Tallied, Waiting, NEW l \in Locker, UnlockGranted(l)
  PROVE  Waiting'
<1>1. /\ l \in Thread /\ TypeOK /\ RequestOK(l) /\ HeadType /\ HeadType' /\ pc[l] = "unlock"
      /\ status[l] = "granted" /\ bucketMutex = NoThread
  BY Zenon DEF Thread, IInv, Requests, UnlockGranted, BucketFree, TypeOK
<1>2. /\ StartScan(l, LeavesNoHolder(l))
      /\ UNCHANGED << status, mode, convertMode, compatibleFirst, notify, conflictList, arg >>
      /\ OthersKept(l) /\ list'[l] = None
      /\ grantedList' = RemoveRequest(grantedList, l)
      /\ grantedCounts' = Dec(grantedCounts, mode[l])
      /\ compatibleFirstCount' = PolicyCount(l, -1)
  BY Zenon, <1>1 DEF UnlockGranted, OthersKept, TypeOK, RequestType
<1>3. list[l] = "granted" /\ mode[l] \in Mode /\ grantedCounts[mode[l]] > 0
  <2>1. list[l] = "granted"
    BY Zenon, <1>1 DEF RequestOK, Held
  <2> QED BY Zenon, <2>1, HeldAreCounted DEF HeldCounted, RequestCounted, None
<1>4. ListsExact'
  <2>1. GrantedExact'
    BY Zenon, <1>2, <1>3, GrantedStep DEF Waiting, ListsExact, None
  <2>2. QueueExact'
    BY Zenon, <1>2, QueueExactStep DEF Waiting, ListsExact, None
  <2> QED BY Zenon, <2>1, <2>2 DEF ListsExact
<1>5. PolicyCounted'
  BY Zenon, <1>2, <1>3, PolicyStep DEF Waiting, None
<1>6. LeavesNoHolder(l) \/ QueueBlocked'
  <2> SUFFICES ASSUME ~LeavesNoHolder(l), conflictList # << >>
               PROVE  QueueBlocked'
    BY Zenon, <1>2 DEF QueueBlocked
  <2>1. grantedCounts \in [Mode -> Nat]
    BY Zenon, <1>1 DEF HeadType
  <2>2. \A m \in Mode : grantedCounts[m] > 0 => grantedCounts'[m] > 0
    BY SMTT(30), <1>2, <1>3, <2>1 DEF LeavesNoHolder, Dec
  <2>3. GrantsCovered
    BY Zenon, <2>2, CoversItself DEF GrantsCovered, GrantedModes
  <2>4. FrontBlocked
    BY Zenon, <1>1, NobodyScans DEF Waiting, QueueBlocked, InScan
  <2> QED BY Zenon, <1>1, <1>2, <2>3, <2>4, QueueStep
<1>7. LeavesNoHolder(l) = TRUE \/ QueueBlocked'
  BY Zenon, <1>6 DEF LeavesNoHolder
<1> QED BY ZenonT(60), <1>1, <1>2, <1>4, <1>5, <1>7, ScanStarts DEF InScan

\* A cancelled waiter leaves the conflict list and keeps it.
LEMMA UnlockWaitingQueues ==
  ASSUME IInv, IInv', Tallied, Waiting, NEW l \in Locker, UnlockWaiting(l)
  PROVE  Waiting'
<1>1. /\ l \in Thread /\ TypeOK /\ RequestOK(l) /\ pc[l] = "unlock"
      /\ status[l] = "waiting" /\ bucketMutex = NoThread
  BY Zenon DEF Thread, IInv, Requests, UnlockWaiting, BucketFree
<1>2. /\ StartScan(l, TRUE)
      /\ UNCHANGED << status, mode, convertMode, compatibleFirst, notify, grantedList,
                      compatibleFirstCount, arg >>
      /\ OthersKept(l) /\ list'[l] = None
      /\ conflictList' = RemoveRequest(conflictList, l)
  BY Zenon, <1>1 DEF UnlockWaiting, OthersKept, TypeOK, RequestType
<1>3. list[l] = "conflict"
  BY Zenon, <1>1 DEF RequestOK, InScan
<1>4. ListsExact'
  <2>1. GrantedExact'
    BY Zenon, <1>2, <1>3, GrantedStep DEF Waiting, ListsExact, None
  <2>2. \E i \in DOMAIN conflictList : conflictList[i] = l
    BY Zenon, <1>3 DEF Waiting, ListsExact, QueueExact
  <2>3. LET s == RemoveRequest(conflictList, l)
        IN \A k \in DOMAIN conflictList : conflictList[k] # l =>
             \E j \in DOMAIN s : s[j] = conflictList[k]
    BY ZenonT(60), <2>2, OnConflictList, RemoveRequestFacts
  <2>4. \A k \in DOMAIN conflictList : conflictList[k] # l =>
          \E j \in DOMAIN conflictList' : conflictList'[j] = conflictList[k]
    BY Zenon, <1>2, <2>3
  <2>5. QueueExact'
    BY Zenon, <1>2, <2>4, QueueExactStep DEF Waiting, ListsExact, None
  <2> QED BY Zenon, <2>1, <2>5 DEF ListsExact
<1>5. PolicyCounted'
  BY Zenon, <1>2, <1>3, PolicyStep DEF Waiting, None
<1> QED BY Zenon, <1>1, <1>2, <1>4, <1>5, ScanStarts DEF InScan

\* A cancelled conversion keeps it.
LEMMA UnlockConvertingQueues ==
  ASSUME IInv, IInv', Tallied, Waiting, NEW l \in Locker, UnlockConverting(l)
  PROVE  Waiting'
<1>1. l \in Thread /\ TypeOK /\ pc[l] = "unlock" /\ bucketMutex \in {NoThread, l}
  BY Zenon DEF Thread, IInv, UnlockConverting
<1>2. /\ StartScan(l, TRUE)
      /\ UNCHANGED << mode, compatibleFirst, list, notify, grantedList, conflictList,
                      compatibleFirstCount, arg >>
      /\ OthersKept(l) /\ status'[l] = "granted"
  BY Zenon, <1>1 DEF UnlockConverting, OthersKept, TypeOK, RequestType
<1>3. ListsExact'
  BY Zenon, <1>2 DEF Waiting, ListsExact, GrantedExact, QueueExact
<1>4. PolicyCounted'
  BY Zenon, <1>2, PolicyStep DEF Waiting
<1> QED BY ZenonT(60), <1>1, <1>2, <1>3, <1>4, ScanStarts DEF InScan

-----------------------------------------------------------------------------
(* The steps of a scan.                                                    *)

\* Nobody but the thread that scans is at one of the labels of a scan.
LEMMA OnlyScanner ==
  ASSUME IInv, NEW t \in Locker, pc[t] \in InScan
  PROVE  /\ t \in Thread /\ Locker \subseteq Thread /\ TypeOK
         /\ \A u \in Thread : u # t => pc[u] \notin InScan
<1>1. t \in Thread /\ Locker \subseteq Thread /\ TypeOK
  BY Zenon DEF IInv, Thread
<1>2. bucketMutex = t
  BY Zenon, <1>1 DEF IInv, Mutexes, InScan, InCriticalSection
<1> QED BY Zenon, <1>1, <1>2, OthersOutside DEF InScan, InCriticalSection

\* A step of a scan that changes neither the head nor a request, but for the
\* notification of one that does not wait.
LEMMA ScanMoves ==
  ASSUME IInv, IInv', Tallied, Waiting, NEW t \in Locker, pc[t] \in InScan, pc'[t] \in InScan,
         UNCHANGED << status, mode, convertMode, compatibleFirst, list, head, arg,
                      newlyCompatibleFirst >>,
         \A u \in Thread : u # t => pc'[u] = pc[u],
         Unnotified', QueueBlocked', ConversionsBlocked',
         ~IsGlobal /\ pc'[t] = "scanConflicts" => iter' = 1
  PROVE  Waiting'
<1>1. /\ t \in Thread /\ Locker \subseteq Thread
      /\ \A u \in Thread : u # t => pc[u] \notin InScan
  BY Zenon, OnlyScanner
<1>2. grantedList' = grantedList /\ conflictList' = conflictList
      /\ compatibleFirstCount' = compatibleFirstCount
  BY Zenon DEF head
<1>3. ListsExact'
  BY Zenon, <1>2 DEF Waiting, ListsExact, GrantedExact, QueueExact
<1>4. Widening'
  BY Zenon, <1>1 DEF Waiting, Widening, Converts, InScan
<1>5. PolicyUnused'
  <2>1. ASSUME ~IsGlobal, NEW u \in Thread, pc'[u] = "scanConflicts"
        PROVE  iter' = 1
    BY Zenon, <1>1, <2>1 DEF InScan
  <2> QED BY Zenon, <1>2, <2>1 DEF Waiting, PolicyUnused
<1>6. PolicyCounted'
  <2>1. FirstCompatible' = FirstCompatible
    BY Zenon DEF FirstCompatible
  <2> QED BY Zenon, <1>2, <2>1 DEF Waiting, PolicyCounted
<1> QED BY ZenonT(60), <1>3, <1>4, <1>5, <1>6 DEF Waiting

\* Then what is blocked by the head stays blocked.
LEMMA HeadStays ==
  ASSUME UNCHANGED << mode, convertMode, head >>
  PROVE  /\ FrontBlocked' <=> FrontBlocked
         /\ \A k \in Locker : conflicts(convertMode'[k], OtherModes(k)') <=>
                              conflicts(convertMode[k], OtherModes(k))
<1>1. /\ grantedCounts' = grantedCounts /\ conflictList' = conflictList
      /\ mode' = mode /\ convertMode' = convertMode
  BY Zenon DEF head
<1>2. GrantedModes' = GrantedModes /\ \A k \in Locker : OtherModes(k)' = OtherModes(k)
  BY Zenon, <1>1 DEF GrantedModes, OtherModes
<1> QED BY Zenon, <1>1, <1>2 DEF FrontBlocked

\* The scan passing over a conversion that stays blocked keeps it.
LEMMA ScanConversionSkipsQueues ==
  ASSUME IInv, IInv', Tallied, Waiting, NEW t \in Locker, ScanConversion(t),
         UNCHANGED << status, mode, convertMode, conversionsCount, grantedCounts, pc >>,
         iter' = iter + 1,
         status[grantedList[iter]] = "converting" =>
           conflicts(convertMode[grantedList[iter]], OtherModes(grantedList[iter]))
  PROVE  Waiting'
<1>1. /\ pc[t] = "scanConversions" /\ iter \in Nat \ {0} /\ grantedList \in Seq(Locker)
      /\ UNCHANGED << compatibleFirst, list, head, notify, arg, newlyCompatibleFirst,
                      checkConflictQueue, grantedList, conflictList >>
  BY Zenon DEF ScanConversion, IInv, TypeOK, ControlType, HeadType, head
<1>2. /\ t \in Thread /\ Locker \subseteq Thread
      /\ \A u \in Thread : u # t => pc[u] \notin InScan
  BY Zenon, <1>1, OnlyScanner DEF InScan
<1>3. Unnotified'
  BY Zenon, <1>1 DEF Waiting, Unnotified
<1>4. QueueBlocked'
  <2>1. QueueToScan => QueueToScan'
    BY Zenon, <1>1, <1>2 DEF QueueToScan, Scans, InScan
  <2> QED BY Zenon, <1>1, <2>1, HeadStays DEF Waiting, QueueBlocked
<1>5. ConversionsBlocked'
  <2> SUFFICES ASSUME NEW k \in Locker, status[k] = "converting",
                      ~conflicts(convertMode[k], OtherModes(k))
               PROVE  ToScan(k)'
    BY Zenon, <1>1, HeadStays DEF ConversionsBlocked
  <2>1. PICK i \in DOMAIN grantedList : grantedList[i] = k /\ i >= iter
    BY Zenon DEF Waiting, ConversionsBlocked, ToScan
  <2>2. i # iter
    BY Zenon, <2>1
  <2>3. i >= iter'
    BY SMTT(30), <1>1, <2>1, <2>2
  <2> QED BY Zenon, <1>1, <1>2, <2>1, <2>3 DEF ToScan, Scans
<1> QED BY ZenonT(60), <1>1, <1>3, <1>4, <1>5, ScanMoves DEF InScan

\* The scan waking a converter keeps it.
LEMMA NotifyConversionQueues ==
  ASSUME IInv, IInv', Tallied, Waiting, NEW t \in Locker, NotifyConversion(t)
  PROVE  Waiting'
<1>1. /\ pc[t] = "notifyConversion" /\ iter \in Nat \ {0} /\ grantedList \in Seq(Locker)
      /\ iter' = iter + 1
      /\ UNCHANGED << status, mode, convertMode, compatibleFirst, list, head, arg,
                      newlyCompatibleFirst, checkConflictQueue, grantedList, conflictList >>
  BY Zenon DEF NotifyConversion, IInv, TypeOK, ControlType, HeadType, head
<1>2. /\ t \in Thread /\ Locker \subseteq Thread /\ TypeOK
      /\ \A u \in Thread : u # t => pc[u] \notin InScan
  BY Zenon, <1>1, OnlyScanner DEF InScan
<1>3. pc'[t] = "scanConversions" /\ \A u \in Thread : u # t => pc'[u] = pc[u]
  BY Zenon, <1>2 DEF NotifyConversion, Goto, TypeOK, ControlType
<1>4. status[grantedList[iter]] = "granted"
  BY ZenonT(60), <1>1, <1>2 DEF IInv, Notification
<1>5. Unnotified'
  <2>1. \A k \in Locker : k # grantedList[iter] => notify'[k] = notify[k]
    BY Zenon, <1>2 DEF NotifyConversion, TypeOK, RequestType
  <2> QED BY Zenon, <1>1, <1>4, <2>1 DEF Waiting, Unnotified
<1>6. QueueBlocked'
  <2>1. QueueToScan => QueueToScan'
    <3>1. QueueToScan => checkConflictQueue = TRUE
      BY Zenon, <1>1, <1>2 DEF QueueToScan, Scans, InScan
    <3> QED BY ZenonT(60), <1>1, <1>2, <1>3, <3>1 DEF QueueToScan, Scans
  <2> QED BY Zenon, <1>1, <2>1, HeadStays DEF Waiting, QueueBlocked
<1>7. ConversionsBlocked'
  <2> SUFFICES ASSUME NEW k \in Locker, status[k] = "converting",
                      ~conflicts(convertMode[k], OtherModes(k))
               PROVE  ToScan(k)'
    BY Zenon, <1>1, HeadStays DEF ConversionsBlocked
  <2>1. PICK i \in DOMAIN grantedList : grantedList[i] = k /\ i >= iter
    BY Zenon DEF Waiting, ConversionsBlocked, ToScan
  <2>2. i # iter
    BY Zenon, <1>4, <2>1
  <2>3. i >= iter'
    BY SMTT(30), <1>1, <2>1, <2>2
  <2> QED BY Zenon, <1>1, <1>2, <1>3, <2>1, <2>3 DEF ToScan, Scans
<1> QED BY ZenonT(60), <1>1, <1>3, <1>5, <1>6, <1>7, ScanMoves DEF InScan

\* The scan turning to the conflict list keeps it.
LEMMA ScanConversionsDoneQueues ==
  ASSUME IInv, IInv', Tallied, Waiting, NEW t \in Locker, ScanConversionsDone(t)
  PROVE  Waiting'
<1>1. /\ pc[t] = "scanConversions" /\ iter \in Nat \ {0} /\ grantedList \in Seq(Locker)
      /\ iter' = 1 /\ ~MoreConversions
      /\ UNCHANGED << status, mode, convertMode, compatibleFirst, list, notify, head, arg,
                      newlyCompatibleFirst, checkConflictQueue, grantedList, conflictList >>
  BY Zenon DEF ScanConversionsDone, IInv, TypeOK, ControlType, HeadType, head, request
<1>2. /\ t \in Thread /\ Locker \subseteq Thread /\ TypeOK
      /\ \A u \in Thread : u # t => pc[u] \notin InScan
  BY Zenon, <1>1, OnlyScanner DEF InScan
<1>3. /\ pc'[t] = IF checkConflictQueue THEN "scanConflicts" ELSE "scanned"
      /\ \A u \in Thread : u # t => pc'[u] = pc[u]
  BY Zenon, <1>2 DEF ScanConversionsDone, Goto, TypeOK, ControlType
<1>4. Unnotified'
  BY Zenon, <1>1 DEF Waiting, Unnotified
<1>5. QueueBlocked'
  <2>1. QueueToScan => QueueToScan'
    <3>1. QueueToScan => checkConflictQueue = TRUE
      BY Zenon, <1>1, <1>2 DEF QueueToScan, Scans, InScan
    <3> QED BY Zenon, <1>1, <1>2, <1>3, <3>1 DEF QueueToScan
  <2> QED BY Zenon, <1>1, <2>1, HeadStays DEF Waiting, QueueBlocked
<1>6. ConversionsBlocked'
  <2> SUFFICES ASSUME NEW k \in Locker, status[k] = "converting"
               PROVE  conflicts(convertMode[k], OtherModes(k))
    BY Zenon, <1>1, HeadStays DEF ConversionsBlocked
  <2>1. conversionsCount > 0
    BY Zenon, HeldAreCounted DEF HeldCounted, RequestCounted
  <2>2. \A i \in DOMAIN grantedList : ~(i >= iter)
    BY SMTT(30), <1>1, <2>1 DEF MoreConversions
  <2> QED BY Zenon, <2>2 DEF Waiting, ConversionsBlocked, ToScan
<1>7. pc'[t] \in {"scanConflicts", "scanned"}
  BY Zenon, <1>3
<1> QED BY ZenonT(60), <1>1, <1>3, <1>4, <1>5, <1>6, <1>7, ScanMoves DEF InScan

\* While the queue is scanned, no conversion is ahead of the scan.
LEMMA QueueScanned ==
  ASSUME IInv, IInv', Waiting, NEW t \in Locker, pc[t] = "scanConflicts",
         UNCHANGED << status, mode, convertMode, head >>
  PROVE  ConversionsBlocked'
<1>1. \A k \in Locker : ~ToScan(k)
  BY Zenon, OnlyScanner DEF ToScan, Scans, InScan
<1> QED BY Zenon, <1>1, HeadStays DEF Waiting, ConversionsBlocked

\* The scan passing over a waiter, or ending, keeps it.
LEMMA ScanSkipQueues ==
  ASSUME IInv, IInv', Tallied, Waiting, NEW t \in Locker, ScanSkip(t) \/ ScanConflictsDone(t)
  PROVE  Waiting'
<1>1. /\ pc[t] = "scanConflicts" /\ iter \in Nat \ {0} /\ conflictList \in Seq(Locker)
      /\ UNCHANGED << status, mode, convertMode, compatibleFirst, list, notify, head, arg,
                      newlyCompatibleFirst, checkConflictQueue, grantedList, conflictList >>
  BY Zenon DEF ScanSkip, ScanConflictsDone, IInv, TypeOK, ControlType, HeadType, head, request, scan
<1>2. /\ t \in Thread /\ Locker \subseteq Thread /\ TypeOK
      /\ \A u \in Thread : u # t => pc[u] \notin InScan
  BY Zenon, <1>1, OnlyScanner DEF InScan
<1>3. pc'[t] \in {"scanConflicts", "scanned"} /\ \A u \in Thread : u # t => pc'[u] = pc[u]
  BY Zenon, <1>1, <1>2 DEF ScanSkip, ScanConflictsDone, Goto, TypeOK, ControlType
<1>4. Unnotified' /\ ConversionsBlocked'
  BY Zenon, <1>1, QueueScanned DEF Waiting, Unnotified
<1>5. QueueToScan => iter = 1
  BY Zenon, <1>1, <1>2 DEF QueueToScan, Scans, InScan
<1>6. ~IsGlobal => iter = 1 /\ newlyCompatibleFirst = FALSE
  BY Zenon, <1>1, <1>2 DEF Waiting, PolicyUnused
<1>7. QueueBlocked'
  <2> SUFFICES ASSUME conflictList # << >>
               PROVE  FrontBlocked
    BY Zenon, <1>1, HeadStays DEF QueueBlocked
  <2>1. CASE FrontBlocked
    BY <2>1
  <2>2. CASE QueueToScan
    <3>1. iter = 1
      BY Zenon, <1>5, <2>2
    <3>2. iter <= Len(conflictList)
      BY SMTT(30), <1>1, <3>1
    <3>3. conflicts(mode[conflictList[1]], GrantedModes)
      <4>1. ~(iter > Len(conflictList))
        BY SMTT(30), <1>1, <3>2
      <4> QED BY Zenon, <3>1, <4>1 DEF ScanSkip, ScanConflictsDone
    <3> QED BY Zenon, <3>3 DEF FrontBlocked, conflicts
  <2> QED BY Zenon, <2>1, <2>2 DEF Waiting, QueueBlocked
<1>8. ~IsGlobal /\ pc'[t] = "scanConflicts" => iter' = 1
  <2> SUFFICES ASSUME ~IsGlobal, pc'[t] = "scanConflicts"
               PROVE  FALSE
    OBVIOUS
  <2>1. ScanSkip(t) /\ (iter > 1 \/ newlyCompatibleFirst)
    BY Zenon, <1>2 DEF ScanSkip, ScanConflictsDone, Goto, TypeOK, ControlType
  <2>2. ~(iter > 1)
    BY <1>6
  <2> QED BY Zenon, <1>6, <2>1, <2>2
<1> QED BY ZenonT(60), <1>1, <1>3, <1>4, <1>7, <1>8, ScanMoves DEF InScan

\* The scan granting a conversion keeps it.
LEMMA ScanConversionGrantsQueues ==
  ASSUME IInv, IInv', Tallied, Waiting, NEW t \in Locker, ScanConversion(t),
         NEW l \in Locker, l = grantedList[iter], status[l] = "converting",
         ~conflicts(convertMode[l], OtherModes(l))
  PROVE  Waiting'
<1>1. pc[t] = "scanConversions" /\ RequestOK(l) /\ HeadType /\ HeadType'
  BY Zenon DEF ScanConversion, IInv, Requests, TypeOK
<1>2. /\ t \in Thread /\ Locker \subseteq Thread /\ TypeOK
      /\ \A u \in Thread : u # t => pc[u] \notin InScan
  BY Zenon, <1>1, OnlyScanner DEF InScan
<1>3. /\ UNCHANGED << compatibleFirst, list, notify, arg, grantedList, conflictList, iter,
                      compatibleFirstCount, checkConflictQueue, newlyCompatibleFirst >>
      /\ grantedCounts' = Dec(grantedCounts, mode[l])
      /\ pc'[t] = "notifyConversion" /\ \A u \in Thread : u # t => pc'[u] = pc[u]
  BY Zenon, <1>2 DEF ScanConversion, Goto, TypeOK, ControlType
<1>4. status'[l] = "granted" /\ mode'[l] = convertMode[l] /\ convertMode'[l] = None
  BY Zenon, <1>2 DEF ScanConversion, TypeOK, RequestType
<1>5. OthersKept(l)
  <2>1. \A k \in Locker : k # l => status'[k] = status[k] /\ mode'[k] = mode[k]
    BY Zenon, <1>2 DEF ScanConversion, TypeOK, RequestType
  <2>2. \A k \in Locker : k # l => convertMode'[k] = convertMode[k]
    BY Zenon, <1>2 DEF ScanConversion, TypeOK, RequestType
  <2>3. UNCHANGED << recursiveCount, partitioned, list, notify >>
    BY Zenon DEF ScanConversion
  <2> QED BY Zenon, <2>1, <2>2, <2>3 DEF OthersKept
<1>6. list[l] = "granted" /\ mode[l] \in Mode /\ Covers(mode'[l], mode[l])
  <2>1. list[l] = "granted"
    BY Zenon, <1>1 DEF RequestOK
  <2>2. mode[l] \in Mode
    BY Zenon, <2>1, HeldAreCounted DEF HeldCounted, RequestCounted, None
  <2> QED BY Zenon, <1>4, <2>1, <2>2 DEF Waiting, Widening
<1>7. \A m \in Mode : m # mode[l] => grantedCounts'[m] >= grantedCounts[m]
  <2>1. grantedCounts \in [Mode -> Nat]
    BY Zenon, <1>1 DEF HeadType
  <2> QED BY <1>3, <2>1 DEF Dec
<1>8. GrantsCovered /\ \A k \in Locker : k # l /\ list'[k] = "granted" => OthersCovered(k)
  <2>1. HeldCounted' /\ list'[l] = "granted"
    BY Zenon, <1>3, <1>6, HeldAreCountedNext
  <2> QED BY ZenonT(60), <1>1, <1>5, <1>6, <1>7, <2>1, WideningCovers DEF OthersKept
<1>9. ListsExact'
  BY Zenon, <1>3 DEF Waiting, ListsExact, GrantedExact, QueueExact
<1>10. Widening'
  <2>1. pc[l] \in {"wait", "unlockPartition", "unlock"}
    BY Zenon, <1>1 DEF RequestOK
  <2>2. l # t /\ pc'[l] = pc[l] /\ pc[l] \notin Converts /\ pc'[t] \notin Converts
    BY ZenonT(60), <1>1, <1>2, <1>3, <2>1 DEF Converts
  <2> QED BY ZenonT(60), <1>2, <1>3, <1>4, <1>5, <2>2 DEF Waiting, Widening, OthersKept
<1>11. Unnotified'
  BY Zenon, <1>3, <1>4, <1>5 DEF Waiting, Unnotified, OthersKept
<1>12. PolicyUnused'
  BY Zenon, <1>2, <1>3, PolicyUnusedStep DEF Waiting, PolicyUnused, InScan
<1>13. PolicyCounted'
  BY Zenon, <1>3, <1>5, PolicyStep DEF Waiting
<1>14. QueueBlocked'
  <2> SUFFICES ASSUME conflictList # << >>
               PROVE  QueueBlocked'
    BY Zenon, <1>3 DEF QueueBlocked
  <2>1. CASE QueueToScan
    <3>1. checkConflictQueue = TRUE
      BY ZenonT(60), <1>1, <1>2, <2>1 DEF QueueToScan, Scans, InScan
    <3> QED BY Zenon, <1>2, <1>3, <3>1 DEF QueueBlocked, QueueToScan, Scans
  <2>2. CASE FrontBlocked
    <3>1. 1 \in DOMAIN conflictList
      BY OnConflictList
    <3>2. conflictList[1] \in Locker /\ conflictList[1] # l
      BY Zenon, <1>6, <3>1, OnConflictList
    <3> QED BY ZenonT(60), <1>2, <1>3, <1>5, <1>8, <2>2, <3>2, QueueStep DEF OthersKept
  <2> QED BY Zenon, <2>1, <2>2 DEF Waiting, QueueBlocked
<1>15. ConversionsBlocked'
  <2> SUFFICES ASSUME NEW k \in Locker, status'[k] = "converting"
               PROVE  conflicts(convertMode'[k], OtherModes(k)') \/ ToScan(k)'
    BY ZenonT(60) DEF ConversionsBlocked
  <2>1. k # l /\ status[k] = "converting" /\ convertMode'[k] = convertMode[k] /\ list'[k] = "granted"
    BY ZenonT(60), <1>4, <1>5 DEF OthersKept, IInv, Requests, RequestOK
  <2>2. CASE conflicts(convertMode[k], OtherModes(k))
    BY ZenonT(60), <1>8, <2>1, <2>2, ConversionStep
  <2>3. CASE ToScan(k)
    <3>1. PICK i \in DOMAIN grantedList : grantedList[i] = k /\ i >= iter
      BY Zenon, <2>3 DEF ToScan
    <3> QED BY Zenon, <1>2, <1>3, <3>1 DEF ToScan, Scans
  <2> QED BY Zenon, <2>1, <2>2, <2>3 DEF Waiting, ConversionsBlocked
<1> QED BY ZenonT(60), <1>9, <1>10, <1>11, <1>12, <1>13, <1>14, <1>15 DEF Waiting

\* The scan of a granted request, whatever it finds, keeps it.
LEMMA ScanConversionQueues ==
  ASSUME IInv, IInv', Tallied, Waiting, NEW t \in Locker, ScanConversion(t)
  PROVE  Waiting'
<1>1. grantedList[iter] \in Locker
  BY DEF IInv, TypeOK, ControlType, HeadType, ScanConversion, MoreConversions
<1>2. CASE status[grantedList[iter]] = "converting"
           /\ ~conflicts(convertMode[grantedList[iter]], OtherModes(grantedList[iter]))
  BY Zenon, <1>1, <1>2, ScanConversionGrantsQueues
<1>3. CASE status[grantedList[iter]] = "converting" =>
             conflicts(convertMode[grantedList[iter]], OtherModes(grantedList[iter]))
  BY Zenon, <1>3, ScanConversionSkipsQueues DEF ScanConversion
<1> QED BY ZenonT(60), <1>2, <1>3

\* The requests in the queue hang on it, in the state and the next.
QueueMembers ==
  conflictList \in Seq(Locker) /\ \A i \in DOMAIN conflictList :
    conflictList[i] \in Locker /\ list[conflictList[i]] = "conflict"

\* What is on the conflict list waits there, before the step ...
LEMMA QueueMembersNow ==
  IInv => QueueMembers
  BY Zenon, OnConflictList DEF QueueMembers

\* ... and after it.
LEMMA QueueMembersNext ==
  IInv' => QueueMembers'
  BY QueueMembersNow, PTL

\* X conflicts with every mode.
LEMMA ExclusiveBlocks ==
  ASSUME NEW m \in Mode, NEW S, "X" \in S
  PROVE  conflicts(m, S)
  BY Zenon DEF conflicts, LockConflictsTable, Mode

\* The scan granting a waiter keeps the second invariant.
LEMMA ScanGrantQueues ==
  ASSUME IInv, IInv', Tallied, Waiting, NEW t \in Locker, ScanGrant(t)
  PROVE  Waiting'
<1>1. pc[t] = "scanConflicts" /\ HeadType /\ HeadType'
  BY Zenon DEF ScanGrant, IInv, TypeOK
<1>2. /\ t \in Thread /\ Locker \subseteq Thread /\ TypeOK
      /\ \A u \in Thread : u # t => pc[u] \notin InScan
  BY Zenon, <1>1, OnlyScanner DEF InScan
<1>3. iter \in DOMAIN conflictList
  BY Zenon, <1>1, <1>2, InList DEF ScanGrant, TypeOK, HeadType, ControlType
<1>4. PICK l \in Locker : l = conflictList[iter]
  BY Zenon, <1>3, OnConflictList
<1>5. list[l] = "conflict" /\ mode[l] \in Mode
  <2>1. list[l] = "conflict"
    BY Zenon, <1>3, <1>4, OnConflictList
  <2> QED BY Zenon, <2>1, HeldAreCounted DEF HeldCounted, RequestCounted, None
<1>6. /\ UNCHANGED << mode, convertMode, compatibleFirst, arg, iter, checkConflictQueue >>
      /\ grantedList' = Append(grantedList, l) /\ conflictList' = RemoveAt(conflictList, iter)
      /\ grantedCounts' = Inc(grantedCounts, mode[l])
      /\ newlyCompatibleFirst' =
           (newlyCompatibleFirst \/ (compatibleFirst[l] /\ compatibleFirstCount = 0))
      /\ compatibleFirstCount' = PolicyCount(l, 1)
  BY Zenon, <1>4 DEF ScanGrant
<1>7. /\ pc'[t] = IF mode[l] = "X" THEN "scanned" ELSE "scanConflicts"
      /\ \A u \in Thread : u # t => pc'[u] = pc[u]
  BY Zenon, <1>2, <1>4 DEF ScanGrant, Goto, TypeOK, ControlType
<1>8. OthersKept(l) /\ status'[l] = "granted" /\ list'[l] = "granted"
  BY Zenon, <1>2, <1>4 DEF ScanGrant, OthersKept, TypeOK, RequestType
<1>9. GrantsCovered /\ \A k \in Locker : OthersCovered(k)
  <2>1. grantedCounts \in [Mode -> Nat]
    BY ZenonT(60), <1>1 DEF HeadType
  <2>2. \A m \in Mode : grantedCounts'[m] = grantedCounts[m] + Bit(mode[l] = m)
    BY SMTT(30), <1>6, <2>1 DEF Inc, Bit
  <2>3. \A m \in Mode : grantedCounts'[m] >= grantedCounts[m]
    BY <2>1, <2>2 DEF Bit
  <2> QED BY Zenon, <1>1, <1>6, <2>3, GrowingCovers
<1>10. ListsExact'
  <2>1. GrantedExact'
    BY ZenonT(60), <1>5, <1>6, <1>8, GrantedStep DEF Waiting, ListsExact
  <2>2. LET s == RemoveAt(conflictList, iter)
        IN \A k \in DOMAIN conflictList : k # iter => \E j \in DOMAIN s : s[j] = conflictList[k]
    BY Zenon, <1>3, OnConflictList, RemoveAtFacts
  <2>3. \A k \in DOMAIN conflictList : conflictList[k] # l =>
          \E j \in DOMAIN conflictList' : conflictList'[j] = conflictList[k]
    BY Zenon, <1>4, <1>6, <2>2
  <2>4. QueueExact'
    BY Zenon, <1>8, <2>3, QueueExactStep DEF Waiting, ListsExact
  <2> QED BY Zenon, <2>1, <2>4 DEF ListsExact
<1>11. Widening' /\ Unnotified'
  <2>1. \A k \in Locker : pc'[k] \in Converts => pc[k] = pc'[k]
    BY Zenon, <1>2, <1>7 DEF Converts
  <2> QED BY ZenonT(60), <1>6, <1>8, <2>1 DEF Waiting, Widening, Unnotified, OthersKept
<1>12. PolicyUnused'
  <2>1. ~IsGlobal => newlyCompatibleFirst' = FALSE
    BY Zenon, <1>6 DEF Waiting, PolicyUnused
  <2>2. \A u \in Thread : pc'[u] = "scanConflicts" => pc[u] = "scanConflicts" /\ iter' = iter
    BY Zenon, <1>1, <1>6, <1>7
  <2> QED BY ZenonT(60), <1>6, <2>1, <2>2, PolicyUnusedStep DEF Waiting
<1>13. PolicyCounted'
  BY Zenon, <1>5, <1>6, <1>8, PolicyStep DEF Waiting
<1>14. QueueBlocked'
  <2> SUFFICES ASSUME conflictList' # << >>
               PROVE  FrontBlocked' \/ QueueToScan'
    BY Zenon DEF QueueBlocked
  <2>1. mode'[l] \in GrantedModes'
    BY Zenon, <1>8, HeldAreCountedNext DEF HeldCounted, RequestCounted
  <2>2. CASE IsGlobal
    BY Zenon, <2>1, <2>2 DEF FrontBlocked
  <2>3. CASE ~IsGlobal /\ mode[l] # "X"
    <3>1. iter = 1
      BY Zenon, <1>1, <1>2, <2>3 DEF Waiting, PolicyUnused
    <3> QED BY ZenonT(60), <1>2, <1>6, <1>7, <2>3, <3>1 DEF QueueToScan
  <2>4. CASE ~IsGlobal /\ mode[l] = "X"
    <3>1. conflictList' \in Seq(Locker) /\ \A i \in DOMAIN conflictList' :
            conflictList'[i] \in Locker /\ list'[conflictList'[i]] = "conflict"
      BY Zenon, QueueMembersNext DEF QueueMembers
    <3>2. 1 \in DOMAIN conflictList'
      BY <3>1
    <3>3. mode'[conflictList'[1]] \in Mode
      BY Zenon, <3>1, <3>2, HeldAreCountedNext DEF HeldCounted, RequestCounted, None
    <3>4. conflicts(mode'[conflictList'[1]], GrantedModes')
      BY ZenonT(60), <1>6, <2>1, <2>4, <3>3, ExclusiveBlocks
    <3> QED BY Zenon, <2>4, <3>4 DEF FrontBlocked
  <2> QED BY Zenon, <2>2, <2>3, <2>4
<1>15. ConversionsBlocked'
  <2>1. \A k \in Locker : ~ToScan(k)
    BY Zenon, <1>1, <1>2 DEF ToScan, Scans, InScan
  <2> QED BY Zenon, <1>8, <1>9, <2>1, ConversionsStep DEF Waiting
<1> QED BY ZenonT(60), <1>10, <1>11, <1>12, <1>13, <1>14, <1>15 DEF Waiting

\* The cleaner deletes a head that nobody uses.
LEMMA CleanHeadQueues ==
  ASSUME IInv, IInv', Tallied, Waiting, CleanHead
  PROVE  Waiting'
<1>1. CASE UNCHANGED head
  BY Zenon, <1>1, CleanQueues
<1>2. CASE GrantedModes = {} /\ HeadUnused /\ ~UNCHANGED head
  <2>1. /\ UNCHANGED << status, mode, convertMode, compatibleFirst, list, notify, arg,
                        newlyCompatibleFirst >>
        /\ grantedList = << >> /\ conflictList = << >> /\ compatibleFirstCount = 0
        /\ grantedList' = << >> /\ conflictList' = << >> /\ compatibleFirstCount' = 0
        /\ conversionsCount' = 0 /\ pc[Cleaner] = "locked"
    BY Zenon, <1>2 DEF CleanHead, HeadUnused, head, request, scan
  <2>2. Cleaner \in Thread /\ Cleaner \notin Locker /\ TypeOK
    BY Zenon, LockerAssumption DEF Thread, IInv
  <2>3. pc'[Cleaner] = "idle" /\ \A u \in Thread : u # Cleaner => pc'[u] = pc[u]
    BY Zenon, <2>2 DEF CleanHead, Goto, TypeOK, ControlType
  <2>4. \A u \in Thread : pc'[u] \notin InScan
    BY ZenonT(60), <2>1, <2>2, <2>3, OthersOutside DEF IInv, Mutexes, InCriticalSection, InScan
  <2>5. ListsExact'
    BY Zenon, <2>1 DEF Waiting, ListsExact, GrantedExact, QueueExact
  <2>6. Widening' /\ Unnotified'
    <3>1. \A k \in Locker : pc'[k] = pc[k]
      BY Zenon, <2>2, <2>3 DEF Thread
    <3> QED BY Zenon, <2>1, <3>1 DEF Waiting, Widening, Unnotified
  <2>7. PolicyUnused'
    BY Zenon, <2>1, <2>4 DEF Waiting, PolicyUnused, InScan
  <2>8. PolicyCounted'
    <3>1. FirstCompatible' = FirstCompatible
      BY Zenon, <2>1 DEF FirstCompatible
    <3> QED BY Zenon, <2>1, <3>1 DEF Waiting, PolicyCounted
  <2>9. QueueBlocked'
    BY Zenon, <2>1 DEF QueueBlocked
  <2>10. ConversionsBlocked'
    <3>1. \A k \in Locker : status'[k] = "converting" => conversionsCount' > 0
      BY Zenon, HeldAreCountedNext DEF HeldCounted, RequestCounted
    <3>2. ~(conversionsCount' > 0)
      BY <2>1
    <3> QED BY Zenon, <3>1, <3>2 DEF ConversionsBlocked
  <2> QED BY ZenonT(60), <2>5, <2>6, <2>7, <2>8, <2>9, <2>10 DEF Waiting
<1> QED BY Zenon, <1>1, <1>2 DEF CleanHead

-----------------------------------------------------------------------------
(* What the invariants say of the invariant() calls.                       *)

\* A head without granted modes has no requests on its granted list, and no
\* conversions.
LEMMA NothingGranted ==
  ASSUME IInv, HeldCounted, ListsExact
  PROVE  /\ GrantedModes = {} <=> grantedList = << >>
         /\ GrantedModes = {} => \A l \in Locker : list[l] # "granted" /\ status[l] # "converting"
<1>1. \A l \in Locker : list[l] = "granted" \/ status[l] = "converting" => GrantedModes # {}
  BY Zenon DEF HeldCounted, RequestCounted
<1>2. grantedList \in Seq(Locker) /\ \A i \in DOMAIN grantedList : grantedList[i] \in Locker
  BY DEF IInv, TypeOK, HeadType
<1>3. ASSUME GrantedModes = {}
      PROVE  grantedList = << >>
  <2>1. \A i \in DOMAIN grantedList : FALSE
    BY Zenon, <1>1, <1>2, <1>3 DEF ListsExact, GrantedExact
  <2>2. grantedList # << >> => 1 \in DOMAIN grantedList
    BY <1>2
  <2> QED BY Zenon, <2>1, <2>2
<1>4. ASSUME grantedList = << >>
      PROVE  GrantedModes = {}
  <2>1. DOMAIN grantedList = {}
    BY <1>4
  <2>2. \A l \in Locker : list[l] # "granted"
    BY ZenonT(60), <2>1 DEF ListsExact, GrantedExact
  <2>3. \A l \in Locker : convertMode[l] = None
    BY ZenonT(60), <2>2 DEF IInv, Requests, RequestOK
  <2> QED BY Zenon, <2>2, <2>3 DEF HeldCounted
<1> QED BY Zenon, <1>1, <1>3, <1>4

\* A head without modes in its queue has no requests in it.
LEMMA NothingQueued ==
  ASSUME IInv, HeldCounted, ListsExact
  PROVE  ConflictModes = {} <=> conflictList = << >>
<1>1. ASSUME conflictList # << >>
      PROVE  ConflictModes # {}
  <2>1. 1 \in DOMAIN conflictList
    BY SMTT(30), <1>1, OnConflictList
  <2>2. conflictList[1] \in Locker /\ list[conflictList[1]] = "conflict"
    BY Zenon, <2>1, OnConflictList
  <2> QED BY Zenon, <2>2 DEF HeldCounted, RequestCounted
<1> QED BY Zenon, <1>1, EmptyQueue DEF ListsExact

\* The calls of invariant() on the request of a locker hold.
LEMMA LockerAssertions ==
  ASSUME IInv, HeldCounted, Waiting, NEW l \in Locker
  PROVE  AssertedLocker(l)
<1>1. RequestOK(l)
  BY Zenon DEF IInv, Requests
<1>2. pc[l] = "unlockPartition" => status[l] \in {"granted", "converting"}
  BY Zenon, <1>1 DEF RequestOK
<1>3. pc[l] \in {"unlock", "downgrade"} => list[l] \in {"granted", "conflict"}
  BY Zenon, <1>1 DEF RequestOK, Held, InScan
<1>4. ASSUME pc[l] = "unlock"
      PROVE  \/ status[l] = "waiting" /\ recursiveCount[l] = 0
             \/ status[l] = "converting" /\ recursiveCount[l] > 0 /\ conversionsCount > 0
             \/ status[l] = "granted" /\ grantedCounts[mode[l]] > 0
  <2>1. \/ status[l] = "converting" /\ recursiveCount[l] > 0
        \/ recursiveCount[l] = 0 /\ status[l] = "granted" /\ list[l] = "granted"
        \/ recursiveCount[l] = 0 /\ status[l] = "waiting"
    BY ZenonT(60), <1>1, <1>4 DEF RequestOK, Held
  <2> QED BY Zenon, <2>1 DEF HeldCounted, RequestCounted
<1>5. pc[l] = "idle" /\ status[l] # None => status[l] = "granted" /\ recursiveCount[l] > 0
  BY Zenon, <1>1 DEF RequestOK
<1>6. status[l] \in {"waiting", "converting"} => notify[l] = "invalid"
  BY Zenon, <1>1 DEF RequestOK, Waiting, Unnotified
<1> QED BY ZenonT(60), <1>2, <1>3, <1>4, <1>5, <1>6, NothingGranted, NothingQueued
           DEF AssertedLocker, Waiting

\* What migratePartitionedLockHeads asserts of the head and of each request.
LEMMA MigrationAssertions ==
  ASSUME IInv, NEW t \in Thread
  PROVE  /\ pc[t] = "migrate" => GrantedModes \subseteq Intent /\ ConflictModes = {}
         /\ pc[t] = "migrating" /\ partGranted[Last(partitions)] # << >>
              => ~MustWait(Head(partGranted[Last(partitions)]))
<1>1. pc[t] \in InMigration => partitions # << >> /\ IntentOnly
  BY Zenon DEF IInv, Migration, Partitions
<1>2. ASSUME pc[t] = "migrating", partGranted[Last(partitions)] # << >>
      PROVE  ~MustWait(Head(partGranted[Last(partitions)]))
  <2> DEFINE p == Last(partitions)
             s == partGranted[p]
             l == Head(s)
  <2>1. partitions # << >> /\ IntentOnly
    BY Zenon, <1>1, <1>2 DEF InMigration
  <2>2. p \in Partition
    BY SMTT(30), <2>1 DEF Last, IInv, TypeOK, PartitionType
  <2>3. s # << >>
    BY ZenonT(60), <1>2
  <2> HIDE DEF p
  <2>4. s \in Seq(Locker) /\ NoRepeats(s) /\ \A i \in DOMAIN s : list[s[i]] = "partition"
    BY ZenonT(60), <2>2 DEF IInv, Lists, TypeOK, PartitionType
  <2> HIDE DEF s
  <2>5. l \in Locker /\ list[l] = "partition"
    <3>1. 1 \in DOMAIN s /\ l = s[1] /\ l \in Locker
      BY SMTT(30), <2>3, <2>4
    <3> QED BY Zenon, <2>4, <3>1
  <2>6. mode[l] \in Intent /\ mode[l] \in Mode
    BY ZenonT(60), <2>5 DEF IInv, Lists, Intent, Mode
  <2>7. ~conflicts(mode[l], GrantedModes)
    BY Zenon, <2>1, <2>6, Symmetric DEF conflicts, IntentOnly, Intent, Mode
  <2>8. ~conflicts(mode[l], ConflictModes)
    BY Zenon, <2>1 DEF conflicts, IntentOnly
  <2>9. ~MustWait(l)
    BY Zenon, <2>7, <2>8 DEF MustWait
  <2> QED BY Zenon, <2>9 DEF p, s
<1> QED BY ZenonT(60), <1>1, <1>2 DEF InMigration, IntentOnly

-----------------------------------------------------------------------------
(* Every step keeps both invariants.                                       *)

\* Every step keeps the invariant, unless a conversion can be cancelled while it
\* is granted.
LEMMA NextInvariant ==
  ASSUME Cardinals, IInv, CancelRace => MaxRecursion = 1, [Next]_vars
  PROVE  IInv'
<1>0. Counting
  BY Zenon, CountingHolds
<1>1. ASSUME NEW l \in Locker, Call(l)
      PROVE  IInv'
  BY Zenon, <1>0, <1>1, CallLockStep, CallConvertStep, CallDowngradeStep, WaitTimeoutStep DEF Call
<1>2. ASSUME NEW l \in Locker, CallUnlock(l)
      PROVE  IInv'
  BY Zenon, <1>0, <1>2, CallUnlockStep
<1>3. ASSUME NEW l \in Locker, Acquire(l)
      PROVE  IInv'
  BY Zenon, <1>0, <1>3, LockBucketStep, ConvertBucketStep, DowngradeStep, UnlockGrantedStep,
     UnlockWaitingStep, UnlockConvertingStep DEF Acquire
<1>4. ASSUME NEW l \in Locker, Progress(l)
      PROVE  IInv'
  BY ZenonT(60), <1>0, <1>4, LockPartitionStep, StartPartitionStep, LockOnHeadStep,
       ConvertOnHeadStep,
     UnlockPartitionStep, WaitOkStep, FinishScanStep, ScanConversionStep, NotifyConversionStep,
     ScanConversionsDoneStep, ScanSkipStep, ScanGrantStep, ScanConflictsDoneStep DEF Progress
<1>5. ASSUME NEW t \in Thread, Migrate(t)
      PROVE  IInv'
  BY Zenon, <1>0, <1>5, MigrateBeginStep, MigrateRequestStep, MigrateEndStep DEF Migrate
<1>6. CASE CleanBucket \/ CleanHead
  BY Zenon, <1>0, <1>6, CleanBucketStep, CleanHeadStep
<1>7. CASE UNCHANGED vars
  BY Zenon, <1>7, StutterInvariant
<1> QED BY Zenon, <1>1, <1>2, <1>3, <1>4, <1>5, <1>6, <1>7 DEF Next

\* Every action keeps it.
LEMMA NextQueues ==
  ASSUME Cardinals, IInv, Waiting, CancelRace => MaxRecursion = 1, [Next]_vars
  PROVE  Waiting'
<1>0. IInv' /\ Tallied
  BY Zenon, NextInvariant, TalliedHolds
<1>1. ASSUME NEW l \in Locker, Call(l)
      PROVE  Waiting'
  <2>1. WaitTimeout(l) => BeginUnlock(l) /\ pc[l] \in {"idle", "wait"}
    BY Zenon DEF WaitTimeout
  <2> QED BY Zenon, <1>0, <1>1, <2>1, CallLockQueues, CallConvertQueues, CallDowngradeQueues,
             BeginUnlockQueues DEF Call
<1>2. ASSUME NEW l \in Locker, CallUnlock(l)
      PROVE  Waiting'
  <2>1. BeginUnlock(l) /\ pc[l] \in {"idle", "wait"}
    BY Zenon, <1>2 DEF CallUnlock
  <2> QED BY Zenon, <1>0, <2>1, BeginUnlockQueues
<1>3. ASSUME NEW l \in Locker, Acquire(l)
      PROVE  Waiting'
  BY Zenon, <1>0, <1>3, LockBucketQueues, ConvertBucketQueues, DowngradeQueues,
     UnlockGrantedQueues, UnlockWaitingQueues, UnlockConvertingQueues DEF Acquire
<1>4. ASSUME NEW l \in Locker, Progress(l)
      PROVE  Waiting'
  <2>1. CASE LockOnHead(l)
    <3>1. NewRequestGranted(l) \/ NewRequestWaits(l)
      BY Zenon, <2>1 DEF LockOnHead, NewRequest
    <3> QED BY Zenon, <1>0, <2>1, <3>1, LockOnHeadGrantsQueues, LockOnHeadWaitsQueues
  <2>2. CASE ConvertOnHead(l)
    <3>1. ConvertWaits(l, arg[l]) \/ ConvertGranted(l, arg[l])
      BY Zenon, <2>2 DEF ConvertOnHead
    <3> QED BY Zenon, <1>0, <2>2, <3>1, ConvertWaitsQueues, ConvertGrantedQueues
  <2>3. CASE LockPartition(l) \/ StartPartition(l) \/ UnlockPartition(l) \/ WaitOk(l)
    BY Zenon, <1>0, <2>3, LockPartitionQueues, StartPartitionQueues, UnlockPartitionQueues,
       WaitOkQueues
  <2>4. CASE FinishScan(l) \/ ScanConversion(l) \/ NotifyConversion(l) \/ ScanConversionsDone(l)
    BY Zenon, <1>0, <2>4, FinishScanQueues, ScanConversionQueues, NotifyConversionQueues,
       ScanConversionsDoneQueues
  <2>5. CASE ScanSkip(l) \/ ScanGrant(l) \/ ScanConflictsDone(l)
    BY Zenon, <1>0, <2>5, ScanSkipQueues, ScanGrantQueues
  <2> QED BY Zenon, <1>4, <2>1, <2>2, <2>3, <2>4, <2>5 DEF Progress
<1>5. ASSUME NEW t \in Thread, Migrate(t)
      PROVE  Waiting'
  BY Zenon, <1>0, <1>5, MigrateBeginQueues, MigrateRequestQueues, MigrateEndQueues DEF Migrate
<1>6. CASE CleanBucket \/ CleanHead
  BY Zenon, <1>0, <1>6, CleanQueues, CleanHeadQueues
<1>7. CASE UNCHANGED vars
  BY Zenon, <1>0, <1>7, StutterQueues
<1> QED BY Zenon, <1>1, <1>2, <1>3, <1>4, <1>5, <1>6, <1>7 DEF Next

-----------------------------------------------------------------------------
(* What the invariants say of the lock manager.                            *)

\* The invariant implies the properties.
LEMMA InvariantImplies ==
  ASSUME IInv
  PROVE  TypeOK /\ MutualExclusion /\ CountsMatch /\ PartitionedIsIntent
<1>1. MutualExclusion
  <2>1. \A l \in Locker : pc[l] = "idle" /\ status[l] # None => l \in Held
    BY ZenonT(60) DEF IInv, Requests, RequestOK
  <2> QED BY ZenonT(60), <2>1 DEF MutualExclusion, Compatible, IInv
<1>2. CountsMatch
  BY Zenon DEF CountsMatch, IInv, Counts, ConversionsCounted, GrantedIn, ConvertingTo, WaitingFor
<1>3. PartitionedIsIntent
  BY Zenon DEF PartitionedIsIntent, IInv, Partitions, IntentOnly
<1> QED BY Zenon, <1>1, <1>2, <1>3 DEF IInv

\* While nobody has the bucket mutex, nobody scans.
LEMMA FreeIsScanned ==
  ASSUME IInv, BucketFree
  PROVE  ~QueueToScan /\ \A l \in Locker : ~ToScan(l)
<1>1. Cleaner \in Thread /\ pc[Cleaner] \notin InScan
  BY Zenon DEF IInv, Mutexes, Thread, InScan
<1> QED BY Zenon, <1>1, NobodyScans DEF BucketFree

\* What the cleaner asserts of a head that it deletes.
LEMMA CleanerAssertions ==
  ASSUME Cardinals, IInv, Waiting, IsGlobal => MaxRecursion = 1,
         pc[Cleaner] = "locked", GrantedModes = {}
  PROVE  HeadUnused
<1>1. grantedList = << >> /\ \A l \in Locker : list[l] # "granted" /\ status[l] # "converting"
  BY Zenon, NothingGranted, HeldCountedHolds DEF Waiting
<1>2. ~QueueToScan
  BY Zenon, NobodyScans DEF IInv, Mutexes, Thread, InCriticalSection, InScan
<1>3. conflictList = << >>
  BY Zenon, <1>2 DEF Waiting, QueueBlocked, FrontBlocked, conflicts
<1>4. ConflictModes = {}
  BY Zenon, <1>3, NothingQueued, HeldCountedHolds DEF Waiting
<1>5. conversionsCount = 0
  <2>1. { l \in Locker : status[l] = "converting" } = {}
    BY Zenon, <1>1
  <2> QED BY Zenon, <2>1, EmptyCount DEF IInv, ConversionsCounted
<1>6. compatibleFirstCount = 0
  <2>1. FirstCompatible = {}
    BY Zenon, <1>1 DEF FirstCompatible
  <2> QED BY Zenon, <2>1, EmptyCount DEF Waiting, PolicyCounted
<1> QED BY Zenon, <1>1, <1>3, <1>4, <1>5, <1>6 DEF HeadUnused

-----------------------------------------------------------------------------
(* What holds always, for every finite set of lockers.                     *)

INSTANCE FiniteSetTheorems

\* The lockers are finitely many.
LEMMA CardinalsHold ==
  Cardinals
<1>1. ASSUME NEW S \in SUBSET Locker
      PROVE  /\ IsFiniteSet(S)
             /\ Cardinality(S) \in Nat /\ Cardinality(S) <= Cardinality(Locker)
  BY ZenonT(60), LockerAssumption, FS_Subset, FS_CardinalityType
<1>2. ASSUME NEW S \in SUBSET Locker, NEW l \in Locker
      PROVE  /\ l \notin S => Cardinality(S \cup {l}) = Cardinality(S) + 1
             /\ l \in S => Cardinality(S \ {l}) = Cardinality(S) - 1
  BY ZenonT(60), <1>1, FS_AddElement, FS_RemoveElement
<1> QED BY Zenon, <1>1, <1>2, FS_EmptySet DEF Cardinals

\* The theorems leave out one race: a request that was granted twice or more and
\* is cancelled while it is being granted (CancelRace).
LEMMA Invariance ==
  ASSUME CancelRace => MaxRecursion = 1
  PROVE  Spec => []IInv
<1>1. Init => IInv
  BY Zenon, CardinalsHold, InitInvariant
<1>2. IInv /\ [Next]_vars => IInv'
  BY Zenon, CardinalsHold, NextInvariant
<1> QED BY <1>1, <1>2, PTL DEF Spec

\* For every number of lockers and partitions, lock() never lets two lockers hold
\* conflicting modes of a resource.
THEOREM Safety ==
  ASSUME CancelRace => MaxRecursion = 1
  PROVE  Spec => []MutualExclusion
<1>1. IInv => MutualExclusion
  BY Zenon, InvariantImplies
<1> QED BY <1>1, Invariance, PTL

\* The counts of a LockHead and its mode bit sets are those of its lists:
\* incGrantedModeCount and decConflictModeCount are called in pairs.
THEOREM CountsOfLists ==
  ASSUME CancelRace => MaxRecursion = 1
  PROVE  Spec => []CountsMatch
<1>1. IInv => CountsMatch
  BY Zenon, InvariantImplies
<1> QED BY <1>1, Invariance, PTL

\* As long as a lock head has partitions, requests for intent modes only are
\* granted on it or on a PartitionedLockHead (migratePartitionedLockHeads).
THEOREM PartitionsHoldIntents ==
  ASSUME CancelRace => MaxRecursion = 1
  PROVE  Spec => []PartitionedIsIntent
<1>1. IInv => PartitionedIsIntent
  BY Zenon, InvariantImplies
<1> QED BY <1>1, Invariance, PTL

\* Requests, lists and counts of a lock head keep their types.
THEOREM LockTypes ==
  ASSUME CancelRace => MaxRecursion = 1
  PROVE  Spec => []TypeOK
<1>1. IInv => TypeOK
  BY Zenon, InvariantImplies
<1> QED BY <1>1, Invariance, PTL

\* Both invariants hold in every behaviour.
LEMMA QueuesInvariance ==
  ASSUME CancelRace => MaxRecursion = 1
  PROVE  Spec => [](IInv /\ Waiting)
<1>1. Init => IInv /\ Waiting
  BY Zenon, CardinalsHold, InitInvariant, InitQueues
<1>2. IInv /\ Waiting /\ [Next]_vars => IInv' /\ Waiting'
  BY Zenon, CardinalsHold, NextInvariant, NextQueues
<1> QED BY <1>1, <1>2, PTL DEF Spec

\* For every number of lockers, unlock() and downgrade() leave no request at the
\* front of the queue that could be granted: it is safe that _onLockModeChanged
\* is told to skip the queue while other requests hold the mode given up.
THEOREM QueueIsBlocked ==
  ASSUME CancelRace => MaxRecursion = 1
  PROVE  Spec => []NoLostWakeup
<1>1. IInv /\ Waiting => NoLostWakeup
  <2> SUFFICES ASSUME IInv, Waiting, BucketFree, conflictList # << >>, ~IsGlobal
               PROVE  conflicts(mode[Head(conflictList)], GrantedModes)
    BY Zenon DEF NoLostWakeup
  <2>1. FrontBlocked
    BY Zenon, FreeIsScanned DEF Waiting, QueueBlocked
  <2>2. Head(conflictList) = conflictList[1]
    BY OnConflictList
  <2> QED BY Zenon, <2>1, <2>2 DEF FrontBlocked
<1> QED BY <1>1, QueuesInvariance, PTL

\* For every number of lockers, no conversion that could be granted is left
\* waiting: one pass of _onLockModeChanged over the granted list is enough, as a
\* conversion that it grants never makes room for an earlier one.
THEOREM ConversionsAreBlocked ==
  ASSUME CancelRace => MaxRecursion = 1
  PROVE  Spec => []NoLostConversion
<1>1. IInv /\ Waiting => NoLostConversion
  BY Zenon, FreeIsScanned DEF NoLostConversion, Waiting, ConversionsBlocked
<1> QED BY <1>1, QueuesInvariance, PTL

\* For every number of lockers and partitions, the invariant() calls of the lock
\* manager that the model evaluates hold: in unlock(), downgrade() and convert(),
\* when partitions are migrated, when a scan ends, and when
\* _cleanupUnusedLocksInBucket deletes a lock head.  On the global resource this
\* is so without conversions, as one may change compatibleFirst of a request that
\* is counted already.
THEOREM InvariantCallsHold ==
  ASSUME CancelRace \/ IsGlobal => MaxRecursion = 1
  PROVE  Spec => []Asserted
<1>1. IInv /\ Waiting => Asserted
  BY Zenon, CardinalsHold, HeldCountedHolds, LockerAssertions, MigrationAssertions,
       CleanerAssertions DEF Asserted
<1>2. Spec => [](IInv /\ Waiting)
  BY Zenon, QueuesInvariance
<1> QED BY <1>1, <1>2, PTL

=============================================================================
