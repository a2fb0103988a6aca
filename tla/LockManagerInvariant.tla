------------------------ MODULE LockManagerInvariant ------------------------
(* The inductive invariant of the lock manager, for any number of lockers  *)
(* and partitions: the counts of the lock head are exact, a partition holds *)
(* requests only while the head has intent modes and no waiters, and the   *)
(* requests that hang on a list are pairwise compatible.  Then a second    *)
(* one, on top of it, that says who is blocked by whom.                    *)
EXTENDS LockManager

-----------------------------------------------------------------------------
(* The inductive invariant.                                                *)

GrantedIn(m) == { l \in Locker : list[l] = "granted" /\ mode[l] = m }
ConvertingTo(m) == { l \in Locker : convertMode[l] = m }
WaitingFor(m) == { l \in Locker : list[l] = "conflict" /\ mode[l] = m }

\* The counts are exact.
Counts ==
  \A m \in Mode :
    /\ grantedCounts[m] = Cardinality(GrantedIn(m)) + Cardinality(ConvertingTo(m))
    /\ conflictCounts[m] = Cardinality(WaitingFor(m))

ConversionsCounted ==
  conversionsCount = Cardinality({ l \in Locker : status[l] = "converting" })

Held == { l \in Locker : list[l] \in {"granted", "partition"} }

IntentOnly == GrantedModes \subseteq Intent /\ ConflictModes = {}

Partitions ==
  /\ \A p \in Partition : partGranted[p] # << >> => partExists[p]
  /\ \A p \in Partition : partExists[p] => p \in ToSet(partitions)
  /\ partitions # << >> => IntentOnly

NoRepeats(s) == \A i, j \in DOMAIN s : s[i] = s[j] => i = j

\* No locker occurs twice in a list, and those in it hang on it.
Lists ==
  /\ \A i \in DOMAIN conflictList : list[conflictList[i]] = "conflict"
  /\ NoRepeats(conflictList)
  /\ \A p \in Partition :
       /\ \A i \in DOMAIN partGranted[p] : /\ list[partGranted[p][i]] = "partition"
                                           /\ PartitionOf[partGranted[p][i]] = p
       /\ NoRepeats(partGranted[p])
  /\ \A l \in Locker : list[l] = "partition" =>
       /\ mode[l] \in Intent
       /\ \E i \in DOMAIN partGranted[PartitionOf[l]] :
            partGranted[PartitionOf[l]][i] = l

InCriticalSection == {"startPartition", "migrate", "migrating", "locked",
  "scanConversions", "notifyConversion", "scanConflicts", "scanned"}
InMigration == {"migrate", "migrating"}
InScan == {"scanConversions", "notifyConversion", "scanConflicts", "scanned"}

\* Who is inside the critical section of the bucket, and who is about to be.
Mutexes ==
  /\ \A t \in Thread : pc[t] \in InCriticalSection => bucketMutex = t
  /\ \A l \in Locker : status[l] = "converting" /\ pc[l] # "wait" => bucketMutex = l
  /\ pc[Cleaner] \in {"idle", "migrate", "migrating", "locked"}

\* What the thread inside knows of the partitions.
Migration ==
  \A t \in Thread :
    /\ pc[t] \in InMigration => partitions # << >>
    /\ pc[t] = "locked" => partitions = << >>
    /\ pc[t] = "startPartition" => IntentOnly

\* A conversion is granted a moment before its owner is notified.
Notification ==
  /\ \A t \in Thread : pc[t] = "notifyConversion" =>
       /\ iter \in DOMAIN grantedList
       /\ pc[grantedList[iter]] = "wait" /\ status[grantedList[iter]] = "granted"
       /\ notify[grantedList[iter]] = "invalid"
  /\ \A l \in Locker :
       pc[l] = "wait" /\ status[l] = "granted" /\ notify[l] = "invalid"
         => \E t \in Thread : pc[t] = "notifyConversion" /\ grantedList[iter] = l

\* What the request of locker l looks like at each place of its thread.
RequestOK(l) ==
  /\ status[l] = None <=> mode[l] = None
  /\ status[l] = None => list[l] = None
  /\ list[l] = "partition" => partitioned[l] /\ status[l] = "granted"
  /\ list[l] = "conflict" => status[l] = "waiting" /\ pc[l] \in {"wait", "unlock"}
  /\ status[l] = "converting" <=> convertMode[l] # None
  /\ status[l] = "converting" =>
       /\ list[l] = "granted" /\ notify[l] = "invalid"
       /\ pc[l] \in {"wait", "unlockPartition", "unlock"}
  /\ status[l] = "waiting" /\ pc[l] \notin InScan =>
       list[l] = "conflict" /\ notify[l] = "invalid"
  /\ pc[l] = "idle" =>
       \/ status[l] = None
       \/ status[l] = "granted" /\ l \in Held /\ recursiveCount[l] > 0
  /\ pc[l] \in {"lockPartition", "lock", "startPartition"} =>
       /\ status[l] = "new" /\ list[l] = None /\ arg[l] = None
       /\ recursiveCount[l] = 1
       /\ partitioned[l] => mode[l] \in Intent
  /\ pc[l] \in {"lockPartition", "startPartition"} => partitioned[l]
  /\ pc[l] \in {"migrate", "migrating", "locked"} =>
       \/ /\ status[l] = "new" /\ list[l] = None /\ arg[l] = None
          /\ recursiveCount[l] = 1
       \/ /\ status[l] = "granted" /\ l \in Held /\ arg[l] # None
          /\ recursiveCount[l] > 1
  /\ pc[l] \in {"lockPartition", "lock", "startPartition", "migrate", "migrating",
               "locked", "convert"} => notify[l] = "invalid"
  /\ pc[l] = "convert" =>
       status[l] = "granted" /\ l \in Held /\ arg[l] # None /\ recursiveCount[l] > 1
  /\ pc[l] = "downgrade" =>
       /\ status[l] = "granted" /\ list[l] = "granted" /\ recursiveCount[l] > 0
       /\ arg[l] # None /\ mode[l] \notin Intent /\ Covers(mode[l], arg[l])
  /\ pc[l] \notin {"migrate", "migrating", "locked", "convert", "downgrade"}
       => arg[l] = None
  /\ pc[l] = "wait" =>
       /\ status[l] \in {"waiting", "granted", "converting"}
       /\ status[l] = "granted" => list[l] = "granted"
       /\ recursiveCount[l] > 0
       /\ status[l] = "converting" => recursiveCount[l] > 1
       /\ status[l] = "granted" /\ notify[l] = "invalid" => recursiveCount[l] > 1
       /\ recursiveCount[l] = 1 => ~partitioned[l]
       /\ recursiveCount[l] > 1 => status[l] # "waiting"
  /\ pc[l] \in {"unlockPartition", "unlock"} =>
       \/ status[l] = "converting" /\ recursiveCount[l] > 0
       \/ recursiveCount[l] = 0 /\ status[l] = "granted" /\ l \in Held
       \/ recursiveCount[l] = 0 /\ status[l] = "waiting"
  /\ pc[l] = "unlockPartition" => status[l] # "waiting"
  /\ pc[l] = "unlock" => list[l] # "partition"
  /\ pc[l] \in InScan =>
       \/ recursiveCount[l] = 0 /\ list[l] = None /\ status[l] \in {"granted", "waiting"}
       \/ recursiveCount[l] > 0 /\ list[l] = "granted" /\ status[l] = "granted"

Requests == \A l \in Locker : RequestOK(l)

IInv == /\ TypeOK /\ Counts /\ ConversionsCounted /\ Partitions /\ Lists
        /\ Mutexes /\ Migration /\ Notification /\ Requests /\ Compatible(Held)

-----------------------------------------------------------------------------
(* What the counts are good for.                                           *)

Bit(b) == IF b THEN 1 ELSE 0

\* The requests of the other lockers stay as they are.
OthersKept(l) ==
  \A k \in Locker : k # l =>
    /\ status'[k] = status[k] /\ mode'[k] = mode[k] /\ convertMode'[k] = convertMode[k]
    /\ recursiveCount'[k] = recursiveCount[k] /\ partitioned'[k] = partitioned[k]
    /\ list'[k] = list[k] /\ notify'[k] = notify[k]

\* The counts follow the request of locker l.
CountsFollow(l) ==
  /\ \A m \in Mode :
       /\ grantedCounts'[m] = grantedCounts[m]
            + Bit(list'[l] = "granted" /\ mode'[l] = m)
            - Bit(list[l] = "granted" /\ mode[l] = m)
            + Bit(convertMode'[l] = m) - Bit(convertMode[l] = m)
       /\ conflictCounts'[m] = conflictCounts[m]
            + Bit(list'[l] = "conflict" /\ mode'[l] = m)
            - Bit(list[l] = "conflict" /\ mode[l] = m)
  /\ conversionsCount' = conversionsCount + Bit(status'[l] = "converting")
                                          - Bit(status[l] = "converting")

\* A request that hangs on the lock head is counted.
RequestCounted(l) ==
  /\ list[l] # None => mode[l] \in Mode /\ status[l] # None
  /\ list[l] = "granted" => mode[l] \in GrantedModes /\ grantedCounts[mode[l]] > 0
  /\ list[l] = "conflict" => mode[l] \in ConflictModes /\ conflictCounts[mode[l]] > 0
  /\ status[l] = "converting" =>
       /\ convertMode[l] \in Mode /\ convertMode[l] \in GrantedModes
       /\ grantedCounts[convertMode[l]] > 0 /\ conversionsCount > 0

\* What the proofs use of cardinalities.  LockManagerProofs shows that it holds of
\* every finite set of lockers.
Cardinals ==
  /\ Cardinality({}) = 0
  /\ \A S \in SUBSET Locker :
       /\ Cardinality(S) \in Nat /\ Cardinality(S) <= Cardinality(Locker)
       /\ \A l \in Locker : /\ l \notin S => Cardinality(S \cup {l}) = Cardinality(S) + 1
                            /\ l \in S => Cardinality(S \ {l}) = Cardinality(S) - 1

\* The consequences of IInv that rest on cardinalities, which the steps use:
\* requests are counted, grantedModesWithoutCurrentRequest contains what every
\* other locker holds, and counts that follow the one request that changes
\* stay exact.  LockManagerProofs derives them from IInv.
Counting ==
  /\ \A l \in Locker : RequestCounted(l)
  /\ \A l, k \in Locker :
       list[l] = "granted" /\ k # l /\ list[k] = "granted" => mode[k] \in OtherModes(l)
  /\ \A l \in Locker : OthersKept(l) /\ CountsFollow(l) => Counts' /\ ConversionsCounted'

-----------------------------------------------------------------------------
(* The second invariant: who is blocked by whom.                           *)

\* Requests that say so, and no others, are on the lists of the head.
GrantedExact ==
  /\ \A i \in DOMAIN grantedList : list[grantedList[i]] = "granted"
  /\ NoRepeats(grantedList)
  /\ \A l \in Locker : list[l] = "granted" => \E i \in DOMAIN grantedList : grantedList[i] = l

QueueExact ==
  \A l \in Locker : list[l] = "conflict" => \E i \in DOMAIN conflictList : conflictList[i] = l

ListsExact == GrantedExact /\ QueueExact

\* A conversion asks for a mode that covers the one held.
Converts == {"convert", "migrate", "migrating", "locked"}

Widening ==
  \A l \in Locker :
    /\ pc[l] \in Converts /\ arg[l] # None => Covers(arg[l], mode[l])
    /\ status[l] = "converting" => Covers(convertMode[l], mode[l])

Unnotified == \A l \in Locker : status[l] = "waiting" => notify[l] = "invalid"

\* Only the global resource has requests with priority, ...
PolicyUnused ==
  ~IsGlobal =>
    /\ compatibleFirstCount = 0 /\ newlyCompatibleFirst = FALSE
    /\ \A l \in Locker : compatibleFirst[l] = FALSE
    /\ \A t \in Thread : pc[t] = "scanConflicts" => iter = 1

\* ... and they are counted, unless a conversion gives one its priority.
FirstCompatible == { l \in Locker : list[l] = "granted" /\ compatibleFirst[l] = TRUE }

PolicyCounted ==
  (IsGlobal => MaxRecursion = 1) => compatibleFirstCount = Cardinality(FirstCompatible)

\* The scan has yet to look at the front of the queue.
Scans == {"scanConversions", "notifyConversion"}

QueueToScan ==
  \E t \in Thread : \/ pc[t] \in Scans /\ checkConflictQueue = TRUE
                    \/ pc[t] = "scanConflicts" /\ iter = 1

\* With priorities, the front of the queue need not be what blocks it.
FrontBlocked ==
  IF IsGlobal THEN GrantedModes # {} ELSE conflicts(mode[conflictList[1]], GrantedModes)

QueueBlocked == conflictList # << >> => FrontBlocked \/ QueueToScan

\* The scan has yet to look at the conversion of locker l.
ToScan(l) ==
  \E t \in Thread : /\ pc[t] \in Scans
                    /\ \E i \in DOMAIN grantedList : grantedList[i] = l /\ i >= iter

ConversionsBlocked ==
  \A l \in Locker : status[l] = "converting" =>
    conflicts(convertMode[l], OtherModes(l)) \/ ToScan(l)

Waiting == /\ ListsExact /\ Widening /\ Unnotified /\ PolicyUnused /\ PolicyCounted
           /\ QueueBlocked /\ ConversionsBlocked

\* What IInv says of the counts, in the state and the next, and how the count of
\* the requests with priority follows the request that changes.  As cardinalities
\* are needed for these, LockManagerProofs derives them from IInv.
HeldCounted ==
  /\ \A l \in Locker : RequestCounted(l)
  /\ \A l, k \in Locker :
       list[l] = "granted" /\ k # l /\ list[k] = "granted" => mode[k] \in OtherModes(l)
  /\ (\A l \in Locker : list[l] # "conflict") => ConflictModes = {}
  /\ (\A l \in Locker : list[l] # "granted" /\ convertMode[l] = None) => GrantedModes = {}

PolicyFollows(l) ==
  /\ OthersKept(l) /\ UNCHANGED compatibleFirst
  /\ \/ /\ list[l] # "granted" /\ list'[l] = "granted"
        /\ compatibleFirstCount' = PolicyCount(l, 1)
     \/ /\ list[l] = "granted" /\ list'[l] # "granted"
        /\ compatibleFirstCount' = PolicyCount(l, -1)
     \/ /\ list'[l] = "granted" <=> list[l] = "granted"
        /\ compatibleFirstCount' = compatibleFirstCount

Tallied == /\ HeldCounted /\ HeldCounted'
           /\ \A l \in Locker : PolicyCounted /\ PolicyFollows(l) => PolicyCounted'

\* Every granted mode is replaced by one that covers it.
GrantsCovered == \A n \in GrantedModes : \E m \in GrantedModes' : Covers(m, n)

\* The same of the modes that locker l does not hold itself.
OthersCovered(l) == \A n \in OtherModes(l) : \E m \in OtherModes(l)' : Covers(m, n)

\* The requests on the head stay, and the scan, if there is one, does not move.
Quiet ==
  /\ UNCHANGED << grantedList, grantedCounts, conflictList, conflictCounts,
                  conversionsCount, compatibleFirstCount >>
  /\ \A k \in Locker :
       \/ /\ list'[k] = list[k] /\ mode'[k] = mode[k] /\ status'[k] = status[k]
          /\ convertMode'[k] = convertMode[k]
       \/ list[k] \in {None, "partition"} /\ list'[k] \in {None, "partition"}
  /\ \/ /\ UNCHANGED << iter, checkConflictQueue, newlyCompatibleFirst >>
        /\ \A t \in Thread : pc'[t] = pc[t] \/ (pc[t] \notin InScan /\ pc'[t] \notin InScan)
     \/ \A t \in Thread : /\ pc[t] \notin InScan \ {"scanned"}
                          /\ pc'[t] \notin InScan \ {"scanned"}

\* Priorities are given to new requests only.
PrioritiesKept ==
  /\ ~IsGlobal => newlyCompatibleFirst' = FALSE
  /\ \A k \in Locker :
       \/ compatibleFirst'[k] = compatibleFirst[k]
       \/ /\ list'[k] # "granted" /\ list[k] # "granted"
          /\ ~IsGlobal => compatibleFirst'[k] = FALSE
       \/ IsGlobal /\ MaxRecursion # 1

=============================================================================
