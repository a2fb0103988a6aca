------------------------ MODULE LockManagerRequests -------------------------
(* Facts about the lists and counts of the lock manager, about what a step *)
(* of one thread leaves alone, and that the invariant is kept by the steps *)
(* in which a thread begins an operation, takes the bucket's mutex for it, *)
(* waits, downgrades or unlocks on the head.  Then the same for the second *)
(* invariant: what blocks a request goes on to block it, and the steps     *)
(* that leave the lock head alone, or add a request to it, keep it.  Last, *)
(* what both invariants say of the counts, and that they hold at first.    *)
EXTENDS LockManagerInvariant, TLAPS

-----------------------------------------------------------------------------
(* Facts about requests and their counts of references.                    *)

\* What RequestOK says of a request depends on the request and on where its
\* locker is only.
LEMMA RequestStutters ==
  ASSUME NEW l \in Locker, RequestOK(l), Held' = Held,
         UNCHANGED << status, mode, convertMode, recursiveCount, partitioned, list, notify,
                      pc, arg >>
  PROVE  RequestOK(l)'
  BY SMTT(30) DEF RequestOK

\* What is left of a count of references when one is given up.
LEMMA OneLess ==
  ASSUME NEW c \in 0 .. MaxRecursion, c > 0
  PROVE  (c > 1 => c - 1 > 0) /\ (~(c > 1) => c - 1 = 0)
  OBVIOUS

\* A first reference is one and no more.
LEMMA FirstReference ==
  1 > 0 /\ ~(1 > 1)
  OBVIOUS

\* A waiter whose conversion was granted, before it is notified.
LEMMA ConvertedWaits ==
  ASSUME NEW l \in Locker, status'[l] = "granted", list'[l] = "granted", mode'[l] \in Mode,
         convertMode'[l] = None, notify'[l] = "invalid", pc'[l] = "wait", arg'[l] = None,
         recursiveCount'[l] \in Nat, recursiveCount'[l] > 1
  PROVE  RequestOK(l)'
<1>1. recursiveCount'[l] > 0 /\ recursiveCount'[l] # 1
  OBVIOUS
<1>2. mode'[l] # None
  BY Zenon DEF Mode, None
<1> QED BY ZenonT(60), <1>1, <1>2 DEF RequestOK, InScan, None

-----------------------------------------------------------------------------
(* Facts about modes and sequences.                                        *)

\* LockConflictsTable is symmetric, and intent modes do not conflict.
LEMMA Symmetric ==
  ASSUME NEW m \in Mode, NEW n \in Mode
  PROVE  /\ m \in LockConflictsTable(n) <=> n \in LockConflictsTable(m)
         /\ m \in Intent /\ n \in Intent => m \notin LockConflictsTable(n)
  BY Zenon DEF Mode, Intent, LockConflictsTable

\* What removing one element does to a sequence without repetitions.
LEMMA RemoveAtFacts ==
  ASSUME NEW s \in Seq(Locker), NEW i \in DOMAIN s
  PROVE  LET t == RemoveAt(s, i)
         IN /\ t \in Seq(Locker)
            /\ NoRepeats(s) => NoRepeats(t)
            /\ \A j \in DOMAIN t : \E k \in DOMAIN s : k # i /\ t[j] = s[k]
            /\ \A k \in DOMAIN s : k # i => \E j \in DOMAIN t : t[j] = s[k]
<1> DEFINE t == RemoveAt(s, i)
           n == Len(s)
<1>1. i \in 1 .. n /\ n \in Nat /\ DOMAIN s = 1 .. n
  OBVIOUS
<1> DEFINE u == SubSeq(s, 1, i - 1)
           v == SubSeq(s, i + 1, n)
<1>2. /\ u \in Seq(Locker) /\ Len(u) = i - 1
      /\ \A j \in 1 .. i - 1 : u[j] = s[j]
  BY <1>1
<1>3. /\ v \in Seq(Locker) /\ Len(v) = n - i
      /\ \A j \in 1 .. n - i : v[j] = s[i + j]
  BY SMTT(30), <1>1
<1>a. t = u \o v
  BY Zenon DEF RemoveAt
<1> HIDE DEF u, v, t, n
<1>b. t \in Seq(Locker) /\ Len(t) = n - 1 /\ DOMAIN t = 1 .. n - 1
  <2>1. t \in Seq(Locker) /\ Len(t) = Len(u) + Len(v)
    BY <1>2, <1>3, <1>a
  <2> QED BY <1>1, <1>2, <1>3, <2>1
<1>c. ASSUME NEW j \in 1 .. n - 1
      PROVE  t[j] = IF j < i THEN s[j] ELSE s[j + 1]
  <2>1. CASE j < i
    BY <1>1, <1>2, <1>3, <1>a, <2>1
  <2>2. CASE j >= i
    <3>1. t[j] = v[j - (i - 1)]
      BY SMTT(30), <1>1, <1>2, <1>3, <1>a, <2>2
    <3>2. j - (i - 1) \in 1 .. n - i /\ i + (j - (i - 1)) = j + 1
      BY <1>1, <2>2
    <3> QED BY <1>3, <3>1, <3>2, <2>2
  <2> QED BY <1>1, <2>1, <2>2
<1>4. ASSUME NoRepeats(s)
      PROVE  NoRepeats(t)
  <2> SUFFICES ASSUME NEW a \in 1 .. n - 1, NEW b \in 1 .. n - 1, t[a] = t[b]
               PROVE  a = b
    BY Zenon, <1>b DEF NoRepeats
  <2> DEFINE at(j) == IF j < i THEN j ELSE j + 1
  <2>1. s[at(a)] = s[at(b)] /\ at(a) \in DOMAIN s /\ at(b) \in DOMAIN s
    BY <1>1, <1>c
  <2>2. at(a) = at(b)
    BY Zenon, <1>4, <2>1 DEF NoRepeats
  <2> QED BY <1>1, <2>2
<1>5. ASSUME NEW j \in DOMAIN t
      PROVE  \E k \in DOMAIN s : k # i /\ t[j] = s[k]
  <2>1. CASE j < i
    <3>1. j \in DOMAIN s /\ j # i /\ t[j] = s[j]
      BY <1>1, <1>b, <1>c, <2>1
    <3> QED BY Zenon, <3>1
  <2>2. CASE j >= i
    <3>1. j + 1 \in DOMAIN s /\ j + 1 # i /\ t[j] = s[j + 1]
      BY <1>1, <1>b, <1>c, <2>2
    <3> QED BY Zenon, <3>1
  <2> QED BY <1>1, <1>b, <2>1, <2>2
<1>6. ASSUME NEW k \in DOMAIN s, k # i
      PROVE  \E j \in DOMAIN t : t[j] = s[k]
  <2>1. CASE k < i
    <3>1. k \in DOMAIN t /\ t[k] = s[k]
      BY <1>1, <1>b, <1>c, <2>1
    <3> QED BY Zenon, <3>1
  <2>2. CASE k > i
    <3>1. k - 1 \in DOMAIN t /\ t[k - 1] = s[k]
      BY <1>1, <1>b, <1>c, <2>2
    <3> QED BY Zenon, <3>1
  <2> QED BY <1>1, <1>6, <2>1, <2>2
<1> QED BY Zenon, <1>b, <1>4, <1>5, <1>6 DEF t

\* LockRequestList::remove returns a list of lockers.
LEMMA RemoveRequestType ==
  ASSUME NEW s \in Seq(Locker), NEW l \in Locker
  PROVE  RemoveRequest(s, l) \in Seq(Locker)
<1>1. CASE l \in ToSet(s)
  <2>1. PositionOf(s, l) \in DOMAIN s
    BY Zenon, <1>1 DEF ToSet, PositionOf
  <2> QED BY Zenon, <1>1, <2>1, RemoveAtFacts DEF RemoveRequest
<1>2. CASE l \notin ToSet(s)
  BY <1>2 DEF RemoveRequest
<1> QED BY Zenon, <1>1, <1>2

\* RemoveRequest(s, l) has no other members than s, and l is not one.
LEMMA RemoveRequestFacts ==
  ASSUME NEW s \in Seq(Locker), NEW l \in Locker, NoRepeats(s)
  PROVE  LET t == RemoveRequest(s, l)
         IN /\ t \in Seq(Locker) /\ NoRepeats(t)
            /\ \A j \in DOMAIN t : t[j] # l /\ \E k \in DOMAIN s : t[j] = s[k]
            /\ (\E i \in DOMAIN s : s[i] = l) =>
                 \A k \in DOMAIN s : s[k] # l => \E j \in DOMAIN t : t[j] = s[k]
<1>1. CASE l \in ToSet(s)
  <2> DEFINE i == PositionOf(s, l)
  <2>1. i \in DOMAIN s /\ s[i] = l
    BY Zenon, <1>1 DEF ToSet, PositionOf
  <2>2. \A k \in DOMAIN s : k # i => s[k] # l
    BY Zenon, <2>1 DEF NoRepeats
  <2>3. RemoveRequest(s, l) = RemoveAt(s, i)
    BY Zenon, <1>1 DEF RemoveRequest
  <2> DEFINE t == RemoveAt(s, i)
  <2>4. /\ t \in Seq(Locker) /\ NoRepeats(t)
        /\ \A j \in DOMAIN t : \E k \in DOMAIN s : k # i /\ t[j] = s[k]
        /\ \A k \in DOMAIN s : k # i => \E j \in DOMAIN t : t[j] = s[k]
    BY Zenon, <2>1, RemoveAtFacts
  <2> HIDE DEF i, t
  <2>5. \A j \in DOMAIN t : t[j] # l /\ \E k \in DOMAIN s : t[j] = s[k]
    BY Zenon, <2>2, <2>4
  <2>6. \A k \in DOMAIN s : s[k] # l => \E j \in DOMAIN t : t[j] = s[k]
    BY Zenon, <2>1, <2>4
  <2> QED BY <2>3, <2>4, <2>5, <2>6 DEF t
<1>2. CASE l \notin ToSet(s)
  <2>1. RemoveRequest(s, l) = << >>
    BY Zenon, <1>2 DEF RemoveRequest
  <2>2. ~(\E i \in DOMAIN s : s[i] = l)
    BY Zenon, <1>2 DEF ToSet
  <2> QED BY <2>1, <2>2 DEF NoRepeats
<1> QED BY Zenon, <1>1, <1>2

\* What push_back does to a list the request is not on.
LEMMA AppendFacts ==
  ASSUME NEW s \in Seq(Locker), NEW l \in Locker, NoRepeats(s),
         \A i \in DOMAIN s : s[i] # l
  PROVE  LET t == Append(s, l)
         IN /\ t \in Seq(Locker) /\ NoRepeats(t) /\ t # << >>
            /\ \A j \in DOMAIN t : t[j] = l \/ \E k \in DOMAIN s : t[j] = s[k]
            /\ \A k \in DOMAIN s : \E j \in DOMAIN t : t[j] = s[k]
            /\ \E j \in DOMAIN t : t[j] = l
<1> DEFINE t == Append(s, l)
<1>1. /\ t \in Seq(Locker) /\ DOMAIN t = 1 .. Len(s) + 1 /\ DOMAIN s = 1 .. Len(s)
      /\ Len(s) \in Nat /\ t[Len(s) + 1] = l /\ \A i \in 1 .. Len(s) : t[i] = s[i]
  OBVIOUS
<1> HIDE DEF t
<1>2. \A i \in DOMAIN t : i = Len(s) + 1 \/ i \in DOMAIN s
  BY <1>1
<1>3. NoRepeats(t)
  BY Zenon, <1>1, <1>2 DEF NoRepeats
<1>4. \A j \in DOMAIN t : t[j] = l \/ \E k \in DOMAIN s : t[j] = s[k]
  BY Zenon, <1>1, <1>2
<1>5. \A k \in DOMAIN s : k \in DOMAIN t /\ t[k] = s[k]
  BY <1>1
<1>6. Len(s) + 1 \in DOMAIN t /\ t # << >>
  BY <1>1
<1> QED BY Zenon, <1>1, <1>3, <1>4, <1>5, <1>6 DEF t

\* What push_front does to a list the request is not on.
LEMMA PrependFacts ==
  ASSUME NEW s \in Seq(Locker), NEW l \in Locker, NoRepeats(s),
         \A i \in DOMAIN s : s[i] # l
  PROVE  LET t == << l >> \o s
         IN /\ t \in Seq(Locker) /\ NoRepeats(t)
            /\ \A j \in DOMAIN t : t[j] = l \/ \E k \in DOMAIN s : t[j] = s[k]
<1> DEFINE t == << l >> \o s
<1>1. /\ t \in Seq(Locker) /\ Len(t) = Len(s) + 1
      /\ \A i \in 1 .. Len(s) + 1 : t[i] = IF i <= 1 THEN l ELSE s[i - 1]
  <2>1. << l >> \in Seq(Locker) /\ Len(<< l >>) = 1 /\ << l >>[1] = l
    OBVIOUS
  <2>2. /\ t \in Seq(Locker) /\ Len(t) = 1 + Len(s)
        /\ \A i \in 1 .. 1 + Len(s) : t[i] = IF i <= 1 THEN << l >>[i] ELSE s[i - 1]
    BY <2>1
  <2> QED BY <2>1, <2>2
<1> HIDE DEF t
<1>2. DOMAIN t = 1 .. Len(s) + 1 /\ DOMAIN s = 1 .. Len(s) /\ Len(s) \in Nat
  BY <1>1
<1>3. \A i \in DOMAIN t : i # 1 => i - 1 \in DOMAIN s /\ t[i] = s[i - 1]
  BY <1>1, <1>2
<1>4. \A i \in DOMAIN t : i = 1 => t[i] = l
  BY <1>1, <1>2
<1>5. NoRepeats(t)
  BY <1>2, <1>3, <1>4 DEF NoRepeats
<1>6. \A j \in DOMAIN t : t[j] = l \/ \E k \in DOMAIN s : t[j] = s[k]
  BY Zenon, <1>3, <1>4
<1> QED BY Zenon, <1>1, <1>5, <1>6 DEF t

\* What taking off the first element does to a list.
LEMMA TailFacts ==
  ASSUME NEW s \in Seq(Locker), s # << >>, NoRepeats(s)
  PROVE  /\ Tail(s) \in Seq(Locker) /\ NoRepeats(Tail(s)) /\ Head(s) \in Locker
         /\ 1 \in DOMAIN s /\ Head(s) = s[1]
         /\ \A j \in DOMAIN Tail(s) :
              Tail(s)[j] # Head(s) /\ \E k \in DOMAIN s : Tail(s)[j] = s[k]
         /\ \A k \in DOMAIN s : s[k] # Head(s) => \E j \in DOMAIN Tail(s) : Tail(s)[j] = s[k]
<1> DEFINE t == Tail(s)
<1>1. /\ t \in Seq(Locker) /\ DOMAIN t = 1 .. Len(s) - 1 /\ DOMAIN s = 1 .. Len(s)
      /\ Len(s) \in Nat \ {0} /\ \A i \in 1 .. Len(s) - 1 : t[i] = s[i + 1]
      /\ Head(s) = s[1] /\ Head(s) \in Locker
  OBVIOUS
<1> HIDE DEF t
<1>2. \A i \in DOMAIN t : i + 1 \in DOMAIN s /\ i + 1 # 1 /\ t[i] = s[i + 1]
  BY <1>1
<1>3. \A i \in DOMAIN s : i # 1 => i - 1 \in DOMAIN t /\ t[i - 1] = s[i]
  BY <1>1
<1>4. 1 \in DOMAIN s
  BY <1>1
<1>5. NoRepeats(t)
  <2> SUFFICES ASSUME NEW a \in DOMAIN t, NEW b \in DOMAIN t, t[a] = t[b]
               PROVE  a = b
    BY Zenon DEF NoRepeats
  <2>1. a + 1 = b + 1
    BY Zenon, <1>2 DEF NoRepeats
  <2> QED BY <1>1, <2>1
<1>6. \A j \in DOMAIN t : t[j] # Head(s) /\ \E k \in DOMAIN s : t[j] = s[k]
  BY ZenonT(60), <1>1, <1>2, <1>4 DEF NoRepeats
<1>7. \A k \in DOMAIN s : s[k] # Head(s) => \E j \in DOMAIN t : t[j] = s[k]
  BY Zenon, <1>1, <1>3
<1> QED BY Zenon, <1>1, <1>4, <1>5, <1>6, <1>7 DEF t

-----------------------------------------------------------------------------
(* Consequences of the invariant.                                          *)

\* A request that hangs on the lock head is counted.
LEMMA Counted ==
  ASSUME Counting, NEW l \in Locker
  PROVE  /\ list[l] # None => mode[l] \in Mode /\ status[l] # None
         /\ list[l] = "granted" => mode[l] \in GrantedModes /\ grantedCounts[mode[l]] > 0
         /\ list[l] = "conflict" => mode[l] \in ConflictModes /\ conflictCounts[mode[l]] > 0
         /\ status[l] = "converting" =>
              /\ convertMode[l] \in Mode /\ convertMode[l] \in GrantedModes
              /\ grantedCounts[convertMode[l]] > 0 /\ conversionsCount > 0
  BY Zenon DEF Counting, RequestCounted

\* grantedModesWithoutCurrentRequest contains what every other locker holds.
LEMMA OtherHolders ==
  ASSUME Counting, NEW l \in Locker, list[l] = "granted",
         NEW k \in Locker, k # l, list[k] = "granted"
  PROVE  mode[k] \in OtherModes(l)
  BY Zenon DEF Counting

\* Counts stay exact when they follow the one request that changes.
LEMMA CountsStep ==
  ASSUME Counting, NEW l \in Locker, OthersKept(l), CountsFollow(l)
  PROVE  Counts' /\ ConversionsCounted'
  BY Zenon DEF Counting

\* The policy count stays in the range of its type.
LEMMA PolicyType ==
  ASSUME TypeOK, NEW l \in Locker, NEW d \in {1, -1}
  PROVE  PolicyCount(l, d) \in 0 .. UIntRange - 1
  BY BoundAssumption DEF TypeOK, RequestType, HeadType, PolicyCount

\* Updating a function into BOOLEAN gives such a function.
LEMMA BooleanUpdate ==
  ASSUME NEW S, NEW f \in [S -> BOOLEAN], NEW x \in S, NEW b \in BOOLEAN
  PROVE  [f EXCEPT ![x] = b] \in [S -> BOOLEAN]
  OBVIOUS

-----------------------------------------------------------------------------
(* Every step preserves each part of the invariant.                        *)

\* What a step leaves alone when it does not touch the variables of a part.
LEMMA Frame ==
  ASSUME IInv
  PROVE  /\ UNCHANGED request => RequestType'
         /\ UNCHANGED head => HeadType'
         /\ UNCHANGED parts => PartitionType'
         /\ UNCHANGED << list, mode, convertMode, grantedCounts, conflictCounts >> => Counts'
         /\ UNCHANGED << status, conversionsCount >> => ConversionsCounted'
         /\ UNCHANGED << parts, grantedCounts, conflictCounts >> => Partitions'
         /\ UNCHANGED << list, mode, conflictList, partGranted >> => Lists'
         /\ UNCHANGED << list, mode >> => Compatible(Held)'
<1> USE DEF IInv
<1>1. UNCHANGED request => RequestType'
  BY Zenon DEF TypeOK, RequestType, request
<1>2. UNCHANGED head => HeadType'
  BY Zenon DEF TypeOK, HeadType, head
<1>3. UNCHANGED parts => PartitionType'
  BY Zenon DEF TypeOK, PartitionType, parts
<1>4. UNCHANGED << list, mode, convertMode, grantedCounts, conflictCounts >> => Counts'
  BY DEF Counts, GrantedIn, ConvertingTo, WaitingFor
<1>5. UNCHANGED << status, conversionsCount >> => ConversionsCounted'
  BY Zenon DEF ConversionsCounted
<1>6. UNCHANGED << parts, grantedCounts, conflictCounts >> => Partitions'
  BY Zenon DEF Partitions, parts, IntentOnly, GrantedModes, ConflictModes
<1>7. UNCHANGED << list, mode, conflictList, partGranted >> => Lists'
  BY DEF Lists
<1>8. UNCHANGED << list, mode >> => Compatible(Held)'
  BY Zenon DEF Compatible, Held
<1> QED BY Zenon, <1>1, <1>2, <1>3, <1>4, <1>5, <1>6, <1>7, <1>8

\* A request stays as it should be when its fields and its thread do.
LEMMA RequestFrame ==
  ASSUME NEW k \in Locker, RequestOK(k),
         status'[k] = status[k], mode'[k] = mode[k], convertMode'[k] = convertMode[k],
         recursiveCount'[k] = recursiveCount[k], partitioned'[k] = partitioned[k],
         list'[k] = list[k], notify'[k] = notify[k], pc'[k] = pc[k], arg'[k] = arg[k]
  PROVE  RequestOK(k)'
  BY DEF RequestOK, Held

-----------------------------------------------------------------------------
(* What a step of thread t on the request of locker l has to show.         *)

\* incGrantedModeCount and its siblings, as changes of one count.
LEMMA IncDec ==
  ASSUME NEW c \in [Mode -> Nat], NEW a \in Mode, NEW b \in Mode
  PROVE  /\ Inc(c, a) \in [Mode -> Nat]
         /\ c[b] > 0 => Dec(c, b) \in [Mode -> Nat] /\ Dec(Inc(c, a), b) \in [Mode -> Nat]
         /\ \A m \in Mode : /\ Inc(c, a)[m] = c[m] + Bit(a = m)
                            /\ Dec(c, b)[m] = c[m] - Bit(b = m)
                            /\ Dec(Inc(c, a), b)[m] = c[m] + Bit(a = m) - Bit(b = m)
<1>1. Inc(c, a) \in [Mode -> Nat] /\ \A m \in Mode : Inc(c, a)[m] = c[m] + Bit(a = m)
  BY DEF Inc, Bit
<1>2. \A m \in Mode : Dec(c, b)[m] = c[m] - Bit(b = m)
  BY DEF Dec, Bit
<1>3. c[b] > 0 => Dec(c, b) \in [Mode -> Nat]
  BY DEF Dec
<1> DEFINE d == Inc(c, a)
<1>4. d \in [Mode -> Nat] /\ (c[b] > 0 => d[b] > 0)
  BY <1>1 DEF Bit
<1> HIDE DEF d
<1>5. \A m \in Mode : Dec(d, b)[m] = d[m] - Bit(b = m)
  BY <1>4 DEF Dec, Bit
<1>6. c[b] > 0 => Dec(d, b) \in [Mode -> Nat]
  BY <1>4 DEF Dec
<1>7. \A m \in Mode : Dec(d, b)[m] = c[m] + Bit(a = m) - Bit(b = m)
  BY <1>1, <1>5 DEF d, Bit
<1> QED BY Zenon, <1>1, <1>2, <1>3, <1>6, <1>7 DEF d

\* A request that hangs on neither list of the lock head is not counted.
LEMMA NotCounted ==
  ASSUME HeadType, NEW l \in Locker,
         list[l] \in {None, "partition"}, list'[l] \in {None, "partition"},
         convertMode'[l] = convertMode[l],
         status[l] # "converting", status'[l] # "converting",
         UNCHANGED << grantedCounts, conflictCounts, conversionsCount >>
  PROVE  CountsFollow(l)
<1>1. /\ grantedCounts \in [Mode -> Nat] /\ conflictCounts \in [Mode -> Nat]
      /\ conversionsCount \in Nat /\ \A m \in Mode : m # None
  BY Zenon DEF HeadType, None, Mode
<1> QED BY <1>1 DEF CountsFollow, Bit, None

\* A request that keeps its list, modes and status is counted as before.
LEMMA CountedAlike ==
  ASSUME HeadType, NEW l \in Locker,
         UNCHANGED << list, mode, convertMode, status >>,
         UNCHANGED << grantedCounts, conflictCounts, conversionsCount >>
  PROVE  CountsFollow(l)
<1>1. /\ grantedCounts \in [Mode -> Nat] /\ conflictCounts \in [Mode -> Nat]
      /\ conversionsCount \in Nat /\ \A m \in Mode : m # None
  BY Zenon DEF HeadType, None, Mode
<1> QED BY <1>1 DEF CountsFollow, Bit, None

\* Counts follow a request that is put on the granted list.
LEMMA GrantedCounted ==
  ASSUME HeadType, NEW l \in Locker,
         mode[l] \in Mode, mode'[l] = mode[l],
         list[l] \in {None, "partition"}, list'[l] = "granted",
         convertMode[l] = None, convertMode'[l] = None,
         status[l] # "converting", status'[l] # "converting",
         grantedCounts' = Inc(grantedCounts, mode[l]),
         UNCHANGED << conflictCounts, conversionsCount >>
  PROVE  CountsFollow(l)
<1>1. /\ grantedCounts \in [Mode -> Nat] /\ conflictCounts \in [Mode -> Nat]
      /\ conversionsCount \in Nat /\ \A m \in Mode : m # None
  BY Zenon DEF HeadType, None, Mode
<1>2. \A m \in Mode : grantedCounts'[m] = grantedCounts[m] + Bit(mode[l] = m)
  BY <1>1, IncDec DEF Bit
<1> QED BY <1>1, <1>2 DEF CountsFollow, Bit, None

\* Counts follow a request that is put on the conflict list.
LEMMA WaitingCounted ==
  ASSUME HeadType, NEW l \in Locker,
         mode[l] \in Mode, mode'[l] = mode[l],
         list[l] = None, list'[l] = "conflict",
         convertMode[l] = None, convertMode'[l] = None,
         status[l] # "converting", status'[l] # "converting",
         conflictCounts' = Inc(conflictCounts, mode[l]),
         UNCHANGED << grantedCounts, conversionsCount >>
  PROVE  CountsFollow(l)
<1>1. /\ grantedCounts \in [Mode -> Nat] /\ conflictCounts \in [Mode -> Nat]
      /\ conversionsCount \in Nat /\ \A m \in Mode : m # None
  BY Zenon DEF HeadType, None, Mode
<1>2. \A m \in Mode : conflictCounts'[m] = conflictCounts[m] + Bit(mode[l] = m)
  BY <1>1, IncDec DEF Bit
<1> QED BY <1>1, <1>2 DEF CountsFollow, Bit, None

\* Counts follow a request that moves from the conflict to the granted list.
LEMMA WaiterGrantedCounted ==
  ASSUME HeadType, NEW l \in Locker,
         mode[l] \in Mode, mode'[l] = mode[l],
         list[l] = "conflict", list'[l] = "granted",
         convertMode[l] = None, convertMode'[l] = None,
         status[l] # "converting", status'[l] # "converting",
         grantedCounts' = Inc(grantedCounts, mode[l]),
         conflictCounts' = Dec(conflictCounts, mode[l]),
         conversionsCount' = conversionsCount
  PROVE  CountsFollow(l)
<1>1. /\ grantedCounts \in [Mode -> Nat] /\ conflictCounts \in [Mode -> Nat]
      /\ conversionsCount \in Nat /\ \A m \in Mode : m # None
  BY Zenon DEF HeadType, None, Mode
<1>2. \A m \in Mode : grantedCounts'[m] = grantedCounts[m] + Bit(mode[l] = m)
  BY <1>1, IncDec DEF Bit
<1>3. \A m \in Mode : conflictCounts'[m] = conflictCounts[m] - Bit(mode[l] = m)
  BY <1>1, IncDec DEF Bit
<1> QED BY <1>1, <1>2, <1>3 DEF CountsFollow, Bit, None

\* Counts follow a request that leaves the granted list.
LEMMA GrantedLeaves ==
  ASSUME HeadType, NEW l \in Locker,
         mode[l] \in Mode, mode'[l] = mode[l],
         list[l] = "granted", list'[l] = None,
         convertMode[l] = None, convertMode'[l] = None,
         status[l] # "converting", status'[l] # "converting",
         grantedCounts' = Dec(grantedCounts, mode[l]),
         UNCHANGED << conflictCounts, conversionsCount >>
  PROVE  CountsFollow(l)
<1>1. /\ grantedCounts \in [Mode -> Nat] /\ conflictCounts \in [Mode -> Nat]
      /\ conversionsCount \in Nat /\ \A m \in Mode : m # None
  BY Zenon DEF HeadType, None, Mode
<1>2. \A m \in Mode : grantedCounts'[m] = grantedCounts[m] - Bit(mode[l] = m)
  BY <1>1, IncDec DEF Bit
<1> QED BY <1>1, <1>2 DEF CountsFollow, Bit, None

\* Counts follow a request that leaves the conflict list.
LEMMA WaitingLeaves ==
  ASSUME HeadType, NEW l \in Locker,
         mode[l] \in Mode, mode'[l] = mode[l],
         list[l] = "conflict", list'[l] = None,
         convertMode[l] = None, convertMode'[l] = None,
         status[l] # "converting", status'[l] # "converting",
         conflictCounts' = Dec(conflictCounts, mode[l]),
         UNCHANGED << grantedCounts, conversionsCount >>
  PROVE  CountsFollow(l)
<1>1. /\ grantedCounts \in [Mode -> Nat] /\ conflictCounts \in [Mode -> Nat]
      /\ conversionsCount \in Nat /\ \A m \in Mode : m # None
  BY Zenon DEF HeadType, None, Mode
<1>2. \A m \in Mode : conflictCounts'[m] = conflictCounts[m] - Bit(mode[l] = m)
  BY <1>1, IncDec DEF Bit
<1> QED BY <1>1, <1>2 DEF CountsFollow, Bit, None

\* Counts follow a conversion that has to wait.
LEMMA ConversionWaitsCounted ==
  ASSUME HeadType, NEW l \in Locker,
         NEW a \in Mode, mode'[l] = mode[l],
         list[l] = "granted", list'[l] = "granted",
         convertMode[l] = None, convertMode'[l] = a,
         status[l] # "converting", status'[l] = "converting",
         grantedCounts' = Inc(grantedCounts, a),
         conflictCounts' = conflictCounts,
         conversionsCount' = conversionsCount + 1
  PROVE  CountsFollow(l)
<1>1. /\ grantedCounts \in [Mode -> Nat] /\ conflictCounts \in [Mode -> Nat]
      /\ conversionsCount \in Nat /\ \A m \in Mode : m # None
  BY Zenon DEF HeadType, None, Mode
<1>2. \A m \in Mode : grantedCounts'[m] = grantedCounts[m] + Bit(a = m)
  BY <1>1, IncDec DEF Bit
<1> QED BY <1>1, <1>2 DEF CountsFollow, Bit, None

\* Counts follow a conversion that is given up.
LEMMA ConversionCancelled ==
  ASSUME HeadType, NEW l \in Locker,
         convertMode[l] \in Mode, convertMode'[l] = None, mode'[l] = mode[l],
         list[l] = "granted", list'[l] = "granted",
         status[l] = "converting", status'[l] # "converting",
         grantedCounts' = Dec(grantedCounts, convertMode[l]),
         conflictCounts' = conflictCounts,
         conversionsCount' = conversionsCount - 1
  PROVE  CountsFollow(l)
<1>1. /\ grantedCounts \in [Mode -> Nat] /\ conflictCounts \in [Mode -> Nat]
      /\ conversionsCount \in Nat /\ \A m \in Mode : m # None
  BY Zenon DEF HeadType, None, Mode
<1>2. \A m \in Mode : grantedCounts'[m] = grantedCounts[m] - Bit(convertMode[l] = m)
  BY <1>1, IncDec DEF Bit
<1> QED BY <1>1, <1>2 DEF CountsFollow, Bit, None

\* Counts follow a conversion that is granted after a wait.
LEMMA ConversionCounted ==
  ASSUME HeadType, NEW l \in Locker,
         mode[l] \in Mode, mode'[l] = convertMode[l], convertMode'[l] = None,
         list[l] = "granted", list'[l] = "granted",
         status[l] = "converting", status'[l] # "converting",
         grantedCounts' = Dec(grantedCounts, mode[l]),
         conflictCounts' = conflictCounts,
         conversionsCount' = conversionsCount - 1
  PROVE  CountsFollow(l)
<1>1. /\ grantedCounts \in [Mode -> Nat] /\ conflictCounts \in [Mode -> Nat]
      /\ conversionsCount \in Nat /\ \A m \in Mode : m # None
  BY Zenon DEF HeadType, None, Mode
<1>2. \A m \in Mode : grantedCounts'[m] = grantedCounts[m] - Bit(mode[l] = m)
  BY <1>1, IncDec DEF Bit
<1> QED BY <1>1, <1>2 DEF CountsFollow, Bit, None

\* Counts follow a granted request whose mode changes at once.
LEMMA ModeChanged ==
  ASSUME HeadType, NEW l \in Locker,
         NEW a \in Mode, mode[l] \in Mode, mode'[l] = a,
         list[l] = "granted", list'[l] = "granted",
         convertMode[l] = None, convertMode'[l] = None,
         status[l] # "converting", status'[l] # "converting",
         grantedCounts' = Dec(Inc(grantedCounts, a), mode[l]),
         UNCHANGED << conflictCounts, conversionsCount >>
  PROVE  CountsFollow(l)
<1>1. /\ grantedCounts \in [Mode -> Nat] /\ conflictCounts \in [Mode -> Nat]
      /\ conversionsCount \in Nat /\ \A m \in Mode : m # None
  BY Zenon DEF HeadType, None, Mode
<1>2. \A m \in Mode : grantedCounts'[m] = grantedCounts[m] + Bit(a = m) - Bit(mode[l] = m)
  BY <1>1, IncDec DEF Bit
<1> QED BY <1>1, <1>2 DEF CountsFollow, Bit, None

\* A count that is positive may be decreased, and no mode is added by that.
LEMMA DecFacts ==
  ASSUME NEW c \in [Mode -> Nat], NEW b \in Mode
  PROVE  /\ c[b] > 0 => Dec(c, b) \in [Mode -> Nat]
         /\ \A m \in Mode : Dec(c, b)[m] > 0 => c[m] > 0
  BY DEF Dec

\* The modes of a list whose counts decrease.
LEMMA ModesShrink ==
  ASSUME HeadType
  PROVE  /\ \A b \in Mode : grantedCounts' = Dec(grantedCounts, b) =>
                             GrantedModes' \subseteq GrantedModes
         /\ \A b \in Mode : conflictCounts' = Dec(conflictCounts, b) =>
                             ConflictModes' \subseteq ConflictModes
         /\ grantedCounts' = grantedCounts => GrantedModes' = GrantedModes
         /\ conflictCounts' = conflictCounts => ConflictModes' = ConflictModes
<1>1. \A b \in Mode : grantedCounts' = Dec(grantedCounts, b) =>
                      GrantedModes' \subseteq GrantedModes
  BY Zenon, DecFacts DEF HeadType, GrantedModes
<1>2. \A b \in Mode : conflictCounts' = Dec(conflictCounts, b) =>
                      ConflictModes' \subseteq ConflictModes
  BY Zenon, DecFacts DEF HeadType, ConflictModes
<1> QED BY Zenon, <1>1, <1>2 DEF GrantedModes, ConflictModes

\* Arithmetic on recursiveCount.
LEMMA Recursion ==
  ASSUME NEW n \in 0 .. MaxRecursion
  PROVE  /\ n \in Nat /\ (n > 1 => n > 0) /\ (n > 0 => n \in 1 .. MaxRecursion)
         /\ n > 0 => n - 1 \in 0 .. MaxRecursion
  BY BoundAssumption

\* A position up to the length of a list of requests is one of the list.
LEMMA InList ==
  ASSUME NEW s \in Seq(Locker), NEW i \in Nat \ {0}, i <= Len(s)
  PROVE  i \in DOMAIN s /\ s[i] \in Locker
  OBVIOUS

\* The beginning of a scan keeps the types of the control state.
LEMMA StartScanType ==
  ASSUME TypeOK, NEW l \in Locker, NEW check \in BOOLEAN, StartScan(l, check),
         UNCHANGED partMutex, arg' \in [Locker -> Mode \cup {None}]
  PROVE  ControlType'
<1>1. checkConflictQueue' \in BOOLEAN /\ newlyCompatibleFirst' \in BOOLEAN
  BY Zenon DEF StartScan
<1>2. /\ bucketMutex' \in Thread \cup {NoThread} /\ pc' \in [Thread -> Label]
      /\ iter' \in Nat \ {0}
  BY DEF StartScan, Goto, TypeOK, ControlType, Label, Thread
<1> QED BY Zenon, <1>1, <1>2 DEF TypeOK, ControlType

\* The mode of locker l, if it is held, conflicts with no other that is.
CompatibleOne(l) ==
  l \in Held' => \A k \in Held : k # l => mode'[l] \notin LockConflictsTable(mode[k])

\* The holders stay compatible when the one that changes is.
LEMMA CompatibleStep ==
  ASSUME IInv, Counting, RequestType', NEW l \in Locker, OthersKept(l), CompatibleOne(l),
         list'[l] # None => mode'[l] # None
  PROVE  Compatible(Held)'
<1>1. \A k \in Locker : k # l => (k \in Held' <=> k \in Held) /\ mode'[k] = mode[k]
  BY Zenon DEF OthersKept, Held
<1>2. \A k \in Held : mode[k] \in Mode /\ k \in Locker
  BY Zenon, Counted DEF Held, None
<1>3. l \in Held' => mode'[l] \in Mode
  BY Zenon DEF Held, None, RequestType
<1>4. ASSUME NEW j \in Held', NEW k \in Held', j # k
      PROVE  mode'[j] \notin LockConflictsTable(mode'[k])
  <2>1. CASE j # l /\ k # l
    BY Zenon, <1>1, <1>4, <2>1 DEF IInv, Compatible, Held
  <2>2. CASE j = l
    BY Zenon, <1>1, <1>4, <2>2 DEF CompatibleOne, Held
  <2>3. CASE k = l
    <3>1. mode'[l] \notin LockConflictsTable(mode[j]) /\ mode'[j] = mode[j] /\ mode[j] \in Mode
      BY Zenon, <1>1, <1>2, <1>4, <2>3 DEF CompatibleOne, Held
    <3> QED BY Zenon, <1>3, <1>4, <2>3, <3>1, Symmetric
  <2> QED BY Zenon, <2>1, <2>2, <2>3
<1> QED BY Zenon, <1>4 DEF Compatible

\* It suffices to look at the request of the thread that takes a step.
LEMMA RequestStep ==
  ASSUME IInv, Counting, NEW t \in Thread, NEW l \in Locker,
         RequestType', HeadType', PartitionType', ControlType',
         OthersKept(l), CountsFollow(l), CompatibleOne(l),
         Partitions', Lists', Mutexes', Migration', Notification',
         \A u \in Thread : u # t => pc'[u] = pc[u],
         \A k \in Locker : k \notin {l, t} => arg'[k] = arg[k],
         RequestOK(l)', t \in Locker => RequestOK(t)'
  PROVE  IInv'
<1>1. \A k \in Locker : k \in Thread /\ RequestOK(k)
  BY Zenon DEF IInv, Requests, Thread
<1>2. Requests'
  BY Zenon, <1>1, RequestFrame DEF Requests, OthersKept
<1>3. list'[l] # None => mode'[l] # None
  BY Zenon DEF RequestOK
<1> QED BY Zenon, <1>2, <1>3, CountsStep, CompatibleStep DEF IInv, TypeOK

\* With the bucket mutex free, or in the hands of t, no other thread is inside.
LEMMA OthersOutside ==
  ASSUME IInv, NEW t \in Thread, bucketMutex \in {NoThread, t}
  PROVE  /\ \A u \in Thread : u # t => pc[u] \notin InCriticalSection
         /\ \A k \in Locker : k # t /\ status[k] = "converting" => pc[k] = "wait"
  BY Zenon, LockerAssumption DEF IInv, Mutexes, Thread

\* Mutexes is kept by a step that respects the bucket mutex.
LEMMA MutexesStep ==
  ASSUME IInv, NEW t \in Thread,
         \A u \in Thread : u # t => pc'[u] = pc[u],
         bucketMutex' = bucketMutex \/ bucketMutex \in {NoThread, t},
         pc'[t] \in InCriticalSection => bucketMutex' = t,
         \A k \in Locker : k # t /\ status'[k] = "converting" => status[k] = "converting",
         t \in Locker /\ status'[t] = "converting" /\ pc'[t] # "wait" => bucketMutex' = t,
         t = Cleaner => pc'[t] \in {"idle", "migrate", "migrating", "locked"}
  PROVE  Mutexes'
<1>1. Locker \subseteq Thread /\ Cleaner \in Thread
  BY Zenon DEF Thread
<1>2. CASE bucketMutex \in {NoThread, t}
  BY Zenon, <1>1, <1>2, OthersOutside DEF IInv, Mutexes
<1>3. CASE bucketMutex' = bucketMutex
  BY <1>1, <1>3 DEF IInv, Mutexes
<1> QED BY Zenon, <1>2, <1>3

\* The same of a step by which locker l changes its own request.
LEMMA MutexesKept ==
  ASSUME IInv, NEW l \in Locker, OthersKept(l),
         \A u \in Thread : u # l => pc'[u] = pc[u],
         bucketMutex' = bucketMutex \/ bucketMutex \in {NoThread, l},
         pc'[l] \in InCriticalSection => bucketMutex' = l,
         status'[l] = "converting" /\ pc'[l] # "wait" => bucketMutex' = l
  PROVE  Mutexes'
<1>1. l \in Thread /\ l # Cleaner
  BY Zenon, LockerAssumption DEF Thread
<1>2. \A k \in Locker : k # l /\ status'[k] = "converting" => status[k] = "converting"
  BY Zenon DEF OthersKept
<1> QED BY Zenon, <1>1, <1>2, MutexesStep

\* Migration is kept by a step that respects the bucket mutex.
LEMMA MigrationStep ==
  ASSUME IInv, NEW t \in Thread,
         \A u \in Thread : u # t => pc'[u] = pc[u],
         \/ UNCHANGED << partitions, grantedCounts, conflictCounts >>
         \/ bucketMutex \in {NoThread, t},
         pc'[t] \in InMigration => partitions' # << >>,
         pc'[t] = "locked" => partitions' = << >>,
         pc'[t] = "startPartition" => IntentOnly'
  PROVE  Migration'
<1>1. CASE UNCHANGED << partitions, grantedCounts, conflictCounts >>
  BY Zenon, <1>1 DEF IInv, Migration, IntentOnly, GrantedModes, ConflictModes
<1>2. CASE bucketMutex \in {NoThread, t}
  BY Zenon, <1>2, OthersOutside DEF Migration, InMigration, InCriticalSection
<1> QED BY Zenon, <1>1, <1>2

\* Nobody is being notified while t has the bucket and is elsewhere.
LEMMA NotificationStep ==
  ASSUME IInv, NEW t \in Thread, bucketMutex \in {NoThread, t},
         pc[t] # "notifyConversion", pc'[t] # "notifyConversion",
         \A u \in Thread : u # t => pc'[u] = pc[u],
         \A k \in Locker :
           pc'[k] = "wait" /\ status'[k] = "granted" /\ notify'[k] = "invalid"
             => pc[k] = "wait" /\ status[k] = "granted" /\ notify[k] = "invalid"
  PROVE  Notification'
<1>1. \A u \in Thread : pc[u] # "notifyConversion" /\ pc'[u] # "notifyConversion"
  BY Zenon, OthersOutside DEF InCriticalSection
<1> QED BY Zenon, <1>1 DEF IInv, Notification

\* The same of a step by which locker l changes its own request.
LEMMA NotificationKept ==
  ASSUME IInv, NEW l \in Locker, OthersKept(l),
         \A u \in Thread : u # l => pc'[u] = pc[u],
         bucketMutex \in {NoThread, l},
         pc[l] # "notifyConversion", pc'[l] # "notifyConversion",
         pc'[l] # "wait" \/ status'[l] # "granted"
  PROVE  Notification'
<1>1. l \in Thread /\ Locker \subseteq Thread
  BY Zenon DEF Thread
<1>2. \A k \in Locker :
        pc'[k] = "wait" /\ status'[k] = "granted" /\ notify'[k] = "invalid"
          => pc[k] = "wait" /\ status[k] = "granted" /\ notify[k] = "invalid"
  BY Zenon, <1>1 DEF OthersKept
<1> QED BY Zenon, <1>1, <1>2, NotificationStep

\* Lists is kept when one request moves on and off the granted list only.
LEMMA ListsFrame ==
  ASSUME IInv, NEW l \in Locker, OthersKept(l),
         UNCHANGED << conflictList, partGranted >>,
         \/ list[l] \notin {"conflict", "partition"} /\ list'[l] \notin {"conflict", "partition"}
         \/ list'[l] = list[l] /\ mode'[l] = mode[l]
  PROVE  Lists'
<1>0. /\ conflictList \in Seq(Locker) /\ \A p \in Partition : partGranted[p] \in Seq(Locker)
      /\ \A k \in Locker : k # l => list'[k] = list[k] /\ mode'[k] = mode[k]
  BY Zenon DEF IInv, TypeOK, HeadType, PartitionType, OthersKept
<1>1. \A k \in Locker : list[k] \in {"conflict", "partition"} =>
         list'[k] = list[k] /\ mode'[k] = mode[k]
  BY Zenon, <1>0
<1>2. \A k \in Locker : list'[k] = "partition" => list[k] = "partition" /\ mode'[k] = mode[k]
  BY Zenon, <1>0
<1> QED BY <1>0, <1>1, <1>2 DEF IInv, Lists

\* Lists is kept when one request moves on or off the conflict list.
LEMMA ConflictListsFrame ==
  ASSUME IInv, NEW l \in Locker, OthersKept(l), partGranted' = partGranted,
         list[l] # "partition", list'[l] # "partition",
         NoRepeats(conflictList'),
         \A j \in DOMAIN conflictList' : list'[conflictList'[j]] = "conflict"
  PROVE  Lists'
<1>1. \A p \in Partition : partGranted[p] \in Seq(Locker)
  BY Zenon DEF IInv, TypeOK, PartitionType
<1>2. \A p \in Partition : \A i \in DOMAIN partGranted[p] :
         /\ partGranted[p][i] \in Locker /\ list[partGranted[p][i]] = "partition"
  BY <1>1 DEF IInv, Lists
<1>3. \A k \in Locker : /\ list'[k] = "partition" => list[k] = "partition" /\ mode'[k] = mode[k]
                        /\ list[k] = "partition" => list'[k] = "partition"
  BY Zenon DEF OthersKept
<1> QED BY <1>2, <1>3 DEF IInv, Lists

\* Every request on the conflict list hangs on it.
LEMMA OnConflictList ==
  ASSUME IInv
  PROVE  /\ conflictList \in Seq(Locker) /\ NoRepeats(conflictList)
         /\ \A i \in DOMAIN conflictList : /\ conflictList[i] \in Locker
                                           /\ list[conflictList[i]] = "conflict"
<1>1. conflictList \in Seq(Locker)
  BY Zenon DEF IInv, TypeOK, HeadType
<1>2. \A i \in DOMAIN conflictList : conflictList[i] \in Locker
  BY <1>1
<1> QED BY Zenon, <1>1, <1>2 DEF IInv, Lists

\* Once the partitions are migrated, whatever is held is counted on the head.
LEMMA HeldOnHead ==
  ASSUME IInv, partitions = << >>
  PROVE  \A k \in Held : list[k] = "granted"
<1>1. \A p \in Partition : partGranted[p] = << >>
  BY DEF IInv, Partitions, ToSet
<1>2. \A k \in Locker : list[k] # "partition"
  BY <1>1, PartitionAssumption DEF IInv, Lists
<1> QED BY Zenon, <1>2 DEF Held

\* A step of thread t that leaves the lists, the modes and the head alone.
LEMMA ControlStep ==
  ASSUME IInv, NEW t \in Thread,
         UNCHANGED << status, mode, convertMode, list, head, parts >>,
         RequestType', ControlType', Mutexes', Migration', Notification',
         t \in Locker => RequestOK(t)',
         \A u \in Thread : u # t => pc'[u] = pc[u],
         \A k \in Locker : k # t => /\ recursiveCount'[k] = recursiveCount[k]
                                    /\ partitioned'[k] = partitioned[k]
                                    /\ notify'[k] = notify[k] /\ arg'[k] = arg[k]
  PROVE  IInv'
<1>1. \A k \in Locker : k \in Thread /\ RequestOK(k)
  BY Zenon DEF IInv, Requests, Thread
<1>2. Requests'
  BY Zenon, <1>1, RequestFrame DEF Requests
<1>3. HeadType' /\ PartitionType' /\ Counts' /\ ConversionsCounted' /\ Partitions'
  BY Zenon, Frame DEF head, parts
<1>4. Lists' /\ Compatible(Held)'
  BY Zenon, Frame DEF head, parts
<1> QED BY Zenon, <1>2, <1>3, <1>4 DEF IInv, TypeOK

\* A step of thread t that neither grants nor notifies a conversion.
LEMMA NotificationFrame ==
  ASSUME IInv, NEW t \in Thread,
         UNCHANGED grantedList,
         iter' = iter \/ \A u \in Thread : pc[u] # "notifyConversion",
         \A u \in Thread : u # t => pc'[u] = pc[u],
         pc'[t] \notin {"wait", "notifyConversion"},
         pc[t] # "notifyConversion",
         pc[t] = "wait" => notify[t] = "ok" \/ status[t] # "granted",
         \A k \in Locker : k # t => status'[k] = status[k] /\ notify'[k] = notify[k]
  PROVE  Notification'
<1> SUFFICES ASSUME Notification, Locker \subseteq Thread, grantedList \in Seq(Locker)
             PROVE  Notification'
  BY Zenon DEF IInv, Thread, TypeOK, HeadType
<1>1. ASSUME NEW u \in Thread, pc'[u] = "notifyConversion"
      PROVE  /\ iter' \in DOMAIN grantedList'
             /\ pc'[grantedList'[iter']] = "wait" /\ status'[grantedList'[iter']] = "granted"
             /\ notify'[grantedList'[iter']] = "invalid"
  <2>1. pc[u] = "notifyConversion" /\ iter' = iter
    BY Zenon, <1>1
  <2>2. /\ iter \in DOMAIN grantedList /\ grantedList[iter] \in Locker
        /\ pc[grantedList[iter]] = "wait" /\ status[grantedList[iter]] = "granted"
        /\ notify[grantedList[iter]] = "invalid"
    BY <2>1 DEF Notification
  <2>3. grantedList[iter] # t
    BY Zenon, <2>2
  <2> QED BY Zenon, <2>1, <2>2, <2>3
<1>2. ASSUME NEW k \in Locker, pc'[k] = "wait", status'[k] = "granted", notify'[k] = "invalid"
      PROVE  \E u \in Thread : pc'[u] = "notifyConversion" /\ grantedList'[iter'] = k
  <2>1. k # t /\ pc[k] = "wait" /\ status[k] = "granted" /\ notify[k] = "invalid"
    BY Zenon, <1>2
  <2>2. PICK u \in Thread : pc[u] = "notifyConversion" /\ grantedList[iter] = k
    BY Zenon, <2>1 DEF Notification
  <2>3. iter' = iter /\ u # t
    BY Zenon, <2>2
  <2> QED BY Zenon, <2>2, <2>3
<1> QED BY Zenon, <1>1, <1>2 DEF Notification

-----------------------------------------------------------------------------
(* The steps.                                                              *)

\* lockBegin of a new request keeps the invariant.
LEMMA CallLockStep ==
  ASSUME IInv, Counting, NEW l \in Locker, NEW m \in Asked, CallLock(l, m)
  PROVE  IInv'
<1> USE DEF CallLock, ClearNotification, Goto
<1>1. l \in Thread /\ m \in Mode /\ TypeOK /\ RequestOK(l)
  BY Zenon, AskedAssumption DEF IInv, Thread, Requests
<1>2. RequestType'
  <2>1. (m \in Intent) \in BOOLEAN /\ HasPriority(m) \in BOOLEAN
    BY DEF HasPriority
  <2>2. partitioned' \in [Locker -> BOOLEAN] /\ compatibleFirst' \in [Locker -> BOOLEAN]
    BY Zenon, <1>1, <2>1, BooleanUpdate DEF TypeOK, RequestType
  <2> QED BY <1>1, <2>2, BoundAssumption DEF TypeOK, RequestType
<1>3. ControlType'
  BY Zenon, <1>1 DEF TypeOK, ControlType, Label, scan
<1>4. list[l] = None /\ convertMode[l] = None /\ convertMode' = convertMode
  BY ZenonT(60), <1>1 DEF RequestOK, None, TypeOK, RequestType
<1>5. Counts'
  <2>1. \A n \in Mode : /\ GrantedIn(n)' = GrantedIn(n) /\ WaitingFor(n)' = WaitingFor(n)
                        /\ ConvertingTo(n)' = ConvertingTo(n)
    BY <1>1, <1>4 DEF TypeOK, RequestType, GrantedIn, WaitingFor, ConvertingTo, None
  <2> QED BY Zenon, <2>1 DEF IInv, Counts, head
<1>6. Compatible(Held)'
  BY ZenonT(60), <1>1, <1>4 DEF IInv, Compatible, Held, TypeOK, RequestType, None
<1>7. ConversionsCounted'
  <2>1. { k \in Locker : status'[k] = "converting" } = { k \in Locker : status[k] = "converting" }
    BY ZenonT(60), <1>1 DEF TypeOK, RequestType, None
  <2> QED BY Zenon, <2>1 DEF IInv, ConversionsCounted, head
<1>8. Lists'
  <2>1. \A k \in Locker : list[k] = "partition" => mode'[k] = mode[k]
    BY Zenon, <1>1, <1>4 DEF TypeOK, RequestType, None
  <2> QED BY <2>1 DEF IInv, Lists, head, parts
<1>9. Mutexes' /\ Migration' /\ Notification'
  <2>1. \A t \in Thread : t # l => pc'[t] = pc[t]
    BY Zenon, <1>1 DEF TypeOK, ControlType
  <2>2. pc'[l] \in {"lockPartition", "lock"} /\ status'[l] = "new" /\ l # Cleaner
    BY Zenon, <1>1, LockerAssumption DEF TypeOK, ControlType, RequestType
  <2>3. \A k \in Locker : k # l => /\ status'[k] = status[k] /\ notify'[k] = notify[k]
    BY Zenon, <1>1 DEF TypeOK, RequestType
  <2>4. Mutexes'
    BY ZenonT(60), <2>1, <2>2, <2>3 DEF IInv, Mutexes, InCriticalSection, Thread
  <2>5. Migration'
    BY Zenon, <2>1, <2>2 DEF IInv, Migration, InMigration, IntentOnly, GrantedModes,
         ConflictModes, head, parts
  <2>6. Notification'
    BY Zenon, <1>1, <2>1, <2>2, <2>3, NotificationFrame DEF head, scan
  <2> QED BY Zenon, <2>4, <2>5, <2>6
<1>10. Requests'
  <2>1. /\ status'[l] = "new" /\ mode'[l] = m /\ convertMode'[l] = None
        /\ recursiveCount'[l] = 1 /\ list'[l] = None /\ arg'[l] = None
        /\ notify'[l] = "invalid"
        /\ pc'[l] = IF m \in Intent THEN "lockPartition" ELSE "lock"
    BY ZenonT(60), <1>1, <1>4 DEF RequestOK, TypeOK, RequestType, ControlType
  <2>2. partitioned'[l] <=> m \in Intent
    BY Zenon DEF IInv, TypeOK, RequestType
  <2> HIDE DEF CallLock
  <2>3. RequestOK(l)'
    BY Zenon, <1>1, <2>1, <2>2 DEF RequestOK, None, Mode, InScan
  <2> USE DEF CallLock
  <2> QED BY Zenon, <1>1, <2>3, RequestFrame DEF IInv, Requests, TypeOK, RequestType,
       ControlType, Thread
<1> QED BY Zenon, <1>2, <1>3, <1>5, <1>6, <1>7, <1>8, <1>9, <1>10, Frame DEF IInv, TypeOK, head

\* lockBegin of a held request keeps the invariant.
LEMMA CallConvertStep ==
  ASSUME IInv, Counting, NEW l \in Locker, NEW m \in Asked, CallConvert(l, m)
  PROVE  IInv'
<1> USE DEF CallConvert, ClearNotification, Goto, request, head, parts, scan
<1>1. /\ l \in Thread /\ l # Cleaner /\ NoThread \notin Thread /\ TypeOK
      /\ RequestOK(l) /\ Mutexes /\ Migration /\ Notification
  BY ZenonT(60), LockerAssumption DEF IInv, Thread, Requests
<1>2. RequestType'
  BY <1>1, AskedAssumption, BoundAssumption, Frame DEF TypeOK, RequestType
<1>3. ControlType'
  BY ZenonT(60), <1>1, AskedAssumption, BoundAssumption DEF TypeOK, ControlType, Label, Thread
<1>4. Mutexes'
  BY ZenonT(60), <1>1, AskedAssumption, BoundAssumption DEF Mutexes, InCriticalSection, TypeOK,
       RequestType, ControlType, RequestOK, Thread
<1>5. Migration'
  BY Zenon, <1>1, AskedAssumption, BoundAssumption DEF Migration, InMigration, IntentOnly,
       GrantedModes, ConflictModes, TypeOK, ControlType, Mutexes
<1>6. \A k \in Locker : k # l => /\ recursiveCount'[k] = recursiveCount[k]
                                 /\ partitioned'[k] = partitioned[k]
                                 /\ notify'[k] = notify[k] /\ arg'[k] = arg[k]
  BY Zenon, <1>1 DEF TypeOK, RequestType, ControlType
<1>7. \A u \in Thread : u # l => pc'[u] = pc[u]
  BY Zenon, <1>1 DEF TypeOK, ControlType
<1>8. Notification'
  <2>1. pc'[l] \notin {"wait", "notifyConversion"}
    BY Zenon, <1>1, AskedAssumption, BoundAssumption DEF TypeOK, ControlType
  <2> QED BY ZenonT(60), <1>1, <1>6, <1>7, <2>1, NotificationFrame DEF TypeOK, ControlType,
       RequestType
<1>9. RequestOK(l)'
  <2>1. /\ status'[l] = status[l] /\ mode'[l] = mode[l] /\ convertMode'[l] = convertMode[l]
        /\ list'[l] = list[l] /\ status[l] = "granted" /\ pc[l] = "idle"
        /\ partitioned'[l] = partitioned[l] /\ recursiveCount'[l] > 1 /\ notify'[l] = "invalid"
        /\ \/ pc'[l] = "idle" /\ arg'[l] = None
           \/ pc'[l] = "convert" /\ arg'[l] = m
    <3>1. status[l] = "granted" /\ pc[l] = "idle" /\ recursiveCount[l] > 0
          /\ recursiveCount[l] \in 0 .. MaxRecursion
      BY Zenon, <1>1 DEF RequestOK, TypeOK, RequestType
    <3>2. recursiveCount'[l] > 1
      <4>1. recursiveCount'[l] = recursiveCount[l] + 1
        BY Zenon, <1>1 DEF TypeOK, RequestType
      <4> QED BY <3>1, <4>1, BoundAssumption
    <3>3. notify'[l] = "invalid"
      BY Zenon, <1>1 DEF TypeOK, RequestType
    <3>4. \/ pc'[l] = "idle" /\ arg'[l] = None
          \/ pc'[l] = "convert" /\ arg'[l] = m
      BY Zenon, <1>1, <3>1 DEF RequestOK, TypeOK, ControlType
    <3> QED BY Zenon, <3>1, <3>2, <3>3, <3>4
  <2> HIDE DEF CallConvert, ClearNotification, Goto, request, head, parts, scan
  <2>2. recursiveCount'[l] > 0 /\ m # None /\ l \in Held'
    <3>1. m # None
      BY Zenon, AskedAssumption DEF None, Mode
    <3>2. l \in Held'
      BY Zenon, <1>1, <2>1 DEF RequestOK, Held, None
    <3>3. recursiveCount'[l] > 0
      BY Zenon, <1>2, <2>1, Recursion DEF RequestType
    <3> QED BY Zenon, <3>1, <3>2, <3>3
  <2> QED BY ZenonT(60), <1>1, <2>1, <2>2 DEF RequestOK, InScan, None
<1> QED BY ZenonT(60), <1>1, <1>2, <1>3, <1>4, <1>5, <1>6, <1>7, <1>8, <1>9, ControlStep

\* Beginning a downgrade keeps the invariant.
LEMMA CallDowngradeStep ==
  ASSUME IInv, Counting, NEW l \in Locker, NEW m \in Asked, CallDowngrade(l, m)
  PROVE  IInv'
<1> USE DEF CallDowngrade, Goto, request, head, parts, scan
<1>1. /\ l \in Thread /\ l # Cleaner /\ NoThread \notin Thread /\ TypeOK
      /\ RequestOK(l) /\ Mutexes /\ Migration /\ Notification
  BY Zenon, LockerAssumption DEF IInv, Thread, Requests
<1>2. RequestType'
  BY Zenon, <1>1, AskedAssumption, Frame DEF TypeOK, RequestType
<1>3. ControlType'
  BY Zenon, <1>1, AskedAssumption DEF TypeOK, ControlType, Label, Thread
<1>4. Mutexes'
  BY Zenon, <1>1, AskedAssumption DEF Mutexes, InCriticalSection, TypeOK, RequestType,
       ControlType, RequestOK, Thread
<1>5. Migration'
  BY Zenon, <1>1, AskedAssumption DEF Migration, InMigration, IntentOnly, GrantedModes,
       ConflictModes, TypeOK, ControlType, Mutexes
<1>6. \A k \in Locker : k # l => /\ recursiveCount'[k] = recursiveCount[k]
                                 /\ partitioned'[k] = partitioned[k]
                                 /\ notify'[k] = notify[k] /\ arg'[k] = arg[k]
  BY Zenon, <1>1 DEF TypeOK, RequestType, ControlType
<1>7. \A u \in Thread : u # l => pc'[u] = pc[u]
  BY Zenon, <1>1 DEF TypeOK, ControlType
<1>8. Notification'
  <2>1. pc'[l] \notin {"wait", "notifyConversion"}
    BY Zenon, <1>1, AskedAssumption DEF TypeOK, ControlType
  <2> QED BY Zenon, <1>1, <1>6, <1>7, <2>1, NotificationFrame DEF TypeOK, ControlType, RequestType
<1>9. RequestOK(l)'
  <2>1. /\ status'[l] = status[l] /\ mode'[l] = mode[l] /\ convertMode'[l] = convertMode[l]
        /\ list'[l] = list[l] /\ status[l] = "granted" /\ pc[l] = "idle"
        /\ partitioned'[l] = partitioned[l] /\ list[l] = "granted"
        /\ recursiveCount'[l] = recursiveCount[l] /\ mode[l] \notin Intent
        /\ Covers(mode[l], m) /\ pc'[l] = "downgrade" /\ arg'[l] = m /\ m \in Mode
    <3>1. status[l] = "granted" /\ pc[l] = "idle" /\ l \in Held /\ mode[l] \notin Intent
      BY Zenon, <1>1 DEF RequestOK
    <3>2. list[l] = "granted"
      BY Zenon, <3>1 DEF Held, IInv, Lists
    <3>3. Covers(mode[l], m) /\ m \in Mode /\ UNCHANGED request
      BY Zenon, AskedAssumption
    <3>4. pc'[l] = "downgrade" /\ arg'[l] = m
      BY Zenon, <1>1 DEF TypeOK, ControlType
    <3> QED BY Zenon, <3>1, <3>2, <3>3, <3>4
  <2> HIDE DEF CallDowngrade, Goto, request, head, parts, scan
  <2>2. recursiveCount[l] \in Nat /\ recursiveCount'[l] \in Nat
    BY <1>1, <1>2 DEF TypeOK, RequestType
  <2> QED BY ZenonT(60), <1>1, AskedAssumption, <2>1, <2>2 DEF RequestOK, Held, InScan, None, Mode
<1> QED BY ZenonT(60), <1>1, <1>2, <1>3, <1>4, <1>5, <1>6, <1>7, <1>8, <1>9, ControlStep

\* unlock up to its first mutex keeps the invariant.
LEMMA CallUnlockStep ==
  ASSUME IInv, Counting, NEW l \in Locker, CallUnlock(l)
  PROVE  IInv'
<1> USE DEF CallUnlock, BeginUnlock, Goto, request, head, parts, scan
<1>1. /\ l \in Thread /\ l # Cleaner /\ NoThread \notin Thread /\ TypeOK
      /\ RequestOK(l) /\ Mutexes /\ Migration /\ Notification
  BY Zenon, LockerAssumption DEF IInv, Thread, Requests
<1>2. RequestType'
  <2>1. recursiveCount[l] - 1 \in 0 .. MaxRecursion
    <3>1. recursiveCount[l] > 0 /\ recursiveCount[l] \in 0 .. MaxRecursion
      BY Zenon, <1>1 DEF RequestOK, TypeOK, RequestType, None
    <3> QED BY Zenon, <3>1, Recursion
  <2> QED BY Zenon, <1>1, <2>1 DEF TypeOK, RequestType
<1>3. ControlType'
  BY Zenon, <1>1 DEF TypeOK, ControlType, Label, Thread
<1>4. Mutexes'
  BY Zenon, <1>1 DEF Mutexes, InCriticalSection, TypeOK, RequestType, ControlType, RequestOK, Thread
<1>5. Migration'
  BY Zenon, <1>1 DEF Migration, InMigration, IntentOnly, GrantedModes, ConflictModes, TypeOK,
       ControlType, Mutexes
<1>6. \A k \in Locker : k # l => /\ recursiveCount'[k] = recursiveCount[k]
                                 /\ partitioned'[k] = partitioned[k]
                                 /\ notify'[k] = notify[k] /\ arg'[k] = arg[k]
  BY Zenon, <1>1 DEF TypeOK, RequestType, ControlType
<1>7. \A u \in Thread : u # l => pc'[u] = pc[u]
  BY Zenon, <1>1 DEF TypeOK, ControlType
<1>8. Notification'
  <2>1. pc'[l] \notin {"wait", "notifyConversion"}
    BY ZenonT(60), <1>1 DEF TypeOK, ControlType
  <2> QED BY Zenon, <1>1, <1>6, <1>7, <2>1, NotificationFrame DEF TypeOK, ControlType, RequestType
<1>9. RequestOK(l)'
  <2>1. /\ status'[l] = status[l] /\ mode'[l] = mode[l] /\ convertMode'[l] = convertMode[l]
        /\ list'[l] = list[l] /\ status[l] = "granted" /\ pc[l] = "idle"
        /\ partitioned'[l] = partitioned[l] /\ recursiveCount'[l] = recursiveCount[l] - 1 /\ arg'[l] = arg[l]
        /\ pc'[l] = IF recursiveCount[l] > 1 THEN "idle"
                    ELSE IF partitioned[l] THEN "unlockPartition" ELSE "unlock"
    BY Zenon, <1>1 DEF RequestOK, TypeOK, RequestType, ControlType
  <2> HIDE DEF CallUnlock, BeginUnlock, Goto, request, head, parts, scan
  <2>2. recursiveCount[l] \in Nat /\ recursiveCount'[l] \in Nat
    BY <1>1, <1>2 DEF TypeOK, RequestType
  <2>3. /\ recursiveCount[l] > 1 => recursiveCount'[l] > 0
        /\ recursiveCount[l] > 0 /\ ~(recursiveCount[l] > 1) => recursiveCount'[l] = 0
        /\ recursiveCount[l] > 0
    <3>1. recursiveCount'[l] = recursiveCount[l] - 1 /\ recursiveCount[l] > 0
      BY Zenon, <1>1, <2>1 DEF RequestOK, None
    <3> QED BY <2>2, <3>1
  <2>4. l \in Held /\ l \in Held' /\ list'[l] \in {"granted", "partition"}
    BY Zenon, <1>1, <2>1 DEF RequestOK, Held, None
  <2>5. CASE recursiveCount[l] > 1
    BY ZenonT(60), <1>1, <2>1, <2>3, <2>4, <2>5 DEF RequestOK, InScan, None
  <2>6. CASE ~(recursiveCount[l] > 1) /\ partitioned[l]
    BY ZenonT(60), <1>1, <2>1, <2>3, <2>4, <2>6 DEF RequestOK, InScan, None
  <2>7. CASE ~(recursiveCount[l] > 1) /\ ~partitioned[l]
    BY ZenonT(60), <1>1, <2>1, <2>3, <2>4, <2>7 DEF RequestOK, InScan, None
  <2> QED BY Zenon, <2>5, <2>6, <2>7
<1> QED BY Zenon, <1>1, <1>2, <1>3, <1>4, <1>5, <1>6, <1>7, <1>8, <1>9, ControlStep

\* Taking the bucket in lock keeps the invariant.
LEMMA LockBucketStep ==
  ASSUME IInv, Counting, NEW l \in Locker, LockBucket(l)
  PROVE  IInv'
<1>1. /\ l \in Thread /\ Locker \subseteq Thread /\ l # Cleaner /\ TypeOK /\ RequestOK(l)
  BY Zenon, LockerAssumption DEF IInv, Thread, Requests
<1>2. /\ status'[l] = status[l] /\ mode'[l] = mode[l] /\ convertMode'[l] = convertMode[l]
      /\ list'[l] = list[l] /\ recursiveCount'[l] = recursiveCount[l] /\ partitioned'[l] = partitioned[l]
      /\ notify'[l] = notify[l] /\ arg'[l] = arg[l] /\ recursiveCount[l] \in 0 .. MaxRecursion
      /\ pc[l] = "lock" /\ bucketMutex = NoThread /\ bucketMutex' = l
      /\ pc'[l] \in {"startPartition", "migrate", "locked"}
      /\ pc'[l] = "startPartition" => partitioned[l] /\ IntentOnly
      /\ pc'[l] = "migrate" => partitions # << >>
      /\ pc'[l] = "locked" => partitions = << >>
  BY Zenon, <1>1, BoundAssumption DEF LockBucket, Goto, PathOnBucket, BucketFree, request, head,
       parts, scan, IntentOnly, TypeOK, RequestType, ControlType
<1>3. /\ UNCHANGED << status, mode, convertMode, list, notify, head, parts >>
      /\ \A u \in Thread : u # l => pc'[u] = pc[u]
      /\ \A k \in Locker : k # l => /\ recursiveCount'[k] = recursiveCount[k]
                                    /\ partitioned'[k] = partitioned[k]
                                    /\ notify'[k] = notify[k] /\ arg'[k] = arg[k]
  BY Zenon, <1>1 DEF LockBucket, Goto, PathOnBucket, BucketFree, request, head, parts, scan,
       TypeOK, RequestType, ControlType
<1>4. RequestType'
  BY Zenon, Frame DEF LockBucket, Goto, PathOnBucket, BucketFree, request, head, parts, scan
<1>5. ControlType'
  BY Zenon, <1>1 DEF LockBucket, Goto, PathOnBucket, BucketFree, request, head, parts, scan,
       TypeOK, ControlType, Label, Thread
<1>6. Mutexes'
  BY Zenon, <1>1, <1>2, <1>3, MutexesStep DEF InCriticalSection, RequestOK
<1>7. Migration'
  BY Zenon, <1>1, <1>2, <1>3, MigrationStep DEF InMigration, InCriticalSection, head, parts,
       IntentOnly, GrantedModes, ConflictModes
<1>8. Notification'
  BY Zenon, <1>1, <1>2, <1>3, NotificationStep
<1>9. RequestOK(l)'
  BY ZenonT(60), <1>1, <1>2 DEF RequestOK, Held, InScan, None
<1> QED BY Zenon, <1>1, <1>3, <1>4, <1>5, <1>6, <1>7, <1>8, <1>9, ControlStep

\* Taking the bucket in convert keeps the invariant.
LEMMA ConvertBucketStep ==
  ASSUME IInv, Counting, NEW l \in Locker, ConvertBucket(l)
  PROVE  IInv'
<1>1. /\ l \in Thread /\ Locker \subseteq Thread /\ l # Cleaner /\ TypeOK /\ RequestOK(l)
  BY Zenon, LockerAssumption DEF IInv, Thread, Requests
<1>2. /\ status'[l] = status[l] /\ mode'[l] = mode[l] /\ convertMode'[l] = convertMode[l]
      /\ list'[l] = list[l] /\ recursiveCount'[l] = recursiveCount[l] /\ partitioned'[l] = partitioned[l]
      /\ notify'[l] = notify[l] /\ arg'[l] = arg[l] /\ recursiveCount[l] \in 0 .. MaxRecursion
      /\ pc[l] = "convert" /\ bucketMutex = NoThread /\ bucketMutex' = l
      /\ pc'[l] = IF partitions # << >> THEN "migrate" ELSE "locked"
  BY Zenon, <1>1, BoundAssumption DEF ConvertBucket, Goto, BucketFree, request, head, parts,
       scan, TypeOK, RequestType, ControlType
<1>3. /\ UNCHANGED << status, mode, convertMode, list, notify, head, parts >>
      /\ \A u \in Thread : u # l => pc'[u] = pc[u]
      /\ \A k \in Locker : k # l => /\ recursiveCount'[k] = recursiveCount[k]
                                    /\ partitioned'[k] = partitioned[k]
                                    /\ notify'[k] = notify[k] /\ arg'[k] = arg[k]
  BY Zenon, <1>1 DEF ConvertBucket, Goto, BucketFree, request, head, parts, scan, TypeOK,
       RequestType, ControlType
<1>4. RequestType'
  BY Zenon, Frame DEF ConvertBucket, Goto, BucketFree, request, head, parts, scan
<1>5. ControlType'
  BY Zenon, <1>1 DEF ConvertBucket, Goto, BucketFree, request, head, parts, scan, TypeOK,
       ControlType, Label, Thread
<1>6. Mutexes'
  BY Zenon, <1>1, <1>2, <1>3, MutexesStep DEF InCriticalSection, RequestOK
<1>7. Migration'
  BY Zenon, <1>1, <1>2, <1>3, MigrationStep DEF InMigration, InCriticalSection, head, parts,
       IntentOnly, GrantedModes, ConflictModes
<1>8. Notification'
  BY Zenon, <1>1, <1>2, <1>3, NotificationStep
<1>9. RequestOK(l)'
  BY ZenonT(60), <1>1, <1>2 DEF RequestOK, Held, InScan, None
<1> QED BY Zenon, <1>1, <1>3, <1>4, <1>5, <1>6, <1>7, <1>8, <1>9, ControlStep

\* A wait that ends with a grant keeps the invariant.
LEMMA WaitOkStep ==
  ASSUME IInv, Counting, NEW l \in Locker, WaitOk(l)
  PROVE  IInv'
<1>1. /\ l \in Thread /\ Locker \subseteq Thread /\ l # Cleaner /\ TypeOK /\ RequestOK(l)
  BY Zenon, LockerAssumption DEF IInv, Thread, Requests
<1>2. /\ status'[l] = status[l] /\ mode'[l] = mode[l] /\ convertMode'[l] = convertMode[l]
      /\ list'[l] = list[l] /\ recursiveCount'[l] = recursiveCount[l] /\ partitioned'[l] = partitioned[l]
      /\ notify'[l] = notify[l] /\ arg'[l] = arg[l] /\ recursiveCount[l] \in 0 .. MaxRecursion
      /\ pc[l] = "wait" /\ notify[l] = "ok" /\ pc'[l] = "idle"
      /\ bucketMutex' = bucketMutex /\ iter' = iter
  BY Zenon, <1>1, BoundAssumption DEF WaitOk, Goto, request, head, parts, scan, TypeOK,
       RequestType, ControlType
<1>3. /\ UNCHANGED << status, mode, convertMode, list, notify, head, parts >>
      /\ \A u \in Thread : u # l => pc'[u] = pc[u]
      /\ \A k \in Locker : k # l => /\ recursiveCount'[k] = recursiveCount[k]
                                    /\ partitioned'[k] = partitioned[k]
                                    /\ notify'[k] = notify[k] /\ arg'[k] = arg[k]
  BY Zenon, <1>1 DEF WaitOk, Goto, request, head, parts, scan, TypeOK, RequestType, ControlType
<1>4. RequestType'
  BY Zenon, Frame DEF WaitOk, Goto, request, head, parts, scan
<1>5. ControlType'
  BY Zenon, <1>1 DEF WaitOk, Goto, request, head, parts, scan, TypeOK, ControlType, Label, Thread
<1>6. Mutexes'
  BY Zenon, <1>1, <1>2, <1>3, MutexesStep DEF InCriticalSection, RequestOK
<1>7. Migration'
  BY Zenon, <1>1, <1>2, <1>3, MigrationStep DEF InMigration, InCriticalSection, head, parts,
       IntentOnly, GrantedModes, ConflictModes
<1>8. Notification'
  BY Zenon, <1>1, <1>2, <1>3, NotificationFrame DEF head
<1>9. RequestOK(l)'
  BY ZenonT(60), <1>1, <1>2 DEF RequestOK, Held, InScan, None
<1> QED BY Zenon, <1>1, <1>3, <1>4, <1>5, <1>6, <1>7, <1>8, <1>9, ControlStep

\* Leaving the loop over the conversions keeps the invariant.
LEMMA ScanConversionsDoneStep ==
  ASSUME IInv, Counting, NEW l \in Locker, ScanConversionsDone(l)
  PROVE  IInv'
<1>1. /\ l \in Thread /\ Locker \subseteq Thread /\ l # Cleaner /\ TypeOK /\ RequestOK(l)
  BY Zenon, LockerAssumption DEF IInv, Thread, Requests
<1>2. /\ status'[l] = status[l] /\ mode'[l] = mode[l] /\ convertMode'[l] = convertMode[l]
      /\ list'[l] = list[l] /\ recursiveCount'[l] = recursiveCount[l] /\ partitioned'[l] = partitioned[l]
      /\ notify'[l] = notify[l] /\ arg'[l] = arg[l] /\ recursiveCount[l] \in 0 .. MaxRecursion
      /\ pc[l] = "scanConversions" /\ bucketMutex = l /\ bucketMutex' = l
      /\ pc'[l] \in {"scanConflicts", "scanned"}
  BY Zenon, <1>1, BoundAssumption DEF ScanConversionsDone, Goto, request, head, parts, scan,
       InCriticalSection, Mutexes, IInv, TypeOK, RequestType, ControlType
<1>3. /\ UNCHANGED << status, mode, convertMode, list, notify, head, parts >>
      /\ \A u \in Thread : u # l => pc'[u] = pc[u]
      /\ \A k \in Locker : k # l => /\ recursiveCount'[k] = recursiveCount[k]
                                    /\ partitioned'[k] = partitioned[k]
                                    /\ notify'[k] = notify[k] /\ arg'[k] = arg[k]
  BY Zenon, <1>1 DEF ScanConversionsDone, Goto, request, head, parts, scan, TypeOK, RequestType,
       ControlType
<1>4. RequestType'
  BY Zenon, Frame DEF ScanConversionsDone, Goto, request, head, parts, scan
<1>5. ControlType'
  BY <1>1 DEF ScanConversionsDone, Goto, request, head, parts, scan, TypeOK, ControlType, Label,
       Thread
<1>6. Mutexes'
  BY Zenon, <1>1, <1>2, <1>3, MutexesStep DEF InCriticalSection, RequestOK
<1>7. Migration'
  BY Zenon, <1>1, <1>2, <1>3, MigrationStep DEF InMigration, InCriticalSection, head, parts,
       IntentOnly, GrantedModes, ConflictModes
<1>8. Notification'
  BY Zenon, <1>1, <1>2, <1>3, NotificationStep
<1>9. RequestOK(l)'
  BY ZenonT(60), <1>1, <1>2 DEF RequestOK, Held, InScan, None
<1> QED BY Zenon, <1>1, <1>3, <1>4, <1>5, <1>6, <1>7, <1>8, <1>9, ControlStep

\* A round of the loop over the waiters that grants nobody keeps the invariant.
LEMMA ScanSkipStep ==
  ASSUME IInv, Counting, NEW l \in Locker, ScanSkip(l)
  PROVE  IInv'
<1>1. /\ l \in Thread /\ Locker \subseteq Thread /\ l # Cleaner /\ TypeOK /\ RequestOK(l)
  BY Zenon, LockerAssumption DEF IInv, Thread, Requests
<1>2. /\ status'[l] = status[l] /\ mode'[l] = mode[l] /\ convertMode'[l] = convertMode[l]
      /\ list'[l] = list[l] /\ recursiveCount'[l] = recursiveCount[l] /\ partitioned'[l] = partitioned[l]
      /\ notify'[l] = notify[l] /\ arg'[l] = arg[l] /\ recursiveCount[l] \in 0 .. MaxRecursion
      /\ pc[l] = "scanConflicts" /\ bucketMutex = l /\ bucketMutex' = l
      /\ pc'[l] \in {"scanConflicts", "scanned"}
  BY Zenon, <1>1, BoundAssumption DEF ScanSkip, Goto, request, head, parts, scan,
       InCriticalSection, Mutexes, IInv, TypeOK, RequestType, ControlType
<1>3. /\ UNCHANGED << status, mode, convertMode, list, notify, head, parts >>
      /\ \A u \in Thread : u # l => pc'[u] = pc[u]
      /\ \A k \in Locker : k # l => /\ recursiveCount'[k] = recursiveCount[k]
                                    /\ partitioned'[k] = partitioned[k]
                                    /\ notify'[k] = notify[k] /\ arg'[k] = arg[k]
  BY Zenon, <1>1 DEF ScanSkip, Goto, request, head, parts, scan, TypeOK, RequestType, ControlType
<1>4. RequestType'
  BY Zenon, Frame DEF ScanSkip, Goto, request, head, parts, scan
<1>5. ControlType'
  BY <1>1 DEF ScanSkip, Goto, request, head, parts, scan, TypeOK, ControlType, Label, Thread
<1>6. Mutexes'
  BY Zenon, <1>1, <1>2, <1>3, MutexesStep DEF InCriticalSection, RequestOK
<1>7. Migration'
  BY Zenon, <1>1, <1>2, <1>3, MigrationStep DEF InMigration, InCriticalSection, head, parts,
       IntentOnly, GrantedModes, ConflictModes
<1>8. Notification'
  BY Zenon, <1>1, <1>2, <1>3, NotificationStep
<1>9. RequestOK(l)'
  BY ZenonT(60), <1>1, <1>2 DEF RequestOK, Held, InScan, None
<1> QED BY Zenon, <1>1, <1>3, <1>4, <1>5, <1>6, <1>7, <1>8, <1>9, ControlStep

\* Leaving the loop over the waiters keeps the invariant.
LEMMA ScanConflictsDoneStep ==
  ASSUME IInv, Counting, NEW l \in Locker, ScanConflictsDone(l)
  PROVE  IInv'
<1>1. /\ l \in Thread /\ Locker \subseteq Thread /\ l # Cleaner /\ TypeOK /\ RequestOK(l)
  BY Zenon, LockerAssumption DEF IInv, Thread, Requests
<1>2. /\ status'[l] = status[l] /\ mode'[l] = mode[l] /\ convertMode'[l] = convertMode[l]
      /\ list'[l] = list[l] /\ recursiveCount'[l] = recursiveCount[l] /\ partitioned'[l] = partitioned[l]
      /\ notify'[l] = notify[l] /\ arg'[l] = arg[l] /\ recursiveCount[l] \in 0 .. MaxRecursion
      /\ pc[l] = "scanConflicts" /\ bucketMutex = l /\ bucketMutex' = l
      /\ pc'[l] = "scanned"
  BY Zenon, <1>1, BoundAssumption DEF ScanConflictsDone, Goto, request, head, parts, scan,
       InCriticalSection, Mutexes, IInv, TypeOK, RequestType, ControlType
<1>3. /\ UNCHANGED << status, mode, convertMode, list, notify, head, parts >>
      /\ \A u \in Thread : u # l => pc'[u] = pc[u]
      /\ \A k \in Locker : k # l => /\ recursiveCount'[k] = recursiveCount[k]
                                    /\ partitioned'[k] = partitioned[k]
                                    /\ notify'[k] = notify[k] /\ arg'[k] = arg[k]
  BY Zenon, <1>1 DEF ScanConflictsDone, Goto, request, head, parts, scan, TypeOK, RequestType,
       ControlType
<1>4. RequestType'
  BY Zenon, Frame DEF ScanConflictsDone, Goto, request, head, parts, scan
<1>5. ControlType'
  BY Zenon, <1>1 DEF ScanConflictsDone, Goto, request, head, parts, scan, TypeOK, ControlType,
       Label, Thread
<1>6. Mutexes'
  BY Zenon, <1>1, <1>2, <1>3, MutexesStep DEF InCriticalSection, RequestOK
<1>7. Migration'
  BY Zenon, <1>1, <1>2, <1>3, MigrationStep DEF InMigration, InCriticalSection, head, parts,
       IntentOnly, GrantedModes, ConflictModes
<1>8. Notification'
  BY Zenon, <1>1, <1>2, <1>3, NotificationStep
<1>9. RequestOK(l)'
  BY ZenonT(60), <1>1, <1>2 DEF RequestOK, Held, InScan, None
<1> QED BY Zenon, <1>1, <1>3, <1>4, <1>5, <1>6, <1>7, <1>8, <1>9, ControlStep

\* A wait that times out keeps the invariant.
LEMMA WaitTimeoutStep ==
  ASSUME IInv, Counting, NEW l \in Locker, CancelRace => MaxRecursion = 1, WaitTimeout(l)
  PROVE  IInv'
<1>1. /\ l \in Thread /\ Locker \subseteq Thread /\ l # Cleaner /\ TypeOK /\ RequestOK(l)
  BY Zenon, LockerAssumption DEF IInv, Thread, Requests
<1>a. /\ \/ recursiveCount[l] = 1 /\ status[l] = "waiting" /\ bucketMutex' = bucketMutex
         \/ /\ recursiveCount[l] > 1 /\ status[l] = "converting"
            /\ bucketMutex = NoThread /\ bucketMutex' = l
  <2>1. CASE recursiveCount[l] = 1
    BY <1>1, <2>1 DEF WaitTimeout, RequestOK
  <2>2. CASE recursiveCount[l] # 1
    <3>1. recursiveCount[l] > 1 /\ ~CancelRace
      <4>1. recursiveCount[l] > 0
        BY Zenon, <1>1, <2>2 DEF WaitTimeout, RequestOK
      <4>2. recursiveCount[l] \in 0 .. MaxRecursion
        BY Zenon, <1>1 DEF TypeOK, RequestType
      <4> QED BY <2>2, <4>1, <4>2, BoundAssumption
    <3>2. bucketMutex = NoThread /\ bucketMutex' = l
      BY <3>1 DEF WaitTimeout, BucketFree
    <3>3. \A u \in Thread : pc[u] # "notifyConversion"
      BY Zenon, <1>1, <3>2, OthersOutside DEF WaitTimeout, InCriticalSection
    <3>4. status[l] # "granted"
      BY ZenonT(60), <1>1, <3>3 DEF WaitTimeout, IInv, Notification
    <3> QED BY ZenonT(60), <1>1, <3>1, <3>2, <3>4 DEF WaitTimeout, RequestOK
  <2> QED BY ZenonT(60), <2>1, <2>2
<1>2. /\ status'[l] = status[l] /\ mode'[l] = mode[l] /\ convertMode'[l] = convertMode[l]
      /\ list'[l] = list[l] /\ recursiveCount'[l] = recursiveCount[l] - 1 /\ partitioned'[l] = partitioned[l]
      /\ notify'[l] = notify[l] /\ arg'[l] = arg[l] /\ recursiveCount[l] \in 0 .. MaxRecursion
      /\ pc[l] = "wait" /\ notify[l] = "invalid"
      /\ pc'[l] \in {"unlockPartition", "unlock"}
      /\ pc'[l] = "unlockPartition" => partitioned[l]
      /\ ~partitioned[l] => pc'[l] = "unlock"
      /\ \/ bucketMutex' = bucketMutex /\ status[l] = "waiting"
         \/ status[l] = "converting" /\ bucketMutex = NoThread /\ bucketMutex' = l
      /\ recursiveCount[l] = 1 <=> status[l] = "waiting" /\ recursiveCount[l] > 0
      /\ iter' = iter
  BY <1>1, <1>a, BoundAssumption DEF WaitTimeout, BeginUnlock, Goto, BucketFree, request, head,
       parts, scan, TypeOK, RequestType, ControlType
<1>3. /\ UNCHANGED << status, mode, convertMode, list, notify, head, parts >>
      /\ \A u \in Thread : u # l => pc'[u] = pc[u]
      /\ \A k \in Locker : k # l => /\ recursiveCount'[k] = recursiveCount[k]
                                    /\ partitioned'[k] = partitioned[k]
                                    /\ notify'[k] = notify[k] /\ arg'[k] = arg[k]
  BY ZenonT(60), <1>1 DEF WaitTimeout, BeginUnlock, Goto, BucketFree, request, head, parts, scan,
       TypeOK, RequestType, ControlType
<1>4. RequestType'
  <2>1. recursiveCount[l] > 0 /\ recursiveCount[l] \in 0 .. MaxRecursion
    BY ZenonT(60), <1>1, <1>2 DEF RequestOK
  <2>2. recursiveCount[l] - 1 \in 0 .. MaxRecursion
    BY <2>1, BoundAssumption
  <2>3. recursiveCount' \in [Locker -> 0 .. MaxRecursion]
    BY Zenon, <1>1, <2>2 DEF WaitTimeout, BeginUnlock, TypeOK, RequestType
  <2> QED BY Zenon, <1>1, <2>3 DEF WaitTimeout, BeginUnlock, TypeOK, RequestType
<1>5. ControlType'
  BY Zenon, <1>1 DEF WaitTimeout, BeginUnlock, Goto, BucketFree, request, head, parts, scan,
       TypeOK, ControlType, Label, Thread
<1>6. Mutexes'
  BY Zenon, <1>1, <1>2, <1>3, MutexesStep DEF InCriticalSection, RequestOK
<1>7. Migration'
  BY Zenon, <1>1, <1>2, <1>3, MigrationStep DEF InMigration, InCriticalSection, head, parts,
       IntentOnly, GrantedModes, ConflictModes
<1>8. Notification'
  BY ZenonT(60), <1>1, <1>2, <1>3, NotificationFrame DEF head
<1>9. RequestOK(l)'
  <2>1. \/ status[l] = "waiting" /\ recursiveCount'[l] = 0
        \/ status[l] = "converting" /\ recursiveCount'[l] > 0
    <3>1. /\ status[l] \in {"waiting", "converting"} /\ recursiveCount[l] > 0
          /\ status[l] = "converting" => recursiveCount[l] > 1
          /\ recursiveCount[l] > 1 => status[l] # "waiting"
      BY ZenonT(60), <1>1, <1>2 DEF RequestOK
    <3>2. /\ recursiveCount'[l] = recursiveCount[l] - 1
          /\ recursiveCount[l] \in 0 .. MaxRecursion
      BY Zenon, <1>2
    <3> QED BY Zenon, <3>1, <3>2, OneLess
  <2> QED BY ZenonT(60), <1>1, <1>2, <2>1 DEF RequestOK, InScan, None
<1> QED BY Zenon, <1>1, <1>3, <1>4, <1>5, <1>6, <1>7, <1>8, <1>9, ControlStep

\* downgrade keeps the invariant.
LEMMA DowngradeStep ==
  ASSUME IInv, Counting, NEW l \in Locker, Downgrade(l)
  PROVE  IInv'
<1>1. /\ l \in Thread /\ Locker \subseteq Thread /\ l # Cleaner /\ TypeOK /\ RequestOK(l)
  BY Zenon, LockerAssumption DEF IInv, Thread, Requests
<1>2. /\ pc[l] = "downgrade" /\ bucketMutex = NoThread /\ bucketMutex' = l /\ pc'[l] = "scanConversions"
      /\ status[l] = "granted" /\ status'[l] = "granted" /\ list[l] = "granted" /\ list'[l] = "granted"
      /\ mode[l] \in Mode \ Intent /\ arg[l] \in Mode /\ Covers(mode[l], arg[l]) /\ mode'[l] = arg[l]
      /\ convertMode[l] = None /\ convertMode'[l] = None /\ arg'[l] = None
      /\ recursiveCount'[l] = recursiveCount[l] /\ partitioned'[l] = partitioned[l]
      /\ notify'[l] = notify[l]
      /\ recursiveCount[l] \in Nat \ {0}
  BY <1>1 DEF Downgrade, StartScan, Goto, Dec, Inc, BucketFree, request, head, parts, scan, None,
       Mode, RequestOK, TypeOK, RequestType, ControlType
<1>3. /\ OthersKept(l)
      /\ \A u \in Thread : u # l => pc'[u] = pc[u]
      /\ \A k \in Locker : k # l => arg'[k] = arg[k]
  BY Zenon, <1>1 DEF Downgrade, StartScan, Goto, Dec, Inc, BucketFree, request, head, parts,
       scan, OthersKept, TypeOK, RequestType, ControlType
<1>4. RequestType'
  BY Zenon, <1>1, <1>2 DEF Downgrade, StartScan, Goto, Dec, Inc, BucketFree, request, head,
       parts, scan, TypeOK, RequestType
<1>5. HeadType'
  BY Zenon, <1>1, <1>2, Counted, IncDec DEF Downgrade, TypeOK, HeadType
<1>6. PartitionType'
  BY Zenon, Frame DEF Downgrade, StartScan, Goto, Dec, Inc, BucketFree, request, head, parts, scan
<1>7. ControlType'
  BY ZenonT(60), <1>1, <1>2, StartScanType DEF Downgrade, TypeOK, ControlType
<1>8. CountsFollow(l)
  BY Zenon, <1>1, <1>2, ModeChanged DEF Downgrade, TypeOK
<1>9. CompatibleOne(l)
  <2> SUFFICES ASSUME NEW k \in Held, k # l
               PROVE  arg[l] \notin LockConflictsTable(mode[k])
    BY Zenon, <1>2 DEF CompatibleOne
  <2>1. mode[k] \in Mode /\ mode[k] \notin LockConflictsTable(mode[l])
    BY Zenon, <1>2, Counted DEF IInv, Compatible, Held, None
  <2> QED BY Zenon, <1>2, <2>1, Symmetric DEF Covers
<1>10. Partitions'
  <2>1. mode[l] \in GrantedModes
    BY Zenon, <1>2, Counted
  <2>2. partitions = << >>
    BY Zenon, <1>2, <2>1 DEF IInv, Partitions, IntentOnly
  <2> QED BY Zenon, <2>2 DEF Downgrade, parts, IInv, Partitions
<1>11. Lists'
  BY Zenon, <1>2, <1>3, ListsFrame DEF Downgrade, StartScan, Goto, Dec, Inc, BucketFree, request,
       head, parts, scan
<1>12. Mutexes'
  BY Zenon, <1>1, <1>2, <1>3, MutexesKept
<1>13. Migration'
  BY Zenon, <1>1, <1>2, <1>3, MigrationStep DEF InMigration
<1>14. Notification'
  BY Zenon, <1>1, <1>2, <1>3, NotificationKept
<1>15. RequestOK(l)'
  BY ZenonT(60), <1>1, <1>2 DEF RequestOK, Held, InScan, None, Mode
<1> QED BY ZenonT(60), <1>1, <1>3, <1>4, <1>5, <1>6, <1>7, <1>8, <1>9, <1>10, <1>11, <1>12, <1>13,
           <1>14, <1>15, RequestStep

\* unlock of a granted request keeps the invariant.
LEMMA UnlockGrantedStep ==
  ASSUME IInv, Counting, NEW l \in Locker, UnlockGranted(l)
  PROVE  IInv'
<1>1. /\ l \in Thread /\ Locker \subseteq Thread /\ l # Cleaner /\ TypeOK /\ RequestOK(l)
  BY Zenon, LockerAssumption DEF IInv, Thread, Requests
<1>2. /\ pc[l] = "unlock" /\ bucketMutex = NoThread /\ bucketMutex' = l /\ pc'[l] = "scanConversions"
      /\ status[l] = "granted" /\ status'[l] = "granted" /\ list[l] = "granted" /\ list'[l] = None
      /\ mode[l] \in Mode /\ mode'[l] = mode[l] /\ convertMode[l] = None /\ convertMode'[l] = None
      /\ arg[l] = None /\ arg'[l] = None
      /\ recursiveCount'[l] = recursiveCount[l] /\ partitioned'[l] = partitioned[l]
      /\ notify'[l] = notify[l]
      /\ recursiveCount[l] = 0
  BY Zenon, <1>1 DEF UnlockGranted, StartScan, Goto, Dec, BucketFree, request, head, parts, scan,
       None, Mode, Held, RequestOK, TypeOK, RequestType, ControlType
<1>3. /\ OthersKept(l)
      /\ \A u \in Thread : u # l => pc'[u] = pc[u]
      /\ \A k \in Locker : k # l => arg'[k] = arg[k]
  BY Zenon, <1>1 DEF UnlockGranted, StartScan, Goto, Dec, BucketFree, request, head, parts, scan,
       OthersKept, TypeOK, RequestType, ControlType
<1>4. RequestType'
  BY Zenon, <1>1, <1>2 DEF UnlockGranted, StartScan, Goto, Dec, BucketFree, request, head, parts,
       scan, TypeOK, RequestType
<1>5. HeadType'
  <2>1. grantedCounts' \in [Mode -> Nat]
    <3>1. grantedCounts \in [Mode -> Nat] /\ grantedCounts' = Dec(grantedCounts, mode[l])
      BY Zenon, <1>1 DEF UnlockGranted, TypeOK, HeadType
    <3>2. grantedCounts[mode[l]] > 0
      BY Zenon, <1>2, Counted
    <3> QED BY Zenon, <1>2, <3>1, <3>2, IncDec
  <2>2. grantedList' \in Seq(Locker)
    BY Zenon, <1>1, RemoveRequestType DEF UnlockGranted, TypeOK, HeadType
  <2>3. compatibleFirstCount' \in 0 .. UIntRange - 1
    BY Zenon, <1>1, PolicyType DEF UnlockGranted
  <2> QED BY ZenonT(60), <1>1, <2>1, <2>2, <2>3 DEF UnlockGranted, TypeOK, HeadType
<1>6. PartitionType'
  BY Zenon, Frame DEF UnlockGranted, StartScan, Goto, Dec, BucketFree, request, head, parts, scan
<1>7. ControlType'
  <2>1. LeavesNoHolder(l) \in BOOLEAN
    BY Zenon DEF LeavesNoHolder
  <2> QED BY Zenon, <1>1, <1>2, <2>1, StartScanType DEF UnlockGranted, TypeOK, ControlType
<1>8. CountsFollow(l)
  BY Zenon, <1>1, <1>2, GrantedLeaves DEF UnlockGranted, TypeOK
<1>9. CompatibleOne(l)
  BY Zenon, <1>2 DEF CompatibleOne, Held, None
<1>10. Partitions'
  <2>1. GrantedModes' \subseteq GrantedModes /\ ConflictModes' = ConflictModes
    BY Zenon, <1>1, <1>2, ModesShrink DEF UnlockGranted, TypeOK
  <2> QED BY Zenon, <2>1 DEF UnlockGranted, parts, IInv, Partitions, IntentOnly
<1>11. Lists'
  BY Zenon, <1>2, <1>3, ListsFrame DEF UnlockGranted, parts, None
<1>12. Mutexes'
  BY Zenon, <1>1, <1>2, <1>3, MutexesKept
<1>13. Migration'
  BY Zenon, <1>1, <1>2, <1>3, MigrationStep DEF InMigration
<1>14. Notification'
  BY Zenon, <1>1, <1>2, <1>3, NotificationKept
<1>15. RequestOK(l)'
  BY ZenonT(60), <1>1, <1>2 DEF RequestOK, Held, InScan, None, Mode
<1> QED BY Zenon, <1>1, <1>3, <1>4, <1>5, <1>6, <1>7, <1>8, <1>9, <1>10, <1>11, <1>12, <1>13,
           <1>14, <1>15, RequestStep

\* unlock of a pending conversion keeps the invariant.
LEMMA UnlockConvertingStep ==
  ASSUME IInv, Counting, NEW l \in Locker, UnlockConverting(l)
  PROVE  IInv'
<1>1. /\ l \in Thread /\ Locker \subseteq Thread /\ l # Cleaner /\ TypeOK /\ RequestOK(l)
  BY Zenon, LockerAssumption DEF IInv, Thread, Requests
<1>2. /\ pc[l] = "unlock" /\ bucketMutex \in {NoThread, l} /\ bucketMutex' = l /\ pc'[l] = "scanConversions"
      /\ status[l] = "converting" /\ status'[l] = "granted" /\ list[l] = "granted" /\ list'[l] = "granted"
      /\ mode[l] \in Mode /\ mode'[l] = mode[l] /\ convertMode[l] \in Mode /\ convertMode'[l] = None
      /\ arg[l] = None /\ arg'[l] = None
      /\ recursiveCount'[l] = recursiveCount[l] /\ partitioned'[l] = partitioned[l]
      /\ notify'[l] = notify[l]
      /\ recursiveCount[l] \in Nat \ {0}
  BY <1>1 DEF UnlockConverting, StartScan, Goto, Dec, request, head, parts, scan, None, Mode,
       Held, RequestOK, TypeOK, RequestType, ControlType
<1>3. /\ OthersKept(l)
      /\ \A u \in Thread : u # l => pc'[u] = pc[u]
      /\ \A k \in Locker : k # l => arg'[k] = arg[k]
  BY Zenon, <1>1 DEF UnlockConverting, StartScan, Goto, Dec, request, head, parts, scan,
       OthersKept, TypeOK, RequestType, ControlType
<1>4. RequestType'
  BY ZenonT(60), <1>1, <1>2 DEF UnlockConverting, StartScan, Goto, Dec, request, head, parts,
       scan, TypeOK, RequestType
<1>5. HeadType'
  <2>1. /\ grantedCounts \in [Mode -> Nat] /\ grantedCounts' = Dec(grantedCounts, convertMode[l])
        /\ grantedCounts[convertMode[l]] > 0 /\ convertMode[l] \in Mode
    BY Zenon, <1>1, <1>2, Counted DEF UnlockConverting, TypeOK, HeadType
  <2>2. grantedCounts' \in [Mode -> Nat]
    BY Zenon, <2>1, IncDec
  <2>3. conversionsCount' \in Nat
    <3>1. /\ conversionsCount \in Nat /\ conversionsCount > 0
          /\ conversionsCount' = conversionsCount - 1
      BY Zenon, <1>1, <1>2, Counted DEF UnlockConverting, TypeOK, HeadType
    <3> QED BY <3>1
  <2> QED BY Zenon, <1>1, <2>2, <2>3 DEF UnlockConverting, TypeOK, HeadType
<1>6. PartitionType'
  BY Zenon, Frame DEF UnlockConverting, StartScan, Goto, Dec, request, head, parts, scan
<1>7. ControlType'
  BY Zenon, <1>1, <1>2, StartScanType DEF UnlockConverting, TypeOK, ControlType
<1>8. CountsFollow(l)
  BY Zenon, <1>1, <1>2, ConversionCancelled DEF UnlockConverting, TypeOK
<1>9. CompatibleOne(l)
  BY Zenon, <1>2 DEF CompatibleOne, IInv, Compatible, Held
<1>10. Partitions'
  <2>1. GrantedModes' \subseteq GrantedModes /\ ConflictModes' = ConflictModes
    BY Zenon, <1>1, <1>2, ModesShrink DEF UnlockConverting, TypeOK
  <2> QED BY ZenonT(60), <2>1 DEF UnlockConverting, parts, IInv, Partitions, IntentOnly
<1>11. Lists'
  BY Zenon, <1>2, <1>3, ListsFrame DEF UnlockConverting, parts
<1>12. Mutexes'
  BY Zenon, <1>1, <1>2, <1>3, MutexesKept
<1>13. Migration'
  BY Zenon, <1>1, <1>2, <1>3, MigrationStep DEF InMigration
<1>14. Notification'
  BY Zenon, <1>1, <1>2, <1>3, NotificationKept
<1>15. RequestOK(l)'
  BY ZenonT(60), <1>1, <1>2 DEF RequestOK, Held, InScan, None, Mode
<1> QED BY Zenon, <1>1, <1>3, <1>4, <1>5, <1>6, <1>7, <1>8, <1>9, <1>10, <1>11, <1>12, <1>13,
           <1>14, <1>15, RequestStep

\* unlock of a waiting request keeps the invariant.
LEMMA UnlockWaitingStep ==
  ASSUME IInv, Counting, NEW l \in Locker, UnlockWaiting(l)
  PROVE  IInv'
<1>1. /\ l \in Thread /\ Locker \subseteq Thread /\ l # Cleaner /\ TypeOK /\ RequestOK(l)
  BY Zenon, LockerAssumption DEF IInv, Thread, Requests
<1>2. /\ pc[l] = "unlock" /\ bucketMutex = NoThread /\ bucketMutex' = l /\ pc'[l] = "scanConversions"
      /\ status[l] = "waiting" /\ status'[l] = "waiting" /\ list[l] = "conflict" /\ list'[l] = None
      /\ mode[l] \in Mode /\ mode'[l] = mode[l] /\ convertMode[l] = None /\ convertMode'[l] = None
      /\ arg[l] = None /\ arg'[l] = None
      /\ recursiveCount'[l] = recursiveCount[l] /\ partitioned'[l] = partitioned[l]
      /\ notify'[l] = notify[l]
      /\ recursiveCount[l] = 0
  BY Zenon, <1>1 DEF UnlockWaiting, StartScan, Goto, Dec, BucketFree, request, head, parts, scan,
       None, Mode, Held, InScan, RequestOK, TypeOK, RequestType, ControlType
<1>3. /\ OthersKept(l)
      /\ \A u \in Thread : u # l => pc'[u] = pc[u]
      /\ \A k \in Locker : k # l => arg'[k] = arg[k]
  BY Zenon, <1>1 DEF UnlockWaiting, StartScan, Goto, Dec, BucketFree, request, head, parts, scan,
       OthersKept, TypeOK, RequestType, ControlType
<1>4. RequestType'
  BY Zenon, <1>1, <1>2 DEF UnlockWaiting, StartScan, Goto, Dec, BucketFree, request, head, parts,
       scan, TypeOK, RequestType
<1>5. HeadType'
  <2>1. conflictCounts' \in [Mode -> Nat]
    <3>1. conflictCounts \in [Mode -> Nat] /\ conflictCounts' = Dec(conflictCounts, mode[l])
      BY Zenon, <1>1 DEF UnlockWaiting, TypeOK, HeadType
    <3>2. conflictCounts[mode[l]] > 0
      BY Zenon, <1>2, Counted
    <3> QED BY Zenon, <1>2, <3>1, <3>2, DecFacts
  <2>2. conflictList' \in Seq(Locker)
    BY Zenon, <1>1, RemoveRequestType DEF UnlockWaiting, TypeOK, HeadType
  <2> QED BY ZenonT(60), <1>1, <2>1, <2>2 DEF UnlockWaiting, TypeOK, HeadType
<1>6. PartitionType'
  BY Zenon, Frame DEF UnlockWaiting, StartScan, Goto, Dec, BucketFree, request, head, parts, scan
<1>7. ControlType'
  BY ZenonT(60), <1>1, <1>2, StartScanType DEF UnlockWaiting, TypeOK, ControlType
<1>8. CountsFollow(l)
  BY Zenon, <1>1, <1>2, WaitingLeaves DEF UnlockWaiting, TypeOK
<1>9. CompatibleOne(l)
  BY Zenon, <1>2 DEF CompatibleOne, Held, None
<1>10. Partitions'
  <2>1. GrantedModes' = GrantedModes /\ ConflictModes' \subseteq ConflictModes
    BY Zenon, <1>1, <1>2, ModesShrink DEF UnlockWaiting, TypeOK
  <2> QED BY ZenonT(60), <2>1 DEF UnlockWaiting, parts, IInv, Partitions, IntentOnly
<1>11. Lists'
  <2>1. /\ conflictList' = RemoveRequest(conflictList, l) /\ partGranted' = partGranted
        /\ conflictList \in Seq(Locker) /\ NoRepeats(conflictList)
    BY Zenon, OnConflictList DEF UnlockWaiting, parts
  <2>2. /\ NoRepeats(conflictList')
        /\ \A j \in DOMAIN conflictList' :
             conflictList'[j] # l /\ \E k \in DOMAIN conflictList : conflictList'[j] = conflictList[k]
    BY ZenonT(60), <2>1, RemoveRequestFacts
  <2>3. \A j \in DOMAIN conflictList' : list'[conflictList'[j]] = "conflict"
    <3> TAKE j \in DOMAIN conflictList'
    <3>1. PICK k \in DOMAIN conflictList : conflictList'[j] # l /\ conflictList'[j] = conflictList[k]
      BY Zenon, <2>2
    <3>2. conflictList[k] \in Locker /\ list[conflictList[k]] = "conflict"
      BY Zenon, <3>1, OnConflictList
    <3> QED BY ZenonT(60), <1>3, <3>1, <3>2 DEF OthersKept
  <2> QED BY Zenon, <1>2, <1>3, <2>1, <2>2, <2>3, ConflictListsFrame DEF None
<1>12. Mutexes'
  BY Zenon, <1>1, <1>2, <1>3, MutexesKept
<1>13. Migration'
  BY Zenon, <1>1, <1>2, <1>3, MigrationStep DEF InMigration
<1>14. Notification'
  BY Zenon, <1>1, <1>2, <1>3, NotificationKept
<1>15. RequestOK(l)'
  BY Zenon, <1>1, <1>2 DEF RequestOK, Held, InScan, None, Mode
<1> QED BY Zenon, <1>1, <1>3, <1>4, <1>5, <1>6, <1>7, <1>8, <1>9, <1>10, <1>11, <1>12, <1>13,
           <1>14, <1>15, RequestStep

-----------------------------------------------------------------------------
(* What blocks a request goes on to block it.                              *)

\* A mode somebody holds on the head is counted there.
LEMMA HeldAreCounted ==
  ASSUME Tallied
  PROVE  HeldCounted
  BY Zenon DEF Tallied

\* The same after the step.
LEMMA HeldAreCountedNext ==
  ASSUME Tallied
  PROVE  HeldCounted'
  BY Zenon DEF Tallied

\* A mode covers itself.
LEMMA CoversItself ==
  ASSUME NEW m
  PROVE  Covers(m, m)
  BY Zenon DEF Covers

\* Whatever was blocked stays so when the modes that block it are covered.
LEMMA StaysBlocked ==
  ASSUME NEW x \in Mode, NEW S \in SUBSET Mode, NEW T \in SUBSET Mode,
         \A n \in S : \E m \in T : Covers(m, n), conflicts(x, S)
  PROVE  conflicts(x, T)
<1>1. PICK n \in S : n \in LockConflictsTable(x)
  BY Zenon DEF conflicts
<1>2. PICK m \in T : Covers(m, n)
  BY Zenon
<1>3. x \in LockConflictsTable(m)
  BY Zenon, <1>1, <1>2, Symmetric DEF Covers
<1> QED BY Zenon, <1>3, Symmetric DEF conflicts

\* Counts that only grow cover what was granted.
LEMMA GrowingCovers ==
  ASSUME HeadType, HeadType', \A m \in Mode : grantedCounts'[m] >= grantedCounts[m]
  PROVE  /\ GrantsCovered
         /\ \A l \in Locker :
              mode'[l] = mode[l] /\ convertMode'[l] = convertMode[l] => OthersCovered(l)
<1>1. \A m \in Mode : grantedCounts[m] \in Nat /\ grantedCounts'[m] \in Nat
  BY DEF HeadType
<1>2. GrantedModes \subseteq GrantedModes'
  BY <1>1 DEF GrantedModes
<1>3. ASSUME NEW l \in Locker, mode'[l] = mode[l], convertMode'[l] = convertMode[l]
      PROVE  OtherModes(l) \subseteq OtherModes(l)'
  BY <1>1, <1>3 DEF OtherModes
<1> QED BY Zenon, <1>2, <1>3, CoversItself DEF GrantsCovered, OthersCovered

\* So do counts that change with the mode of one locker on the granted list, if
\* its new mode covers the old one.
LEMMA WideningCovers ==
  ASSUME HeadType, HeadType', HeldCounted', NEW l \in Locker, mode[l] \in Mode,
         list'[l] = "granted", Covers(mode'[l], mode[l]),
         \A m \in Mode : m # mode[l] => grantedCounts'[m] >= grantedCounts[m]
  PROVE  /\ GrantsCovered
         /\ \A k \in Locker : /\ k # l /\ list'[k] = "granted"
                              /\ mode'[k] = mode[k] /\ convertMode'[k] = convertMode[k]
                              => OthersCovered(k)
<1>1. \A m \in Mode : grantedCounts[m] \in Nat /\ grantedCounts'[m] \in Nat
  BY DEF HeadType
<1>2. \A m \in GrantedModes : m # mode[l] => m \in GrantedModes'
  BY <1>1 DEF GrantedModes
<1>3. mode'[l] \in GrantedModes'
  BY Zenon DEF HeldCounted, RequestCounted
<1>4. ASSUME NEW k \in Locker, k # l, list'[k] = "granted",
             mode'[k] = mode[k], convertMode'[k] = convertMode[k]
      PROVE  OthersCovered(k)
  <2>1. \A m \in OtherModes(k) : m # mode[l] => m \in OtherModes(k)'
    BY <1>1, <1>4 DEF OtherModes
  <2>2. mode'[l] \in OtherModes(k)'
    BY Zenon, <1>4 DEF HeldCounted
  <2> QED BY Zenon, <2>1, <2>2, CoversItself DEF OthersCovered
<1> QED BY Zenon, <1>2, <1>3, <1>4, CoversItself DEF GrantsCovered

\* Nobody scans while t has the bucket mutex for something else, or nobody has.
LEMMA NobodyScans ==
  ASSUME IInv, NEW t \in Thread, bucketMutex \in {NoThread, t}, pc[t] \notin InScan
  PROVE  ~QueueToScan /\ \A l \in Locker : ~ToScan(l)
<1>1. \A u \in Thread : pc[u] \notin InScan
  BY Zenon, OthersOutside DEF InScan, InCriticalSection
<1> QED BY Zenon, <1>1 DEF QueueToScan, ToScan, Scans, InScan

\* The queue stays blocked when its front stays and the granted modes are covered.
LEMMA QueueStep ==
  ASSUME IInv, IInv', Tallied, NEW t \in Thread,
         conflictList # << >>, FrontBlocked, GrantsCovered,
         conflictList' # << >>,
         ~IsGlobal => /\ conflictList'[1] = conflictList[1]
                      /\ mode'[conflictList[1]] = mode[conflictList[1]]
  PROVE  QueueBlocked'
<1>1. GrantedModes \in SUBSET Mode /\ GrantedModes' \in SUBSET Mode
  BY Zenon DEF GrantedModes
<1>2. CASE IsGlobal
  BY Zenon, <1>2 DEF FrontBlocked, QueueBlocked, GrantsCovered
<1>3. CASE ~IsGlobal
  <2>1. mode[conflictList[1]] \in Mode
    <3>1. 1 \in DOMAIN conflictList
      BY OnConflictList
    <3>2. conflictList[1] \in Locker /\ list[conflictList[1]] = "conflict"
      BY Zenon, <3>1, OnConflictList
    <3> QED BY Zenon, <3>2, HeldAreCounted DEF HeldCounted, RequestCounted, None
  <2>2. conflicts(mode[conflictList[1]], GrantedModes)
    BY Zenon, <1>3 DEF FrontBlocked
  <2>3. conflicts(mode[conflictList[1]], GrantedModes')
    BY Zenon, <1>1, <2>1, <2>2, StaysBlocked DEF GrantsCovered
  <2>4. FrontBlocked'
    BY Zenon, <1>3, <2>3 DEF FrontBlocked
  <2> QED BY Zenon, <2>4 DEF QueueBlocked
<1> QED BY Zenon, <1>2, <1>3

\* A conversion stays blocked when the modes of the others are covered.
LEMMA ConversionStep ==
  ASSUME IInv, Tallied, NEW k \in Locker, status[k] = "converting",
         conflicts(convertMode[k], OtherModes(k)), OthersCovered(k),
         convertMode'[k] = convertMode[k]
  PROVE  conflicts(convertMode'[k], OtherModes(k)')
<1>1. OtherModes(k) \in SUBSET Mode /\ OtherModes(k)' \in SUBSET Mode
  BY Zenon DEF OtherModes
<1>2. convertMode[k] \in Mode
  BY Zenon, HeldAreCounted DEF HeldCounted, RequestCounted
<1> QED BY Zenon, <1>1, <1>2, StaysBlocked DEF OthersCovered

-----------------------------------------------------------------------------
(* Steps that leave the lock head alone.                                   *)

\* A step that leaves the lists and the requests on them alone keeps both lists exact.
LEMMA QuietLists ==
  ASSUME IInv, ListsExact, Quiet
  PROVE  ListsExact'
<1>1. grantedList \in Seq(Locker) /\ \A i \in DOMAIN grantedList : grantedList[i] \in Locker
  BY DEF IInv, TypeOK, HeadType
<1>2. \A k \in Locker : /\ list'[k] = "granted" <=> list[k] = "granted"
                        /\ list'[k] = "conflict" <=> list[k] = "conflict"
  BY Zenon DEF Quiet, None
<1>3. grantedList' = grantedList /\ conflictList' = conflictList
  BY Zenon DEF Quiet
<1> QED BY Zenon, <1>1, <1>2, <1>3 DEF ListsExact, GrantedExact, QueueExact, NoRepeats

\* Such a step leaves the queue blocked, or to be scanned.
LEMMA QuietQueue ==
  ASSUME IInv, QueueBlocked, Quiet
  PROVE  QueueBlocked'
<1> SUFFICES ASSUME conflictList # << >>
             PROVE  FrontBlocked' \/ QueueToScan'
  BY Zenon DEF QueueBlocked, Quiet
<1>1. CASE FrontBlocked
  <2>1. 1 \in DOMAIN conflictList
    BY OnConflictList
  <2>2. conflictList[1] \in Locker /\ list[conflictList[1]] = "conflict"
    BY Zenon, <2>1, OnConflictList
  <2>3. mode'[conflictList[1]] = mode[conflictList[1]]
    BY Zenon, <2>2 DEF Quiet, None
  <2>4. GrantedModes' = GrantedModes /\ conflictList' = conflictList
    BY Zenon DEF Quiet, GrantedModes
  <2> QED BY Zenon, <1>1, <2>3, <2>4 DEF FrontBlocked
<1>2. CASE QueueToScan
  <2>1. PICK t \in Thread : \/ pc[t] \in Scans /\ checkConflictQueue = TRUE
                            \/ pc[t] = "scanConflicts" /\ iter = 1
    BY Zenon, <1>2 DEF QueueToScan
  <2>2. pc'[t] = pc[t] /\ UNCHANGED << iter, checkConflictQueue >>
    BY Zenon, <2>1 DEF Quiet, Scans, InScan
  <2> QED BY Zenon, <2>1, <2>2 DEF QueueToScan
<1> QED BY Zenon, <1>1, <1>2 DEF QueueBlocked

\* The same for the conversions.
LEMMA QuietConversions ==
  ASSUME IInv, IInv', Tallied, ConversionsBlocked, Quiet
  PROVE  ConversionsBlocked'
<1> SUFFICES ASSUME NEW k \in Locker, status'[k] = "converting"
             PROVE  conflicts(convertMode'[k], OtherModes(k)') \/ ToScan(k)'
  BY Zenon DEF ConversionsBlocked
<1>1. list'[k] = "granted"
  BY Zenon DEF IInv, Requests, RequestOK
<1>2. status[k] = "converting" /\ mode'[k] = mode[k] /\ convertMode'[k] = convertMode[k]
  BY Zenon, <1>1 DEF Quiet, None
<1>3. OtherModes(k)' = OtherModes(k)
  BY Zenon, <1>2 DEF Quiet, OtherModes
<1>4. CASE ToScan(k)
  <2>1. PICK t \in Thread : /\ pc[t] \in Scans
                            /\ \E i \in DOMAIN grantedList : grantedList[i] = k /\ i >= iter
    BY Zenon, <1>4 DEF ToScan
  <2>2. pc'[t] = pc[t] /\ UNCHANGED << iter, grantedList >>
    BY Zenon, <2>1 DEF Quiet, Scans, InScan
  <2> QED BY Zenon, <2>1, <2>2 DEF ToScan
<1> QED BY Zenon, <1>2, <1>3, <1>4 DEF ConversionsBlocked

\* A step that leaves the head and the requests alone keeps the policy counts.
LEMMA QuietPolicy ==
  ASSUME IInv, PolicyUnused, PolicyCounted, Quiet, PrioritiesKept
  PROVE  PolicyUnused' /\ PolicyCounted'
<1>1. PolicyUnused'
  <2>1. ASSUME ~IsGlobal, NEW t \in Thread, pc'[t] = "scanConflicts"
        PROVE  iter' = 1
    BY Zenon, <2>1 DEF PolicyUnused, Quiet, InScan
  <2> QED BY Zenon, <2>1 DEF PolicyUnused, Quiet, PrioritiesKept
<1>2. PolicyCounted'
  <2> SUFFICES ASSUME IsGlobal => MaxRecursion = 1
               PROVE  compatibleFirstCount' = Cardinality(FirstCompatible')
    BY Zenon DEF PolicyCounted
  <2>1. \A k \in Locker : list'[k] = "granted" <=> list[k] = "granted"
    BY Zenon DEF Quiet, None
  <2>2. FirstCompatible' = FirstCompatible
    BY Zenon, <2>1 DEF FirstCompatible, PrioritiesKept
  <2> QED BY Zenon, <2>2 DEF PolicyCounted, Quiet
<1> QED BY Zenon, <1>1, <1>2

\* A quiet step keeps the invariant if it keeps what concerns the requests alone.
LEMMA QuietStep ==
  ASSUME IInv, IInv', Tallied, Waiting, Quiet, PrioritiesKept, Widening', Unnotified'
  PROVE  Waiting'
  BY Zenon, QuietLists, QuietQueue, QuietConversions, QuietPolicy DEF Waiting

\* A step of thread t that changes neither the head nor a request.
LEMMA ControlOnly ==
  ASSUME IInv, IInv', Tallied, Waiting, NEW t \in Thread,
         UNCHANGED << status, mode, convertMode, compatibleFirst, list, notify, head, scan >>,
         \A u \in Thread : u # t => pc'[u] = pc[u],
         \A k \in Locker : k # t => arg'[k] = arg[k],
         pc[t] \notin InScan, pc'[t] \notin InScan,
         t \in Locker => \/ pc[t] \in Converts /\ arg'[t] = arg[t]
                         \/ pc'[t] \notin Converts \/ arg'[t] = None
  PROVE  Waiting'
<1>1. Locker \subseteq Thread
  BY Zenon DEF Thread
<1>2. Quiet /\ Unnotified'
  BY Zenon DEF Quiet, Waiting, Unnotified, head, scan
<1>3. PrioritiesKept
  BY Zenon DEF PrioritiesKept, Waiting, PolicyUnused, scan
<1>4. Widening'
  BY Zenon, <1>1 DEF Waiting, Widening
<1> QED BY Zenon, <1>2, <1>3, <1>4, QuietStep

\* Taking the bucket mutex keeps the second invariant.
LEMMA LockBucketQueues ==
  ASSUME IInv, IInv', Tallied, Waiting, NEW l \in Locker, LockBucket(l)
  PROVE  Waiting'
<1>1. l \in Thread /\ RequestOK(l) /\ TypeOK
  BY Zenon DEF Thread, IInv, Requests
<1>2. /\ \A u \in Thread : u # l => pc'[u] = pc[u]
      /\ pc[l] = "lock" /\ pc'[l] \in {"startPartition", "migrate", "locked"}
      /\ UNCHANGED << status, mode, convertMode, compatibleFirst, list, notify, head, scan, arg >>
  BY Zenon, <1>1 DEF LockBucket, PathOnBucket, Goto, TypeOK, ControlType, request
<1>3. arg'[l] = None
  BY Zenon, <1>1, <1>2 DEF RequestOK
<1> QED BY Zenon, <1>1, <1>2, <1>3, ControlOnly DEF InScan

\* convert taking the bucket mutex keeps it.
LEMMA ConvertBucketQueues ==
  ASSUME IInv, IInv', Tallied, Waiting, NEW l \in Locker, ConvertBucket(l)
  PROVE  Waiting'
<1>1. l \in Thread /\ TypeOK
  BY Zenon DEF Thread, IInv
<1>2. /\ \A u \in Thread : u # l => pc'[u] = pc[u]
      /\ pc[l] = "convert" /\ pc'[l] \in {"migrate", "locked"}
      /\ UNCHANGED << status, mode, convertMode, compatibleFirst, list, notify, head, scan, arg >>
  BY Zenon, <1>1 DEF ConvertBucket, Goto, TypeOK, ControlType, request
<1> QED BY Zenon, <1>1, <1>2, ControlOnly DEF InScan, Converts

\* The start of a migration keeps it.
LEMMA MigrateBeginQueues ==
  ASSUME IInv, IInv', Tallied, Waiting, NEW t \in Thread, MigrateBegin(t)
  PROVE  Waiting'
<1>1. TypeOK
  BY Zenon DEF IInv
<1>2. /\ \A u \in Thread : u # t => pc'[u] = pc[u]
      /\ pc[t] = "migrate" /\ pc'[t] = "migrating"
      /\ UNCHANGED << status, mode, convertMode, compatibleFirst, list, notify, head, scan, arg >>
  BY Zenon, <1>1 DEF MigrateBegin, Goto, TypeOK, ControlType, request
<1> QED BY Zenon, <1>1, <1>2, ControlOnly DEF InScan, Converts

\* The end of a migration keeps it.
LEMMA MigrateEndQueues ==
  ASSUME IInv, IInv', Tallied, Waiting, NEW t \in Thread, MigrateEnd(t)
  PROVE  Waiting'
<1>1. TypeOK
  BY Zenon DEF IInv
<1>2. /\ \A u \in Thread : u # t => pc'[u] = pc[u]
      /\ pc[t] = "migrating" /\ pc'[t] \in {"migrate", "locked"}
      /\ UNCHANGED << status, mode, convertMode, compatibleFirst, list, notify, head, scan, arg >>
  BY Zenon, <1>1 DEF MigrateEnd, Goto, TypeOK, ControlType, request
<1> QED BY Zenon, <1>1, <1>2, ControlOnly DEF InScan, Converts

\* The call of downgrade keeps it.
LEMMA CallDowngradeQueues ==
  ASSUME IInv, IInv', Tallied, Waiting, NEW l \in Locker, NEW m \in Asked, CallDowngrade(l, m)
  PROVE  Waiting'
<1>1. l \in Thread /\ TypeOK
  BY Zenon DEF Thread, IInv
<1>2. /\ \A u \in Thread : u # l => pc'[u] = pc[u]
      /\ \A k \in Locker : k # l => arg'[k] = arg[k]
      /\ pc[l] = "idle" /\ pc'[l] = "downgrade"
      /\ UNCHANGED << status, mode, convertMode, compatibleFirst, list, notify, head, scan >>
  BY Zenon, <1>1 DEF CallDowngrade, Goto, TypeOK, ControlType, request
<1> QED BY Zenon, <1>1, <1>2, ControlOnly DEF InScan, Converts

\* unlock() before its first mutex.
LEMMA BeginUnlockQueues ==
  ASSUME IInv, IInv', Tallied, Waiting, NEW l \in Locker, BeginUnlock(l), pc[l] \in {"idle", "wait"}
  PROVE  Waiting'
<1>1. l \in Thread /\ TypeOK
  BY Zenon DEF Thread, IInv
<1>2. /\ \A u \in Thread : u # l => pc'[u] = pc[u]
      /\ pc'[l] \in {"idle", "unlockPartition", "unlock"}
      /\ UNCHANGED << status, mode, convertMode, compatibleFirst, list, notify, head, scan, arg >>
  BY Zenon, <1>1 DEF BeginUnlock, Goto, TypeOK, ControlType, request
<1> QED BY Zenon, <1>1, <1>2, ControlOnly DEF InScan, Converts

\* A waiter that finds its notification keeps it.
LEMMA WaitOkQueues ==
  ASSUME IInv, IInv', Tallied, Waiting, NEW l \in Locker, WaitOk(l)
  PROVE  Waiting'
<1>1. l \in Thread /\ TypeOK
  BY Zenon DEF Thread, IInv
<1>2. /\ \A u \in Thread : u # l => pc'[u] = pc[u]
      /\ pc[l] = "wait" /\ pc'[l] = "idle"
      /\ UNCHANGED << status, mode, convertMode, compatibleFirst, list, notify, head, scan, arg >>
  BY Zenon, <1>1 DEF WaitOk, Goto, TypeOK, ControlType, request
<1> QED BY Zenon, <1>1, <1>2, ControlOnly DEF InScan, Converts

\* The cleaner takes the bucket, and a head that is in use stays.
LEMMA CleanQueues ==
  ASSUME IInv, IInv', Tallied, Waiting, CleanBucket \/ (CleanHead /\ UNCHANGED head)
  PROVE  Waiting'
<1>1. Cleaner \in Thread /\ TypeOK /\ Cleaner \notin Locker
  BY Zenon, LockerAssumption DEF Thread, IInv
<1>2. /\ \A u \in Thread : u # Cleaner => pc'[u] = pc[u]
      /\ pc[Cleaner] \in {"idle", "locked"} /\ pc'[Cleaner] \in {"idle", "migrate", "locked"}
      /\ UNCHANGED << status, mode, convertMode, compatibleFirst, list, notify, head, scan, arg >>
  BY Zenon, <1>1 DEF CleanBucket, CleanHead, Goto, TypeOK, ControlType, request
<1> QED BY Zenon, <1>1, <1>2, ControlOnly DEF InScan

\* The call of lock keeps it.
LEMMA CallLockQueues ==
  ASSUME IInv, IInv', Tallied, Waiting, NEW l \in Locker, NEW m \in Asked, CallLock(l, m)
  PROVE  Waiting'
<1>1. l \in Thread /\ Locker \subseteq Thread /\ TypeOK /\ RequestOK(l)
  BY Zenon DEF Thread, IInv, Requests
<1>2. /\ \A u \in Thread : u # l => pc'[u] = pc[u]
      /\ pc[l] = "idle" /\ pc'[l] \in {"lockPartition", "lock"}
      /\ UNCHANGED << list, grantedList, grantedCounts, conflictList, conflictCounts,
                      conversionsCount, compatibleFirstCount, iter, checkConflictQueue,
                      newlyCompatibleFirst, arg >>
  BY Zenon, <1>1 DEF CallLock, Goto, TypeOK, ControlType, head, scan
<1>3. /\ OthersKept(l) /\ \A k \in Locker : k # l => compatibleFirst'[k] = compatibleFirst[k]
      /\ status'[l] = "new" /\ list[l] = None
      /\ ~IsGlobal => compatibleFirst'[l] = FALSE
  <2>1. OthersKept(l) /\ status'[l] = "new" /\ list[l] = None
    BY Zenon, <1>1, <1>2 DEF CallLock, ClearNotification, OthersKept, RequestOK, TypeOK, RequestType
  <2>2. compatibleFirst'[l] = HasPriority(m)
    BY Zenon, <1>1 DEF CallLock, TypeOK, RequestType
  <2>3. \A k \in Locker : k # l => compatibleFirst'[k] = compatibleFirst[k]
    BY Zenon, <1>1 DEF CallLock, TypeOK, RequestType
  <2>4. ~IsGlobal => HasPriority(m) = FALSE
    BY Zenon DEF HasPriority
  <2> QED BY Zenon, <2>1, <2>2, <2>3, <2>4
<1>4. Quiet
  BY Zenon, <1>1, <1>2, <1>3 DEF Quiet, OthersKept, InScan
<1>5. PrioritiesKept
  BY Zenon, <1>2, <1>3 DEF PrioritiesKept, Waiting, PolicyUnused, None
<1>6. Widening' /\ Unnotified'
  BY Zenon, <1>1, <1>2, <1>3 DEF Waiting, Widening, Unnotified, OthersKept, Converts
<1> QED BY Zenon, <1>4, <1>5, <1>6, QuietStep

\* The call of convert keeps it.
LEMMA CallConvertQueues ==
  ASSUME IInv, IInv', Tallied, Waiting, NEW l \in Locker, NEW m \in Asked, CallConvert(l, m)
  PROVE  Waiting'
<1>1. l \in Thread /\ Locker \subseteq Thread /\ TypeOK /\ RequestOK(l)
  BY Zenon DEF Thread, IInv, Requests
<1>2. /\ \A u \in Thread : u # l => pc'[u] = pc[u]
      /\ pc[l] = "idle" /\ pc'[l] \in {"idle", "convert"}
      /\ UNCHANGED << status, mode, convertMode, list, grantedList, grantedCounts, conflictList,
                      conflictCounts, conversionsCount, compatibleFirstCount, iter,
                      checkConflictQueue, newlyCompatibleFirst >>
  BY Zenon, <1>1 DEF CallConvert, Goto, TypeOK, ControlType, head, scan
<1>3. /\ status[l] = "granted" /\ recursiveCount[l] > 0
      /\ \A k \in Locker : k # l => /\ compatibleFirst'[k] = compatibleFirst[k]
                                    /\ notify'[k] = notify[k] /\ arg'[k] = arg[k]
  BY Zenon, <1>1, <1>2 DEF CallConvert, ClearNotification, RequestOK, TypeOK, RequestType,
       ControlType
<1>4. Quiet
  BY Zenon, <1>1, <1>2 DEF Quiet, InScan
<1>5. MaxRecursion # 1
  <2>1. recursiveCount[l] < MaxRecursion /\ recursiveCount[l] \in Nat
    BY <1>1 DEF CallConvert, TypeOK, RequestType
  <2> QED BY <1>3, <2>1
<1>6. ~IsGlobal => compatibleFirst'[l] = compatibleFirst[l]
  <2> SUFFICES ASSUME ~IsGlobal
               PROVE  compatibleFirst'[l] = compatibleFirst[l]
    OBVIOUS
  <2>1. compatibleFirst'[l] = (compatibleFirst[l] \/ HasPriority(m)) /\ compatibleFirst[l] = FALSE
    BY Zenon, <1>1 DEF CallConvert, TypeOK, RequestType, Waiting, PolicyUnused
  <2> QED BY Zenon, <2>1 DEF HasPriority
<1>7. PrioritiesKept
  BY Zenon, <1>2, <1>3, <1>5, <1>6 DEF PrioritiesKept, Waiting, PolicyUnused
<1>8. Unnotified'
  BY Zenon, <1>2, <1>3 DEF Waiting, Unnotified
<1>9. pc'[l] = "convert" => arg'[l] = m /\ Covers(m, mode[l])
  BY Zenon, <1>1, <1>2 DEF CallConvert, TypeOK, ControlType
<1>10. Widening'
  BY Zenon, <1>1, <1>2, <1>3, <1>9 DEF Waiting, Widening, Converts
<1> QED BY Zenon, <1>4, <1>7, <1>8, <1>10, QuietStep

\* A step of locker l on a request that is not on the head and does not wait.
LEMMA OffHead ==
  ASSUME IInv, IInv', Tallied, Waiting, NEW l \in Locker, OthersKept(l),
         UNCHANGED << grantedList, grantedCounts, conflictList, conflictCounts,
                      conversionsCount, compatibleFirstCount, arg >>,
         \A u \in Thread : u # l => pc'[u] = pc[u],
         \A k \in Locker : k # l => compatibleFirst'[k] = compatibleFirst[k],
         compatibleFirst'[l] \in {compatibleFirst[l], FALSE},
         list[l] \in {None, "partition"}, list'[l] \in {None, "partition"},
         status'[l] \in {None, "granted"}, pc'[l] = "idle",
         \/ pc[l] \notin InScan /\ UNCHANGED << iter, checkConflictQueue, newlyCompatibleFirst >>
         \/ pc[l] = "scanned" /\ newlyCompatibleFirst' = FALSE
  PROVE  Waiting'
<1>1. l \in Thread /\ Locker \subseteq Thread /\ TypeOK
  BY Zenon DEF Thread, IInv
<1>2. Widening' /\ Unnotified'
  BY Zenon, <1>1 DEF Waiting, Widening, Unnotified, OthersKept, Converts, None
<1>3. CASE pc[l] \notin InScan /\ UNCHANGED << iter, checkConflictQueue, newlyCompatibleFirst >>
  <2>1. Quiet
    BY Zenon, <1>1, <1>3 DEF Quiet, OthersKept, InScan
  <2>2. PrioritiesKept
    BY Zenon, <1>3 DEF PrioritiesKept, Waiting, PolicyUnused, None
  <2> QED BY Zenon, <1>2, <2>1, <2>2, QuietStep
<1>4. CASE pc[l] = "scanned" /\ newlyCompatibleFirst' = FALSE
  <2>1. \A u \in Thread : u # l => pc[u] \notin InCriticalSection
    BY Zenon, <1>1, <1>4, OthersOutside DEF IInv, Mutexes, InCriticalSection
  <2>2. \A u \in Thread : /\ pc[u] \notin InScan \ {"scanned"}
                          /\ pc'[u] \notin InScan \ {"scanned"}
    <3> TAKE u \in Thread
    <3>1. CASE u = l
      BY Zenon, <1>4, <3>1 DEF InScan
    <3>2. CASE u # l
      BY Zenon, <2>1, <3>2 DEF InScan, InCriticalSection
    <3> QED BY Zenon, <3>1, <3>2
  <2>3. Quiet
    BY Zenon, <2>2 DEF Quiet, OthersKept
  <2>4. PrioritiesKept
    BY Zenon, <1>4 DEF PrioritiesKept, None
  <2> QED BY Zenon, <1>2, <2>3, <2>4, QuietStep
<1> QED BY Zenon, <1>3, <1>4

\* A grant in a partition keeps it.
LEMMA LockPartitionQueues ==
  ASSUME IInv, IInv', Tallied, Waiting, NEW l \in Locker, LockPartition(l)
  PROVE  Waiting'
<1>1. l \in Thread /\ TypeOK /\ RequestOK(l) /\ pc[l] = "lockPartition"
  BY Zenon DEF Thread, IInv, Requests, LockPartition
<1>2. \A u \in Thread : u # l => pc'[u] = pc[u]
  BY Zenon, <1>1 DEF LockPartition, Goto, TypeOK, ControlType
<1>3. CASE ~partExists[PartitionOf[l]]
  <2>1. /\ pc'[l] = "lock"
        /\ UNCHANGED << status, mode, convertMode, compatibleFirst, list, notify, head, scan, arg >>
    BY Zenon, <1>1, <1>3 DEF LockPartition, Goto, TypeOK, ControlType, request
  <2> QED BY Zenon, <1>1, <1>2, <2>1, ControlOnly DEF InScan, Converts
<1>4. CASE partExists[PartitionOf[l]]
  <2>1. /\ pc'[l] = "idle" /\ PartitionNewRequest(l)
        /\ UNCHANGED << grantedList, grantedCounts, conflictList, conflictCounts,
                        conversionsCount, compatibleFirstCount, arg, iter, checkConflictQueue,
                        newlyCompatibleFirst >>
    BY Zenon, <1>1, <1>4 DEF LockPartition, Goto, TypeOK, ControlType, head, scan
  <2>2. /\ OthersKept(l) /\ UNCHANGED compatibleFirst /\ list[l] = None
        /\ list'[l] = "partition" /\ status'[l] = "granted"
    BY Zenon, <1>1, <2>1 DEF PartitionNewRequest, OthersKept, TypeOK, RequestType, RequestOK
  <2> QED BY Zenon, <1>1, <1>2, <2>1, <2>2, OffHead DEF InScan
<1> QED BY Zenon, <1>3, <1>4

\* The start of a partition keeps it.
LEMMA StartPartitionQueues ==
  ASSUME IInv, IInv', Tallied, Waiting, NEW l \in Locker, StartPartition(l)
  PROVE  Waiting'
<1>1. l \in Thread /\ TypeOK /\ RequestOK(l) /\ pc[l] = "startPartition"
  BY Zenon DEF Thread, IInv, Requests, StartPartition
<1>2. /\ \A u \in Thread : u # l => pc'[u] = pc[u]
      /\ pc'[l] = "idle" /\ PartitionNewRequest(l)
      /\ UNCHANGED << grantedList, grantedCounts, conflictList, conflictCounts,
                      conversionsCount, compatibleFirstCount, arg, iter, checkConflictQueue,
                      newlyCompatibleFirst >>
  BY Zenon, <1>1 DEF StartPartition, Goto, TypeOK, ControlType, head, scan
<1>3. /\ OthersKept(l) /\ UNCHANGED compatibleFirst /\ list[l] = None
      /\ list'[l] = "partition" /\ status'[l] = "granted"
  BY Zenon, <1>1, <1>2 DEF PartitionNewRequest, OthersKept, TypeOK, RequestType, RequestOK
<1> QED BY Zenon, <1>1, <1>2, <1>3, OffHead DEF InScan

\* A release in a partition keeps it.
LEMMA UnlockPartitionQueues ==
  ASSUME IInv, IInv', Tallied, Waiting, NEW l \in Locker, UnlockPartition(l)
  PROVE  Waiting'
<1>1. l \in Thread /\ TypeOK /\ RequestOK(l) /\ pc[l] = "unlockPartition"
  BY Zenon DEF Thread, IInv, Requests, UnlockPartition
<1>2. \A u \in Thread : u # l => pc'[u] = pc[u]
  BY Zenon, <1>1 DEF UnlockPartition, Goto, TypeOK, ControlType
<1>3. CASE list[l] # "partition"
  <2>1. /\ pc'[l] = "unlock"
        /\ UNCHANGED << status, mode, convertMode, compatibleFirst, list, notify, head, scan, arg >>
    BY Zenon, <1>1, <1>3 DEF UnlockPartition, Goto, TypeOK, ControlType
  <2> QED BY Zenon, <1>1, <1>2, <2>1, ControlOnly DEF InScan, Converts
<1>4. CASE list[l] = "partition"
  <2>1. /\ pc'[l] = "idle" /\ Forget(l) /\ list' = [list EXCEPT ![l] = None]
        /\ UNCHANGED << convertMode, recursiveCount, grantedList, grantedCounts, conflictList,
                        conflictCounts, conversionsCount, compatibleFirstCount, arg, iter,
                        checkConflictQueue, newlyCompatibleFirst >>
    BY Zenon, <1>1, <1>4 DEF UnlockPartition, Goto, TypeOK, ControlType, head, scan
  <2>2. OthersKept(l) /\ list'[l] = None /\ status'[l] = None
    BY Zenon, <1>1, <2>1 DEF Forget, OthersKept, TypeOK, RequestType
  <2>3. /\ compatibleFirst'[l] = FALSE
        /\ \A k \in Locker : k # l => compatibleFirst'[k] = compatibleFirst[k]
    BY Zenon, <1>1, <2>1 DEF Forget, TypeOK, RequestType
  <2> QED BY Zenon, <1>1, <1>2, <1>4, <2>1, <2>2, <2>3, OffHead DEF InScan
<1> QED BY Zenon, <1>3, <1>4

\* The end of a scan keeps it.
LEMMA FinishScanQueues ==
  ASSUME IInv, IInv', Tallied, Waiting, NEW l \in Locker, FinishScan(l)
  PROVE  Waiting'
<1>1. l \in Thread /\ Locker \subseteq Thread /\ TypeOK /\ RequestOK(l) /\ pc[l] = "scanned"
  BY Zenon DEF Thread, IInv, Requests, FinishScan
<1>2. /\ \A u \in Thread : u # l => pc'[u] = pc[u]
      /\ pc'[l] = "idle" /\ newlyCompatibleFirst' = FALSE
      /\ UNCHANGED << convertMode, recursiveCount, list, grantedList, grantedCounts, conflictList,
                      conflictCounts, conversionsCount, compatibleFirstCount, arg >>
  BY Zenon, <1>1 DEF FinishScan, Goto, TypeOK, ControlType, head
<1>3. CASE recursiveCount[l] = 0
  <2>0. ~(recursiveCount[l] > 0)
    BY <1>3
  <2>1. Forget(l) /\ list[l] = None
    BY Zenon, <1>1, <1>3, <2>0 DEF FinishScan, RequestOK, InScan
  <2>2. OthersKept(l) /\ status'[l] = None
    BY Zenon, <1>1, <1>2, <2>1 DEF Forget, OthersKept, TypeOK, RequestType
  <2>3. /\ compatibleFirst'[l] = FALSE
        /\ \A k \in Locker : k # l => compatibleFirst'[k] = compatibleFirst[k]
    BY Zenon, <1>1, <2>1 DEF Forget, TypeOK, RequestType
  <2> QED BY Zenon, <1>1, <1>2, <2>1, <2>2, <2>3, OffHead
<1>4. CASE recursiveCount[l] > 0
  <2>1. UNCHANGED << status, mode, compatibleFirst, notify >>
    <3>1. recursiveCount[l] # 0
      BY <1>4
    <3> QED BY Zenon, <3>1 DEF FinishScan
  <2>2. \A u \in Thread : u # l => pc[u] \notin InCriticalSection
    BY Zenon, <1>1, OthersOutside DEF IInv, Mutexes, InCriticalSection
  <2>3. Quiet
    BY Zenon, <1>1, <1>2, <2>1, <2>2 DEF Quiet, InScan, InCriticalSection
  <2>4. PrioritiesKept
    BY Zenon, <1>2, <2>1 DEF PrioritiesKept
  <2>5. Widening' /\ Unnotified'
    BY Zenon, <1>1, <1>2, <2>1 DEF Waiting, Widening, Unnotified, Converts
  <2> QED BY Zenon, <2>3, <2>4, <2>5, QuietStep
<1> QED BY Zenon, <1>1, <1>3, <1>4 DEF FinishScan

-----------------------------------------------------------------------------
(* Steps that change the lock head, part by part.                          *)

\* The granted list when locker l joins it, leaves it, or neither.
LEMMA GrantedStep ==
  ASSUME IInv, GrantedExact, NEW l \in Locker, OthersKept(l),
         \/ /\ list[l] # "granted" /\ list'[l] = "granted"
            /\ grantedList' = Append(grantedList, l)
         \/ /\ list[l] = "granted" /\ list'[l] # "granted"
            /\ grantedList' = RemoveRequest(grantedList, l)
         \/ (list'[l] = "granted" <=> list[l] = "granted") /\ grantedList' = grantedList
  PROVE  GrantedExact'
<1>1. grantedList \in Seq(Locker) /\ \A i \in DOMAIN grantedList : grantedList[i] \in Locker
  BY DEF IInv, TypeOK, HeadType
<1>2. (\A k \in Locker : k # l => list'[k] = list[k]) /\ NoRepeats(grantedList)
  BY Zenon DEF OthersKept, GrantedExact
<1>3. CASE list[l] # "granted" /\ list'[l] = "granted" /\ grantedList' = Append(grantedList, l)
  <2>1. \A i \in DOMAIN grantedList : grantedList[i] # l
    BY Zenon, <1>3 DEF GrantedExact
  <2>2. LET s == Append(grantedList, l)
        IN /\ NoRepeats(s)
           /\ \A j \in DOMAIN s : s[j] = l \/ \E k \in DOMAIN grantedList : s[j] = grantedList[k]
           /\ \A k \in DOMAIN grantedList : \E j \in DOMAIN s : s[j] = grantedList[k]
           /\ \E j \in DOMAIN s : s[j] = l
    BY ZenonT(60), <1>1, <1>2, <2>1, AppendFacts
  <2>3. /\ NoRepeats(grantedList')
        /\ \A j \in DOMAIN grantedList' :
             grantedList'[j] = l \/ \E k \in DOMAIN grantedList : grantedList'[j] = grantedList[k]
        /\ \A k \in DOMAIN grantedList : \E j \in DOMAIN grantedList' : grantedList'[j] = grantedList[k]
        /\ \E j \in DOMAIN grantedList' : grantedList'[j] = l
    BY Zenon, <1>3, <2>2
  <2>4. \A j \in DOMAIN grantedList' : list'[grantedList'[j]] = "granted"
    <3> TAKE j \in DOMAIN grantedList'
    <3>1. CASE grantedList'[j] = l
      BY Zenon, <1>3, <3>1
    <3>2. CASE \E k \in DOMAIN grantedList : grantedList'[j] = grantedList[k]
      BY Zenon, <1>1, <1>2, <2>1, <3>2 DEF GrantedExact
    <3> QED BY Zenon, <2>3, <3>1, <3>2
  <2>5. ASSUME NEW k \in Locker, list'[k] = "granted"
        PROVE  \E j \in DOMAIN grantedList' : grantedList'[j] = k
    <3>1. CASE k = l
      BY Zenon, <2>3, <3>1
    <3>2. CASE k # l
      <4>1. PICK i \in DOMAIN grantedList : grantedList[i] = k
        BY Zenon, <1>2, <2>5, <3>2 DEF GrantedExact
      <4> QED BY Zenon, <2>3, <4>1
    <3> QED BY Zenon, <3>1, <3>2
  <2> QED BY Zenon, <2>3, <2>4, <2>5 DEF GrantedExact
<1>4. CASE list[l] = "granted" /\ list'[l] # "granted" /\ grantedList' = RemoveRequest(grantedList, l)
  <2>1. \E i \in DOMAIN grantedList : grantedList[i] = l
    BY Zenon, <1>4 DEF GrantedExact
  <2>2. LET s == RemoveRequest(grantedList, l)
        IN /\ NoRepeats(s)
           /\ \A j \in DOMAIN s : s[j] # l /\ \E k \in DOMAIN grantedList : s[j] = grantedList[k]
           /\ \A k \in DOMAIN grantedList : grantedList[k] # l => \E j \in DOMAIN s : s[j] = grantedList[k]
    BY ZenonT(60), <1>1, <1>2, <2>1, RemoveRequestFacts
  <2>3. /\ NoRepeats(grantedList')
        /\ \A j \in DOMAIN grantedList' :
             /\ grantedList'[j] # l
             /\ \E k \in DOMAIN grantedList : grantedList'[j] = grantedList[k]
        /\ \A k \in DOMAIN grantedList :
             grantedList[k] # l => \E j \in DOMAIN grantedList' : grantedList'[j] = grantedList[k]
    BY Zenon, <1>4, <2>2
  <2>4. ASSUME NEW j \in DOMAIN grantedList'
        PROVE  list'[grantedList'[j]] = "granted"
    <3>1. PICK k \in DOMAIN grantedList : grantedList'[j] = grantedList[k]
      BY Zenon, <2>3
    <3>2. grantedList[k] \in Locker /\ grantedList[k] # l /\ list[grantedList[k]] = "granted"
      BY Zenon, <1>1, <2>3, <3>1 DEF GrantedExact
    <3> QED BY Zenon, <1>2, <3>1, <3>2
  <2>5. ASSUME NEW k \in Locker, list'[k] = "granted"
        PROVE  \E j \in DOMAIN grantedList' : grantedList'[j] = k
    <3>1. k # l
      BY Zenon, <1>4, <2>5
    <3>2. PICK i \in DOMAIN grantedList : grantedList[i] = k
      BY Zenon, <1>2, <2>5, <3>1 DEF GrantedExact
    <3> QED BY Zenon, <2>3, <3>1, <3>2
  <2> QED BY Zenon, <2>3, <2>4, <2>5 DEF GrantedExact
<1>5. CASE (list'[l] = "granted" <=> list[l] = "granted") /\ grantedList' = grantedList
  <2>1. \A k \in Locker : list'[k] = "granted" <=> list[k] = "granted"
    BY Zenon, <1>2, <1>5
  <2> QED BY Zenon, <1>1, <1>5, <2>1 DEF GrantedExact, NoRepeats
<1> QED BY Zenon, <1>3, <1>4, <1>5

\* The queue when locker l joins it, leaves it, or neither.
LEMMA QueueExactStep ==
  ASSUME IInv, QueueExact, NEW l \in Locker, OthersKept(l),
         \A i \in DOMAIN conflictList : conflictList[i] # l =>
           \E j \in DOMAIN conflictList' : conflictList'[j] = conflictList[i],
         list'[l] = "conflict" => \E j \in DOMAIN conflictList' : conflictList'[j] = l
  PROVE  QueueExact'
<1>1. \A k \in Locker : k # l => list'[k] = list[k]
  BY Zenon DEF OthersKept
<1> SUFFICES ASSUME NEW k \in Locker, list'[k] = "conflict", k # l
             PROVE  \E j \in DOMAIN conflictList' : conflictList'[j] = k
  BY Zenon DEF QueueExact
<1>2. PICK i \in DOMAIN conflictList : conflictList[i] = k
  BY Zenon, <1>1 DEF QueueExact
<1> QED BY Zenon, <1>2

\* The members of a list to whose front a request is put.
LEMMA PrependMembers ==
  ASSUME NEW s \in Seq(Locker), NEW l \in Locker
  PROVE  LET t == << l >> \o s
         IN /\ \A i \in DOMAIN s : \E j \in DOMAIN t : t[j] = s[i]
            /\ \E j \in DOMAIN t : t[j] = l
            /\ t # << >>
<1> DEFINE t == << l >> \o s
<1>1. /\ t \in Seq(Locker) /\ Len(t) = Len(s) + 1 /\ Len(s) \in Nat /\ DOMAIN s = 1 .. Len(s)
      /\ DOMAIN t = 1 .. Len(s) + 1 /\ t[1] = l
  OBVIOUS
<1>2. \A i \in 1 .. Len(s) : t[i + 1] = s[i]
  OBVIOUS
<1> HIDE DEF t
<1>3. 1 \in DOMAIN t /\ t # << >>
  BY <1>1
<1>4. \A i \in DOMAIN s : i + 1 \in DOMAIN t /\ t[i + 1] = s[i]
  BY <1>1, <1>2
<1>5. \A i \in DOMAIN s : \E j \in DOMAIN t : t[j] = s[i]
  BY Zenon, <1>4
<1> QED BY Zenon, <1>1, <1>3, <1>5 DEF t

\* The policy count follows the request of locker l.
LEMMA PolicyStep ==
  ASSUME Tallied, PolicyCounted, NEW l \in Locker, OthersKept(l), UNCHANGED compatibleFirst,
         \/ /\ list[l] # "granted" /\ list'[l] = "granted"
            /\ compatibleFirstCount' = PolicyCount(l, 1)
         \/ /\ list[l] = "granted" /\ list'[l] # "granted"
            /\ compatibleFirstCount' = PolicyCount(l, -1)
         \/ /\ list'[l] = "granted" <=> list[l] = "granted"
            /\ compatibleFirstCount' = compatibleFirstCount
  PROVE  PolicyCounted'
  BY Zenon DEF Tallied, PolicyFollows

\* Without priorities the policy count and the scan have nothing to keep.
LEMMA PolicyUnusedStep ==
  ASSUME PolicyUnused, UNCHANGED compatibleFirst,
         ~IsGlobal => newlyCompatibleFirst' = FALSE,
         compatibleFirstCount' = compatibleFirstCount \/
           \E l \in Locker, d \in {1, -1} : compatibleFirstCount' = PolicyCount(l, d),
         ~IsGlobal => \A t \in Thread : pc'[t] = "scanConflicts" =>
                        iter' = 1 \/ (pc[t] = "scanConflicts" /\ iter' = iter)
  PROVE  PolicyUnused'
<1>1. ~IsGlobal => compatibleFirstCount' = 0
  BY Zenon DEF PolicyUnused, PolicyCount
<1> QED BY Zenon, <1>1 DEF PolicyUnused

\* A list of waiters that is empty has no modes.
LEMMA EmptyQueue ==
  ASSUME HeldCounted, QueueExact, conflictList = << >>
  PROVE  ConflictModes = {}
<1>1. DOMAIN conflictList = {}
  OBVIOUS
<1> QED BY Zenon, <1>1 DEF QueueExact, HeldCounted

\* Conversions when the counts of the others' modes grow and nobody scans.
LEMMA ConversionsStep ==
  ASSUME IInv, IInv', Tallied, ConversionsBlocked, NEW l \in Locker, OthersKept(l),
         \A k \in Locker : ~ToScan(k), status'[l] # "converting",
         \A k \in Locker : k # l /\ list'[k] = "granted" => OthersCovered(k)
  PROVE  ConversionsBlocked'
<1> SUFFICES ASSUME NEW k \in Locker, status'[k] = "converting"
             PROVE  conflicts(convertMode'[k], OtherModes(k)')
  BY Zenon DEF ConversionsBlocked
<1>1. k # l /\ status[k] = "converting" /\ convertMode'[k] = convertMode[k] /\ list'[k] = "granted"
  BY Zenon DEF OthersKept, IInv, Requests, RequestOK
<1>2. conflicts(convertMode[k], OtherModes(k)) /\ OthersCovered(k)
  BY Zenon, <1>1 DEF ConversionsBlocked
<1> QED BY Zenon, <1>1, <1>2, ConversionStep

-----------------------------------------------------------------------------
(* New requests on the lock head.                                          *)

\* newRequest grants the request of locker l, in a step of thread t.
LEMMA NewRequestGrantedQueues ==
  ASSUME IInv, IInv', Tallied, Waiting, NEW t \in Thread, NEW l \in Locker,
         NewRequest(l), NewRequestGranted(l), UNCHANGED << arg, scan >>,
         list[l] \in {None, "partition"}, mode[l] \in Mode,
         bucketMutex = t, pc[t] \notin InScan,
         \A u \in Thread : u # t => pc'[u] = pc[u],
         pc'[t] = pc[t] \/ pc'[t] = "idle", OthersKept(l)
  PROVE  Waiting'
<1>1. Locker \subseteq Thread /\ TypeOK /\ HeadType /\ HeadType'
  BY Zenon DEF Thread, IInv, TypeOK
<1>2. /\ UNCHANGED << mode, convertMode, compatibleFirst, notify, conflictList >>
      /\ grantedCounts' = Inc(grantedCounts, mode[l])
      /\ grantedList' = Append(grantedList, l)
      /\ compatibleFirstCount' = PolicyCount(l, 1)
      /\ list'[l] = "granted" /\ status'[l] = "granted"
  BY Zenon, <1>1 DEF NewRequest, NewRequestGranted, TypeOK, RequestType
<1>3. ~QueueToScan /\ \A k \in Locker : ~ToScan(k)
  BY Zenon, NobodyScans
<1>4. \A m \in Mode : grantedCounts'[m] >= grantedCounts[m]
  <2>1. grantedCounts \in [Mode -> Nat]
    BY Zenon, <1>1 DEF HeadType
  <2>2. \A m \in Mode : grantedCounts'[m] = grantedCounts[m] + Bit(mode[l] = m)
    BY <1>2, <2>1 DEF Inc, Bit
  <2> QED BY <2>1, <2>2 DEF Bit
<1>5. GrantsCovered /\ \A k \in Locker : OthersCovered(k)
  BY Zenon, <1>1, <1>2, <1>4, GrowingCovers
<1>6. ListsExact'
  <2>1. GrantedExact'
    BY Zenon, <1>2, GrantedStep DEF Waiting, ListsExact, None
  <2>2. QueueExact'
    BY Zenon, <1>2, QueueExactStep DEF Waiting, ListsExact
  <2> QED BY Zenon, <2>1, <2>2 DEF ListsExact
<1>7. Widening' /\ Unnotified'
  BY ZenonT(60), <1>1, <1>2 DEF Waiting, Widening, Unnotified, OthersKept, Converts
<1>8. PolicyUnused'
  <2>1. ~IsGlobal => newlyCompatibleFirst' = FALSE
    BY Zenon DEF Waiting, PolicyUnused, scan
  <2>2. \A u \in Thread : pc'[u] = "scanConflicts" => pc[u] = "scanConflicts" /\ iter' = iter
    BY Zenon DEF scan, InScan
  <2> QED BY Zenon, <1>2, <2>1, <2>2, PolicyUnusedStep DEF Waiting
<1>9. PolicyCounted'
  BY Zenon, <1>2, PolicyStep DEF Waiting, None
<1>10. QueueBlocked'
  BY Zenon, <1>2, <1>3, <1>5, QueueStep DEF Waiting, QueueBlocked
<1>11. ConversionsBlocked'
  BY Zenon, <1>2, <1>3, <1>5, ConversionsStep DEF Waiting
<1> QED BY Zenon, <1>6, <1>7, <1>8, <1>9, <1>10, <1>11 DEF Waiting

\* A new request that is granted at once keeps it.
LEMMA LockOnHeadGrantsQueues ==
  ASSUME IInv, IInv', Tallied, Waiting, NEW l \in Locker, LockOnHead(l), NewRequestGranted(l)
  PROVE  Waiting'
<1>1. l \in Thread /\ TypeOK /\ RequestOK(l) /\ pc[l] = "locked" /\ arg[l] = None
  BY Zenon DEF Thread, IInv, Requests, LockOnHead
<1>2. bucketMutex = l /\ list[l] = None /\ mode[l] \in Mode
  <2>1. bucketMutex = l
    BY Zenon, <1>1 DEF IInv, Mutexes, InCriticalSection
  <2>2. status[l] = "new" /\ list[l] = None
    BY Zenon, <1>1 DEF RequestOK
  <2>3. mode[l] # None
    BY Zenon, <1>1, <2>2 DEF RequestOK, None
  <2> QED BY Zenon, <1>1, <2>1, <2>2, <2>3 DEF TypeOK, RequestType
<1>3. /\ NewRequest(l) /\ UNCHANGED << arg, scan >> /\ OthersKept(l)
  BY Zenon, <1>1 DEF LockOnHead, NewRequest, NewRequestGranted, OthersKept, TypeOK, RequestType
<1>4. pc'[l] = "idle" /\ \A u \in Thread : u # l => pc'[u] = pc[u]
  BY Zenon, <1>1 DEF LockOnHead, NewRequestGranted, Goto, TypeOK, ControlType
<1> QED BY Zenon, <1>1, <1>2, <1>3, <1>4, NewRequestGrantedQueues DEF InScan

\* The migration of one request keeps it.
LEMMA MigrateRequestQueues ==
  ASSUME IInv, IInv', Tallied, Waiting, NEW t \in Thread, MigrateRequest(t)
  PROVE  Waiting'
<1> DEFINE p == Last(partitions)
           l == Head(partGranted[p])
<1>1. /\ TypeOK /\ pc[t] = "migrating" /\ partGranted[p] # << >> /\ bucketMutex = t
      /\ NewRequest(l) /\ UNCHANGED << pc, arg, scan, partitioned >>
  BY Zenon DEF IInv, MigrateRequest, Mutexes, InCriticalSection
<1>2. partitions # << >> /\ IntentOnly
  BY Zenon, <1>1 DEF IInv, Migration, Partitions, InMigration
<1>3. p \in Partition
  BY <1>1, <1>2 DEF Last, TypeOK, PartitionType
<1> HIDE DEF p
<1>4. /\ partGranted[p] \in Seq(Locker) /\ NoRepeats(partGranted[p])
      /\ \A i \in DOMAIN partGranted[p] : list[partGranted[p][i]] = "partition"
  BY Zenon, <1>1, <1>3 DEF IInv, Lists, TypeOK, PartitionType
<1>5. l \in Locker /\ list[l] = "partition"
  BY ZenonT(60), <1>1, <1>4, TailFacts
<1>6. mode[l] \in Intent /\ mode[l] \in Mode
  BY Zenon, <1>5 DEF IInv, Lists, Intent, Mode
<1>7. ~MustWait(l)
  <2>1. ~conflicts(mode[l], GrantedModes)
    BY Zenon, <1>2, <1>6, Symmetric DEF conflicts, IntentOnly, Intent, Mode
  <2>2. ~conflicts(mode[l], ConflictModes)
    BY Zenon, <1>2 DEF conflicts, IntentOnly
  <2> QED BY Zenon, <2>1, <2>2 DEF MustWait
<1> HIDE DEF l
<1>8. NewRequestGranted(l)
  BY Zenon, <1>1, <1>7 DEF NewRequest, NewRequestWaits
<1>9. OthersKept(l)
  BY Zenon, <1>1, <1>8 DEF NewRequest, NewRequestGranted, OthersKept, TypeOK, RequestType
<1> QED BY Zenon, <1>1, <1>5, <1>6, <1>8, <1>9, NewRequestGrantedQueues DEF InScan

\* A new request that joins the conflict list keeps it.
LEMMA LockOnHeadWaitsQueues ==
  ASSUME IInv, IInv', Tallied, Waiting, NEW l \in Locker, LockOnHead(l), NewRequestWaits(l)
  PROVE  Waiting'
<1>1. /\ l \in Thread /\ Locker \subseteq Thread /\ TypeOK /\ RequestOK(l) /\ HeadType /\ HeadType'
      /\ pc[l] = "locked" /\ arg[l] = None
  BY Zenon DEF Thread, IInv, Requests, LockOnHead, TypeOK
<1>2. bucketMutex = l /\ list[l] = None /\ mode[l] \in Mode /\ notify[l] = "invalid"
  <2>1. bucketMutex = l
    BY Zenon, <1>1 DEF IInv, Mutexes, InCriticalSection
  <2>2. status[l] = "new" /\ list[l] = None /\ notify[l] = "invalid"
    BY Zenon, <1>1 DEF RequestOK
  <2>3. mode[l] # None
    BY Zenon, <1>1, <2>2 DEF RequestOK, None
  <2> QED BY Zenon, <1>1, <2>1, <2>2, <2>3 DEF TypeOK, RequestType
<1>3. OthersKept(l) /\ list'[l] = "conflict" /\ status'[l] = "waiting"
  BY Zenon, <1>1 DEF LockOnHead, NewRequest, NewRequestWaits, OthersKept, TypeOK, RequestType
<1>4. /\ UNCHANGED << mode, convertMode, compatibleFirst, notify, grantedList, grantedCounts,
                      compatibleFirstCount, arg, iter, checkConflictQueue, newlyCompatibleFirst >>
      /\ conflictList' = IF compatibleFirst[l] THEN << l >> \o conflictList
                                               ELSE Append(conflictList, l)
  BY Zenon DEF LockOnHead, NewRequest, NewRequestWaits, scan
<1>5. pc'[l] = "wait" /\ \A u \in Thread : u # l => pc'[u] = pc[u]
  BY Zenon, <1>1 DEF LockOnHead, NewRequestWaits, Goto, TypeOK, ControlType
<1>6. ~QueueToScan /\ \A k \in Locker : ~ToScan(k)
  BY Zenon, <1>1, <1>2, NobodyScans DEF InScan
<1>7. GrantsCovered /\ \A k \in Locker : OthersCovered(k)
  BY Zenon, <1>4, CoversItself DEF GrantsCovered, OthersCovered, GrantedModes, OtherModes
<1>8. /\ \A i \in DOMAIN conflictList : \E j \in DOMAIN conflictList' : conflictList'[j] = conflictList[i]
      /\ \E j \in DOMAIN conflictList' : conflictList'[j] = l
      /\ conflictList' # << >>
  <2>1. CASE compatibleFirst[l]
    <3>1. LET s == << l >> \o conflictList
          IN /\ \A k \in DOMAIN conflictList : \E j \in DOMAIN s : s[j] = conflictList[k]
             /\ \E j \in DOMAIN s : s[j] = l
             /\ s # << >>
      BY Zenon, OnConflictList, PrependMembers
    <3>2. conflictList' = << l >> \o conflictList
      BY Zenon, <1>4, <2>1
    <3> QED BY Zenon, <3>1, <3>2
  <2>2. CASE ~compatibleFirst[l]
    <3>1. \A i \in DOMAIN conflictList : conflictList[i] # l
      BY Zenon, <1>2, OnConflictList DEF None
    <3>2. LET s == Append(conflictList, l)
          IN /\ \A k \in DOMAIN conflictList : \E j \in DOMAIN s : s[j] = conflictList[k]
             /\ \E j \in DOMAIN s : s[j] = l
             /\ s # << >>
      BY Zenon, <3>1, OnConflictList, AppendFacts
    <3>3. conflictList' = Append(conflictList, l)
      BY Zenon, <1>4, <2>2
    <3> QED BY Zenon, <3>2, <3>3
  <2> QED BY Zenon, <2>1, <2>2
<1>9. ListsExact'
  <2>1. GrantedExact'
    BY Zenon, <1>2, <1>3, <1>4, GrantedStep DEF Waiting, ListsExact, None
  <2>2. QueueExact'
    BY Zenon, <1>3, <1>8, QueueExactStep DEF Waiting, ListsExact
  <2> QED BY Zenon, <2>1, <2>2 DEF ListsExact
<1>10. Widening' /\ Unnotified'
  BY Zenon, <1>1, <1>2, <1>3, <1>4, <1>5 DEF Waiting, Widening, Unnotified, OthersKept, Converts
<1>11. PolicyUnused'
  <2>1. ~IsGlobal => newlyCompatibleFirst' = FALSE
    BY Zenon, <1>4 DEF Waiting, PolicyUnused
  <2>2. \A u \in Thread : pc'[u] = "scanConflicts" => pc[u] = "scanConflicts" /\ iter' = iter
    BY Zenon, <1>4, <1>5
  <2> QED BY Zenon, <1>4, <2>1, <2>2, PolicyUnusedStep DEF Waiting
<1>12. PolicyCounted'
  BY Zenon, <1>2, <1>3, <1>4, PolicyStep DEF Waiting, None
<1>13. QueueBlocked'
  <2>1. CASE conflictList = << >>
    <3>1. ConflictModes = {}
      BY Zenon, <2>1, EmptyQueue, HeldAreCounted DEF Waiting, ListsExact
    <3>2. conflicts(mode[l], GrantedModes)
      BY Zenon, <3>1 DEF NewRequestWaits, MustWait, conflicts
    <3>3. conflictList'[1] = l
      BY <1>4, <2>1
    <3>4. GrantedModes' = GrantedModes /\ mode' = mode
      BY Zenon, <1>4 DEF GrantedModes
    <3>5. GrantedModes # {}
      BY Zenon, <3>2 DEF conflicts
    <3> QED BY Zenon, <3>2, <3>3, <3>4, <3>5 DEF QueueBlocked, FrontBlocked
  <2>2. CASE conflictList # << >>
    <3>1. FrontBlocked
      BY Zenon, <1>6, <2>2 DEF Waiting, QueueBlocked
    <3>2. ~IsGlobal => conflictList'[1] = conflictList[1]
      <4>1. ~IsGlobal => conflictList' = Append(conflictList, l)
        BY Zenon, <1>4 DEF Waiting, PolicyUnused
      <4> QED BY SMTT(30), <2>2, <4>1, OnConflictList
    <3> QED BY ZenonT(60), <1>1, <1>4, <1>7, <1>8, <2>2, <3>1, <3>2, QueueStep
  <2> QED BY Zenon, <2>1, <2>2
<1>14. ConversionsBlocked'
  BY Zenon, <1>3, <1>6, <1>7, ConversionsStep DEF Waiting
<1> QED BY Zenon, <1>9, <1>10, <1>11, <1>12, <1>13, <1>14 DEF Waiting

-----------------------------------------------------------------------------
(* Cardinalities of sets of lockers, and what IInv says of the counts.     *)

\* Sets of lockers have a number of members.
LEMMA SubsetsCount ==
  ASSUME Cardinals, NEW S \in SUBSET Locker
  PROVE  Cardinality(S) \in Nat
  BY Zenon DEF Cardinals

\* The empty set has none.
LEMMA EmptyCount ==
  ASSUME Cardinals
  PROVE  Cardinality({}) = 0
  BY Zenon DEF Cardinals

\* A new member adds one to the cardinality.
LEMMA AddOne ==
  ASSUME Cardinals, NEW S \in SUBSET Locker, NEW l \in Locker, l \notin S
  PROVE  Cardinality(S \cup {l}) = Cardinality(S) + 1
  BY Zenon DEF Cardinals

\* Removing a member takes one off the cardinality.
LEMMA RemoveOne ==
  ASSUME Cardinals, NEW S \in SUBSET Locker, NEW l \in S
  PROVE  Cardinality(S \ {l}) = Cardinality(S) - 1 /\ Cardinality(S) > 0
<1>1. Cardinality(S \ {l}) = Cardinality(S) - 1
  BY Zenon DEF Cardinals
<1>2. Cardinality(S \ {l}) \in Nat
  BY Zenon, SubsetsCount
<1> QED BY <1>1, <1>2, SubsetsCount

\* A set with two members has a cardinality of two or more.
LEMMA TwoMembers ==
  ASSUME Cardinals, NEW S \in SUBSET Locker, NEW l \in S, NEW k \in S, l # k
  PROVE  Cardinality(S) > 1
<1>1. Cardinality(S) = Cardinality(S \ {l}) + 1
  BY RemoveOne, SubsetsCount
<1>2. Cardinality(S \ {l}) > 0
  BY Zenon, RemoveOne
<1> QED BY <1>1, <1>2, SubsetsCount

\* How the cardinality of a set follows one locker that joins or leaves.
LEMMA Delta ==
  ASSUME Cardinals, NEW S \in SUBSET Locker, NEW T \in SUBSET Locker, NEW l \in Locker,
         \A k \in Locker : k # l => (k \in S <=> k \in T)
  PROVE  Cardinality(T) = Cardinality(S) + Bit(l \in T) - Bit(l \in S)
<1>0. Cardinality(S) \in Nat /\ Cardinality(T) \in Nat
  BY Zenon, SubsetsCount
<1>1. CASE l \in S /\ l \notin T
  <2>1. T = S \ {l}
    BY Zenon, <1>1
  <2> QED BY <1>0, <1>1, <2>1, RemoveOne DEF Bit
<1>2. CASE l \notin S /\ l \in T
  <2>1. T = S \cup {l}
    BY Zenon, <1>2
  <2> QED BY SMTT(30), <1>0, <1>2, <2>1, AddOne DEF Bit
<1>3. CASE l \in S <=> l \in T
  <2>1. T = S
    BY <1>3
  <2> QED BY <1>0, <1>3, <2>1 DEF Bit
<1> QED BY Zenon, <1>1, <1>2, <1>3

\* A request that hangs on the lock head is counted.
LEMMA CountedHolds ==
  ASSUME Cardinals, IInv, NEW l \in Locker
  PROVE  RequestCounted(l)
<1> USE DEF IInv, Requests
<1>1. list[l] # None => mode[l] \in Mode /\ status[l] # None
  BY Zenon DEF TypeOK, RequestType, RequestOK
<1>2. \A m \in Mode : /\ Cardinality(GrantedIn(m)) \in Nat
                      /\ Cardinality(ConvertingTo(m)) \in Nat
                      /\ Cardinality(WaitingFor(m)) \in Nat
  BY Zenon, SubsetsCount DEF GrantedIn, ConvertingTo, WaitingFor
<1>3. ASSUME list[l] = "granted"
      PROVE  mode[l] \in GrantedModes /\ grantedCounts[mode[l]] > 0
  <2>1. l \in GrantedIn(mode[l]) /\ GrantedIn(mode[l]) \in SUBSET Locker /\ mode[l] \in Mode
    BY Zenon, <1>1, <1>3 DEF GrantedIn, None
  <2>2. Cardinality(GrantedIn(mode[l])) > 0
    BY Zenon, <2>1, RemoveOne
  <2> QED BY SMTT(30), <1>2, <2>1, <2>2 DEF Counts, GrantedModes
<1>4. ASSUME list[l] = "conflict"
      PROVE  mode[l] \in ConflictModes /\ conflictCounts[mode[l]] > 0
  <2>1. l \in WaitingFor(mode[l]) /\ WaitingFor(mode[l]) \in SUBSET Locker /\ mode[l] \in Mode
    BY Zenon, <1>1, <1>4 DEF WaitingFor, None
  <2>2. Cardinality(WaitingFor(mode[l])) > 0
    BY Zenon, <2>1, RemoveOne
  <2> QED BY Zenon, <1>2, <2>1, <2>2 DEF Counts, ConflictModes
<1>5. ASSUME status[l] = "converting"
      PROVE  /\ convertMode[l] \in Mode /\ convertMode[l] \in GrantedModes
             /\ grantedCounts[convertMode[l]] > 0 /\ conversionsCount > 0
  <2>1. convertMode[l] \in Mode
    BY ZenonT(60), <1>5 DEF TypeOK, RequestType, RequestOK
  <2>2. l \in ConvertingTo(convertMode[l]) /\ ConvertingTo(convertMode[l]) \in SUBSET Locker
    BY Zenon DEF ConvertingTo
  <2>3. Cardinality(ConvertingTo(convertMode[l])) > 0
    BY Zenon, <2>2, RemoveOne
  <2>4. conversionsCount > 0
    BY Zenon, <1>5, RemoveOne DEF ConversionsCounted
  <2> QED BY SMTT(30), <1>2, <2>1, <2>3, <2>4 DEF Counts, GrantedModes
<1> QED BY ZenonT(60), <1>1, <1>3, <1>4, <1>5 DEF RequestCounted

\* grantedModesWithoutCurrentRequest contains what every other locker holds.
LEMMA OtherHoldersHold ==
  ASSUME Cardinals, IInv, NEW l \in Locker, list[l] = "granted",
         NEW k \in Locker, k # l, list[k] = "granted"
  PROVE  mode[k] \in OtherModes(l)
<1> DEFINE m == mode[k]
<1>1. m \in Mode
  BY Zenon, CountedHolds DEF RequestCounted, None
<1>2. /\ GrantedIn(m) \in SUBSET Locker /\ ConvertingTo(m) \in SUBSET Locker
      /\ k \in GrantedIn(m)
      /\ mode[l] = m => l \in GrantedIn(m)
      /\ convertMode[l] = m => l \in ConvertingTo(m)
  BY Zenon DEF GrantedIn, ConvertingTo
<1> HIDE DEF m
<1>3. Cardinality(GrantedIn(m)) \in Nat /\ Cardinality(ConvertingTo(m)) \in Nat
  BY Zenon, <1>2, SubsetsCount
<1>4. Cardinality(GrantedIn(m)) > 0
  BY Zenon, <1>2, RemoveOne
<1>5. mode[l] = m => Cardinality(GrantedIn(m)) > 1
  BY Zenon, <1>2, TwoMembers
<1>6. convertMode[l] = m => Cardinality(ConvertingTo(m)) > 0
  BY Zenon, <1>2, RemoveOne
<1>7. grantedCounts[m] = Cardinality(GrantedIn(m)) + Cardinality(ConvertingTo(m))
  BY Zenon, <1>1 DEF IInv, Counts
<1>8. m \in OtherModes(l)
  BY SMTT(30), <1>1, <1>3, <1>4, <1>5, <1>6, <1>7 DEF OtherModes
<1> QED BY Zenon, <1>8 DEF m

\* Counts stay exact when they follow the one request that changes.
LEMMA CountsStepHolds ==
  ASSUME Cardinals, IInv, NEW l \in Locker, OthersKept(l), CountsFollow(l)
  PROVE  Counts' /\ ConversionsCounted'
<1>1. ASSUME NEW m \in Mode
      PROVE  /\ Cardinality(GrantedIn(m)') = Cardinality(GrantedIn(m))
                  + Bit(list'[l] = "granted" /\ mode'[l] = m)
                  - Bit(list[l] = "granted" /\ mode[l] = m)
             /\ Cardinality(ConvertingTo(m)') = Cardinality(ConvertingTo(m))
                  + Bit(convertMode'[l] = m) - Bit(convertMode[l] = m)
             /\ Cardinality(WaitingFor(m)') = Cardinality(WaitingFor(m))
                  + Bit(list'[l] = "conflict" /\ mode'[l] = m)
                  - Bit(list[l] = "conflict" /\ mode[l] = m)
  <2>1. /\ \A k \in Locker : k # l => (k \in GrantedIn(m) <=> k \in GrantedIn(m)')
        /\ \A k \in Locker : k # l => (k \in ConvertingTo(m) <=> k \in ConvertingTo(m)')
        /\ \A k \in Locker : k # l => (k \in WaitingFor(m) <=> k \in WaitingFor(m)')
    BY Zenon DEF OthersKept, GrantedIn, ConvertingTo, WaitingFor
  <2>2. /\ GrantedIn(m) \in SUBSET Locker /\ GrantedIn(m)' \in SUBSET Locker
        /\ ConvertingTo(m) \in SUBSET Locker /\ ConvertingTo(m)' \in SUBSET Locker
        /\ WaitingFor(m) \in SUBSET Locker /\ WaitingFor(m)' \in SUBSET Locker
    BY Zenon DEF GrantedIn, ConvertingTo, WaitingFor
  <2>3. /\ l \in GrantedIn(m)' <=> list'[l] = "granted" /\ mode'[l] = m
        /\ l \in GrantedIn(m) <=> list[l] = "granted" /\ mode[l] = m
        /\ l \in ConvertingTo(m)' <=> convertMode'[l] = m
        /\ l \in ConvertingTo(m) <=> convertMode[l] = m
        /\ l \in WaitingFor(m)' <=> list'[l] = "conflict" /\ mode'[l] = m
        /\ l \in WaitingFor(m) <=> list[l] = "conflict" /\ mode[l] = m
    BY Zenon DEF GrantedIn, ConvertingTo, WaitingFor
  <2>4. /\ Cardinality(GrantedIn(m)') = Cardinality(GrantedIn(m))
             + Bit(l \in GrantedIn(m)') - Bit(l \in GrantedIn(m))
        /\ Cardinality(ConvertingTo(m)') = Cardinality(ConvertingTo(m))
             + Bit(l \in ConvertingTo(m)') - Bit(l \in ConvertingTo(m))
        /\ Cardinality(WaitingFor(m)') = Cardinality(WaitingFor(m))
             + Bit(l \in WaitingFor(m)') - Bit(l \in WaitingFor(m))
    BY Zenon, <2>1, <2>2, Delta
  <2> QED BY Zenon, <2>3, <2>4 DEF Bit
<1>2. ASSUME NEW m \in Mode
      PROVE  /\ grantedCounts'[m] = Cardinality(GrantedIn(m)') + Cardinality(ConvertingTo(m)')
             /\ conflictCounts'[m] = Cardinality(WaitingFor(m)')
  <2>1. /\ GrantedIn(m) \in SUBSET Locker /\ ConvertingTo(m) \in SUBSET Locker
        /\ WaitingFor(m) \in SUBSET Locker
    BY Zenon DEF GrantedIn, ConvertingTo, WaitingFor
  <2>2. /\ Cardinality(GrantedIn(m)) \in Nat /\ Cardinality(ConvertingTo(m)) \in Nat
        /\ Cardinality(WaitingFor(m)) \in Nat
    BY Zenon, <2>1, SubsetsCount
  <2> QED BY <1>1, <2>2 DEF IInv, Counts, CountsFollow, Bit
<1>3. Counts'
  BY Zenon, <1>2 DEF Counts, GrantedIn, ConvertingTo, WaitingFor
<1>4. ConversionsCounted'
  <2> DEFINE C == { k \in Locker : status[k] = "converting" }
             D == { k \in Locker : status'[k] = "converting" }
  <2>1. \A k \in Locker : k # l => (k \in C <=> k \in D)
    BY Zenon DEF OthersKept
  <2>2. Cardinality(D) = Cardinality(C) + Bit(l \in D) - Bit(l \in C)
    <3> HIDE DEF C, D
    <3> QED BY Zenon, <2>1, Delta DEF C, D
  <2>3. /\ l \in D <=> status'[l] = "converting"
        /\ l \in C <=> status[l] = "converting"
    OBVIOUS
  <2> QED BY Zenon, <2>2, <2>3 DEF IInv, ConversionsCounted, CountsFollow, Bit
<1> QED BY Zenon, <1>3, <1>4

\* The invariant gives the steps what they need to know of the counts.
LEMMA CountingHolds ==
  ASSUME Cardinals, IInv
  PROVE  Counting
  BY Zenon, CountedHolds, OtherHoldersHold, CountsStepHolds DEF Counting

\* What IInv says of the counts.
LEMMA HeldCountedHolds ==
  Cardinals /\ IInv => HeldCounted
<1> SUFFICES ASSUME Cardinals, IInv
             PROVE  HeldCounted
  OBVIOUS
<1>1. Cardinality({}) = 0
  BY Zenon, EmptyCount
<1>2. ASSUME \A l \in Locker : list[l] # "conflict"
      PROVE  ConflictModes = {}
  <2>1. \A m \in Mode : WaitingFor(m) = {}
    BY Zenon, <1>2 DEF WaitingFor
  <2>2. \A m \in Mode : conflictCounts[m] = 0
    BY Zenon, <1>1, <2>1 DEF IInv, Counts
  <2> QED BY <2>2 DEF ConflictModes
<1>3. ASSUME \A l \in Locker : list[l] # "granted" /\ convertMode[l] = None
      PROVE  GrantedModes = {}
  <2>1. \A m \in Mode : GrantedIn(m) = {} /\ ConvertingTo(m) = {}
    BY Zenon, <1>3 DEF GrantedIn, ConvertingTo, Mode, None
  <2>2. \A m \in Mode : grantedCounts[m] = 0 + 0
    BY Zenon, <1>1, <2>1 DEF IInv, Counts
  <2> QED BY <2>2 DEF GrantedModes
<1> QED BY Zenon, <1>2, <1>3, CountingHolds DEF Counting, HeldCounted

\* The same after the step.
LEMMA HeldCountedNext ==
  ASSUME Cardinals
  PROVE  IInv' => HeldCounted'
<1>1. Cardinals' /\ IInv' => HeldCounted'
  BY HeldCountedHolds, PTL
<1>2. Cardinals'
  BY DEF Cardinals
<1> QED BY Zenon, <1>1, <1>2

\* The policy count follows the request of locker l.
LEMMA PolicyFollowsHolds ==
  ASSUME Cardinals, IInv, PolicyCounted, NEW l \in Locker, PolicyFollows(l)
  PROVE  PolicyCounted'
<1> SUFFICES ASSUME IsGlobal => MaxRecursion = 1
             PROVE  compatibleFirstCount' = Cardinality(FirstCompatible')
  BY Zenon DEF PolicyCounted
<1>1. compatibleFirstCount = Cardinality(FirstCompatible)
  BY Zenon DEF PolicyCounted
<1>2. FirstCompatible \in SUBSET Locker /\ FirstCompatible' \in SUBSET Locker
  BY Zenon DEF FirstCompatible
<1>3. \A k \in Locker : k # l => (k \in FirstCompatible <=> k \in FirstCompatible')
  BY Zenon DEF FirstCompatible, PolicyFollows, OthersKept
<1>4. Cardinality(FirstCompatible') = Cardinality(FirstCompatible)
         + Bit(l \in FirstCompatible') - Bit(l \in FirstCompatible)
  BY Zenon, <1>2, <1>3, Delta
<1>5. /\ Cardinality(FirstCompatible') \in Nat /\ Cardinality(FirstCompatible) \in Nat
      /\ Cardinality(FirstCompatible') <= Cardinality(Locker) /\ Cardinality(Locker) \in Nat
  <2>1. Cardinality(FirstCompatible') \in Nat /\ Cardinality(FirstCompatible) \in Nat
    BY Zenon, <1>2, SubsetsCount
  <2>2. Cardinality(FirstCompatible') <= Cardinality(Locker)
    BY Zenon, <1>2 DEF Cardinals
  <2>3. Cardinality(Locker) \in Nat
    BY Zenon, SubsetsCount
  <2> QED BY Zenon, <2>1, <2>2, <2>3
<1>6. Cardinality(FirstCompatible') \in 0 .. UIntRange - 1
  BY <1>5, BoundAssumption
<1>7. \A n \in 0 .. UIntRange - 1 : n % UIntRange = n
  BY BoundAssumption
<1>8. CASE compatibleFirst[l] = FALSE
  <2>1. l \notin FirstCompatible /\ l \notin FirstCompatible'
    BY Zenon, <1>8 DEF FirstCompatible, PolicyFollows
  <2>2. compatibleFirstCount' = compatibleFirstCount
    BY Zenon, <1>8 DEF PolicyCount, PolicyFollows
  <2> QED BY <1>1, <1>4, <1>5, <2>1, <2>2 DEF Bit
<1>9. CASE compatibleFirst[l] = TRUE
  <2>1. /\ l \in FirstCompatible <=> list[l] = "granted"
        /\ l \in FirstCompatible' <=> list'[l] = "granted"
    BY Zenon, <1>9 DEF FirstCompatible, PolicyFollows
  <2>2. CASE list[l] # "granted" /\ list'[l] = "granted" /\ compatibleFirstCount' = PolicyCount(l, 1)
    <3>1. compatibleFirstCount' = (compatibleFirstCount + 1) % UIntRange
      BY Zenon, <1>9, <2>2 DEF PolicyCount
    <3>2. Cardinality(FirstCompatible') = compatibleFirstCount + 1
      BY <1>1, <1>4, <1>5, <2>1, <2>2 DEF Bit
    <3> QED BY Zenon, <1>6, <1>7, <3>1, <3>2
  <2>3. CASE list[l] = "granted" /\ list'[l] # "granted" /\ compatibleFirstCount' = PolicyCount(l, -1)
    <3>1. compatibleFirstCount' = (compatibleFirstCount + -1) % UIntRange
      BY Zenon, <1>9, <2>3 DEF PolicyCount
    <3>2. Cardinality(FirstCompatible') = compatibleFirstCount + -1
      BY <1>1, <1>4, <1>5, <2>1, <2>3 DEF Bit
    <3> QED BY Zenon, <1>6, <1>7, <3>1, <3>2
  <2>4. CASE /\ list'[l] = "granted" <=> list[l] = "granted"
             /\ compatibleFirstCount' = compatibleFirstCount
    BY <1>1, <1>4, <1>5, <2>1, <2>4 DEF Bit
  <2> QED BY Zenon, <2>2, <2>3, <2>4 DEF PolicyFollows
<1>10. compatibleFirst[l] \in BOOLEAN
  BY Zenon DEF IInv, TypeOK, RequestType
<1> QED BY Zenon, <1>8, <1>9, <1>10

\* The counting facts the steps of the second invariant rest on.
LEMMA TalliedHolds ==
  ASSUME Cardinals, IInv, IInv'
  PROVE  Tallied
  BY Zenon, HeldCountedHolds, HeldCountedNext, PolicyFollowsHolds DEF Tallied

-----------------------------------------------------------------------------
(* The invariants hold at first, and when nothing happens.                 *)

\* The invariant holds when no lock was asked for.
LEMMA InitInvariant ==
  ASSUME Cardinals, Init
  PROVE  IInv
<1> USE DEF Init
<1>1. TypeOK
  <2>0. /\ partitioned \in [Locker -> BOOLEAN] /\ compatibleFirst \in [Locker -> BOOLEAN]
        /\ checkConflictQueue \in BOOLEAN /\ newlyCompatibleFirst \in BOOLEAN
    BY Zenon
  <2>1. RequestType
    BY <2>0, BoundAssumption DEF RequestType
  <2>2. HeadType /\ PartitionType
    BY BoundAssumption DEF HeadType, PartitionType
  <2>3. ControlType
    BY <2>0 DEF ControlType, Label
  <2> QED BY Zenon, <2>1, <2>2, <2>3 DEF TypeOK
<1>2. Counts
  <2>1. \A m \in Mode : GrantedIn(m) = {} /\ ConvertingTo(m) = {} /\ WaitingFor(m) = {}
    BY Zenon DEF GrantedIn, ConvertingTo, WaitingFor, None, Mode
  <2>2. Cardinality({}) = 0
    BY Zenon, EmptyCount
  <2>3. \A m \in Mode : grantedCounts[m] = 0 + 0 /\ conflictCounts[m] = 0
    OBVIOUS
  <2> HIDE DEF Init
  <2> QED BY Zenon, <2>1, <2>2, <2>3 DEF Counts
<1>3. ConversionsCounted
  <2>1. { l \in Locker : status[l] = "converting" } = {}
    BY Zenon DEF None
  <2> QED BY Zenon, <2>1, EmptyCount DEF ConversionsCounted
<1>4. Partitions /\ Lists
  BY DEF Partitions, Lists, NoRepeats, None
<1>5. Mutexes /\ Migration /\ Notification
  <2>1. /\ Locker \subseteq Thread /\ Cleaner \in Thread
        /\ \A t \in Thread : pc[t] = "idle"
        /\ \A l \in Locker : status[l] = None
    BY Zenon DEF Thread
  <2> HIDE DEF Init
  <2> QED BY Zenon, <2>1 DEF Mutexes, Migration, Notification, InCriticalSection, InMigration, None
<1>6. Requests
  BY Zenon DEF Requests, RequestOK, InScan, Thread, None
<1>7. Compatible(Held)
  BY Zenon DEF Compatible, Held, None
<1> QED BY ZenonT(60), <1>1, <1>2, <1>3, <1>4, <1>5, <1>6, <1>7 DEF IInv

\* The second invariant holds at first.
LEMMA InitQueues ==
  ASSUME Cardinals, Init
  PROVE  Waiting
<1>1. /\ grantedList = << >> /\ conflictList = << >> /\ compatibleFirstCount = 0
      /\ newlyCompatibleFirst = FALSE
      /\ \A t \in Thread : pc[t] = "idle"
      /\ \A l \in Locker : /\ status[l] = None /\ list[l] = None /\ compatibleFirst[l] = FALSE
                           /\ pc[l] = "idle"
  BY Zenon DEF Init, Thread
<1>2. ListsExact
  <2>1. DOMAIN grantedList = {} /\ DOMAIN conflictList = {}
    BY <1>1
  <2> QED BY Zenon, <1>1, <2>1 DEF ListsExact, GrantedExact, QueueExact, NoRepeats, None
<1>3. Widening /\ Unnotified
  BY Zenon, <1>1 DEF Widening, Unnotified, Converts, None
<1>4. PolicyUnused
  BY Zenon, <1>1 DEF PolicyUnused
<1>5. PolicyCounted
  <2>1. FirstCompatible = {}
    BY Zenon, <1>1 DEF FirstCompatible
  <2> QED BY Zenon, <1>1, <2>1, EmptyCount DEF PolicyCounted
<1>6. QueueBlocked /\ ConversionsBlocked
  BY Zenon, <1>1 DEF QueueBlocked, ConversionsBlocked, None
<1> QED BY Zenon, <1>2, <1>3, <1>4, <1>5, <1>6 DEF Waiting

\* The invariant depends on the variables only.
LEMMA StutterInvariant ==
  ASSUME IInv, UNCHANGED vars
  PROVE  IInv'
<1>1. TypeOK'
  BY Zenon DEF vars, request, head, parts, scan, IInv, TypeOK, RequestType, HeadType,
       PartitionType, ControlType
<1>2. Counts' /\ ConversionsCounted' /\ Partitions' /\ Lists' /\ Compatible(Held)'
  BY Zenon, Frame DEF vars, request, head, parts
<1>3. Mutexes' /\ Migration' /\ Notification'
  BY Zenon DEF vars, request, head, parts, scan, IInv, Mutexes, Migration, Notification,
               IntentOnly, GrantedModes, ConflictModes
<1>4. Requests'
  <2>1. UNCHANGED << status, mode, convertMode, recursiveCount, partitioned, list, notify,
                     pc, arg >>
    BY Zenon DEF vars, request
  <2>2. Held' = Held
    BY ZenonT(60), <2>1 DEF Held
  <2>3. ASSUME NEW l \in Locker, RequestOK(l) PROVE RequestOK(l)'
    BY Zenon, <2>1, <2>2, <2>3, RequestStutters
  <2> QED BY Zenon, <2>3 DEF IInv, Requests
<1> QED BY Zenon, <1>1, <1>2, <1>3, <1>4 DEF IInv

\* A stuttering step keeps it.
LEMMA StutterQueues ==
  ASSUME IInv, IInv', Tallied, Waiting, UNCHANGED vars
  PROVE  Waiting'
<1>1. UNCHANGED << status, mode, convertMode, compatibleFirst, list, notify, head, scan, pc, arg >>
  BY Zenon DEF vars, request
<1>2. Quiet /\ Unnotified'
  BY Zenon, <1>1 DEF Quiet, Waiting, Unnotified, head, scan
<1>3. PrioritiesKept
  BY Zenon, <1>1 DEF PrioritiesKept, Waiting, PolicyUnused, scan
<1>4. Widening'
  BY Zenon, <1>1 DEF Waiting, Widening
<1> QED BY Zenon, <1>2, <1>3, <1>4, QuietStep

=============================================================================
