---------------------- MODULE PrimaryTransitionProofs ----------------------
(* A member accepts writes only as a primary that is done with catching up *)
(* and draining, the assertions of the transition hold, the applier skips  *)
(* nothing and the first drain leaves nothing behind, for any number of    *)
(* elections and operations.  The inductive invariant has five parts: who  *)
(* may end the catch-up, how far the optimes go, what each queue may hold, *)
(* where the operations in it come from, and what the first term leaves in *)
(* the queues.                                                             *)
EXTENDS PrimaryTransition, TLAPS

-----------------------------------------------------------------------------
(* The inductive invariant.                                                *)

\* One freshness scan is under way, or one waiter waits, and only in catch-up.
OneCatchUp ==
    /\ \A t, u \in scans : t = u
    /\ scans # {} => isCatchingUp /\ waiter = 0
    /\ waiter # 0 => isCatchingUp /\ memberState = "PRIMARY"

\* The catch-up is over when the drain begins, and only the applier ends that.
OneDrain ==
    /\ isCatchingUp => ~isDraining
    /\ applier = "drain" => isDraining

Control ==
    /\ memberState \in {"PRIMARY", "SECONDARY"}
    /\ isCatchingUp \in BOOLEAN /\ isDraining \in BOOLEAN
    /\ canAcceptWrites \in BOOLEAN
    /\ OneCatchUp
    /\ OneDrain
    /\ WritesOnlyAsPrimary
    /\ TransitionAssertions

\* The types, with optimes of any size.
Types ==
    /\ term \in 0 .. MaxTerm
    /\ waiter \in Nat
    /\ scans \subseteq 1 .. term
    /\ lastApplied \in Nat \ {0} /\ top \in Nat \ {0}
    /\ stopped \in BOOLEAN /\ seenPrimary \in BOOLEAN
    /\ lastFetched \in Nat
    /\ buffer \in Seq(Nat) /\ collected \in Seq(Nat)
    /\ batch \in Seq(Nat) /\ applying \in Seq(Nat)
    /\ producer \in {"run", "runCatchingUp", "runDraining", "stop", "signal",
                     "push", "start", "produce", "produceDraining",
                     "producePrimary", "fetch"}
    /\ applier \in {"idle", "sentinel", "drain", "logTransition", "apply",
                    "applyPrimary", "applyDraining", "applyCatchingUp", "record"}
    /\ failed \in {"none", "finishCatchUp", "winElection", "signalDrainComplete",
                   "OplogOutOfOrder", "CannotApplyOplogWhilePrimary"}

\* What is applied is a batch that the applier took; a sentinel is a batch of
\* its own.
SentinelAlone(s) == s # <<>> /\ Head(s) = Sentinel => s = <<Sentinel>>

ApplierHasBatch ==
    /\ applier \in {"idle", "logTransition"} => applying = <<>>
    /\ applier \in {"sentinel", "drain"} => applying = <<Sentinel>>
    /\ applier \in {"apply", "applyPrimary", "applyDraining", "applyCatchingUp",
                    "record"} => applying # <<>> /\ Head(applying) # Sentinel

\* The buffer has operations in a row, and at its end the sentinel of a producer
\* that has stopped: it starts again with an empty buffer only.
BufferInRow ==
    \A i \in DOMAIN buffer :
        /\ buffer[i] = Sentinel => i = Len(buffer) /\ stopped
        /\ i + 1 \in DOMAIN buffer => buffer[i + 1] <= buffer[i] + 1

ProducerStops ==
    /\ producer \in {"signal", "push"} => stopped
    /\ producer \in {"produce", "produceDraining", "producePrimary", "fetch"}
         => ~stopped

Queues ==
    /\ ApplierHasBatch
    /\ SentinelAlone(batch) /\ SentinelAlone(collected)
    /\ BufferInRow
    /\ ProducerStops

\* An election that was won and whose first operation is not in the log yet.
Pending == IF isCatchingUp \/ isDraining \/ applier = "logTransition" THEN 1 ELSE 0

\* Every election adds one operation to the log, when its drain is complete.
Bound == MaxOp + term - Pending
UpTo(s, n) == \A i \in DOMAIN s : s[i] <= n

Bounded ==
    /\ MaxOp <= Bound
    /\ lastApplied <= Bound /\ top <= Bound /\ lastFetched <= Bound
    /\ waiter <= Bound
    /\ UpTo(buffer, Bound) /\ UpTo(collected, Bound)
    /\ UpTo(batch, Bound) /\ UpTo(applying, Bound)
    /\ applier = "logTransition" =>
         memberState = "PRIMARY" /\ ~isCatchingUp /\ ~isDraining

\* How far the member gets when it has applied the batch it has taken, and the
\* batches behind that.
Larger(m, n) == IF m >= n THEN m ELSE n
LastOf(s) == IF s = <<>> THEN 0 ELSE Last(s)
Reach1 == Larger(lastApplied, LastOf(applying))
Reach2 == Larger(Reach1, LastOf(batch))
Reach3 == Larger(Reach2, LastOf(collected))

\* Each batch starts at the latest behind the furthest operation before it, and
\* the producer goes on from there.
NoGaps ==
    /\ applying # <<>> => Head(applying) <= lastApplied + 1
    /\ batch # <<>> => Head(batch) <= Reach1 + 1
    /\ collected # <<>> => Head(collected) <= Reach2 + 1
    /\ buffer # <<>> => Head(buffer) <= Reach3 + 1
    /\ ~stopped => lastFetched <= IF buffer = <<>> THEN Reach3 ELSE Last(buffer)

Has(s) == \E i \in DOMAIN s : s[i] = Sentinel
Only(s) == \A i \in DOMAIN s : s[i] = Sentinel

SentinelUnderWay ==
    producer = "push" \/ Has(buffer) \/ Has(collected) \/ Has(batch) \/ Has(applying)

\* A producer that does not start again as long as the member is primary.
Quiet ==
    /\ producer \in {"run", "runCatchingUp", "runDraining", "stop", "signal", "push"}
    /\ producer \in {"runCatchingUp", "runDraining"} => seenPrimary

\* In the first term the sentinel is behind everything that was fetched.
FirstTerm ==
    /\ term = 0 => /\ memberState = "SECONDARY" /\ ~isDraining /\ ~isCatchingUp
                   /\ ~SentinelUnderWay
    /\ term = 1 /\ memberState = "PRIMARY" =>
         /\ isCatchingUp \/ isDraining \/ canAcceptWrites
         /\ isCatchingUp => ~SentinelUnderWay
         /\ canAcceptWrites \/ SentinelUnderWay => Quiet
         /\ canAcceptWrites => Only(applying)
         /\ canAcceptWrites \/ Has(applying) => Only(batch)
         /\ canAcceptWrites \/ Has(applying) \/ Has(batch) => Only(collected)
         /\ canAcceptWrites \/ Has(applying) \/ Has(batch) \/ Has(collected)
              => Only(buffer)

IInv == Control /\ Types /\ Queues /\ Bounded /\ NoGaps /\ FirstTerm

-----------------------------------------------------------------------------
(* Who ends the catch-up and the drain.                                    *)

USE DEF Control, OneCatchUp, OneDrain, WritesOnlyAsPrimary, TransitionAssertions

\* The initial state satisfies the invariant.
LEMMA InitControl == Init => Control
  BY Zenon DEF Init

\* Ending a catch-up that is under way cannot fail.
LEMMA FinishStep ==
    ASSUME Control, isCatchingUp, NEW s \in BOOLEAN, FinishCatchUpOplog(s)
    PROVE  /\ isCatchingUp' = FALSE
           /\ isDraining' = s
           /\ failed' = failed
  BY Zenon DEF FinishCatchUpOplog

\* Signalling the waiters leaves the flags alone or ends the catch-up.
LEMMA SignalStep ==
    ASSUME Control, NEW condition, SignalAndRemoveIf(condition)
    PROVE  /\ failed' = failed
           /\ \/ UNCHANGED flags
              \/ /\ waiter # 0 /\ waiter' = 0
                 /\ isCatchingUp' = FALSE /\ isDraining' = TRUE
<1>1. CASE waiter # 0 /\ condition
  BY Zenon, <1>1, FinishStep DEF SignalAndRemoveIf
<1>2. CASE ~(waiter # 0 /\ condition)
  BY Zenon, <1>2 DEF SignalAndRemoveIf
<1> QED BY Zenon, <1>1, <1>2

\* The steps of the coordinator preserve the invariant.
LEMMA CoordinatorStep ==
    ASSUME Control, Running, Coordinator
    PROVE  Control'
<1>1. CASE WinElection
  BY Zenon, <1>1 DEF WinElection, apply
<1>2. CASE WinElectionAgain
  BY Zenon, <1>2 DEF WinElectionAgain, Abort, flags, coordinator, apply
<1>3. CASE CatchUpTimeout
  <2>1. isCatchingUp' = FALSE /\ isDraining' = TRUE /\ failed' = failed
    BY Zenon, <1>3, FinishStep DEF CatchUpTimeout
  <2> QED BY Zenon, <1>3, <2>1 DEF CatchUpTimeout, coordinator, apply
<1>4. CASE StepDown
  <2>1. /\ failed' = failed
        /\ \/ UNCHANGED flags
           \/ /\ waiter # 0 /\ waiter' = 0
              /\ isCatchingUp' = FALSE /\ isDraining' = TRUE
    BY Zenon, <1>4, SignalStep DEF StepDown
  <2>2. waiter' = 0
    BY Zenon, <1>4 DEF StepDown, SignalAndRemoveIf, flags
  <2>3. /\ memberState' = "SECONDARY" /\ canAcceptWrites' = FALSE
        /\ UNCHANGED <<scans, applier>>
    BY Zenon, <1>4 DEF StepDown, apply
  <2>4. CASE UNCHANGED flags
    BY Zenon, <2>1, <2>2, <2>3, <2>4 DEF flags
  <2>5. CASE waiter # 0 /\ isCatchingUp' = FALSE /\ isDraining' = TRUE
    BY Zenon, <2>1, <2>2, <2>3, <2>5
  <2> QED BY Zenon, <2>1, <2>4, <2>5
<1>5. CASE ScanEnds
  <2>1. PICK t \in scans, fresh \in 0 .. top : CatchUpOplogToLatest(t, fresh)
    BY Zenon, <1>5 DEF ScanEnds
  <2>2. isCatchingUp /\ waiter = 0 /\ scans' = {}
    BY Zenon, <2>1 DEF CatchUpOplogToLatest
  <2>3. UNCHANGED <<memberState, canAcceptWrites, applier>>
    BY Zenon, <2>1 DEF CatchUpOplogToLatest, apply
  <2>4. CASE waiter' = waiter /\ \E s \in BOOLEAN : FinishCatchUpOplog(s)
    <3>1. isCatchingUp' = FALSE /\ isDraining' \in BOOLEAN /\ failed' = failed
      BY Zenon, <2>2, <2>4, FinishStep
    <3> QED BY Zenon, <2>2, <2>3, <2>4, <3>1
  <2>5. CASE /\ memberState = "PRIMARY"
             /\ UNCHANGED <<isCatchingUp, isDraining, failed>>
    BY Zenon, <2>2, <2>3, <2>5
  <2> QED BY Zenon, <2>1, <2>4, <2>5 DEF CatchUpOplogToLatest
<1>6. CASE UpstreamWrite
  BY Zenon, <1>6 DEF UpstreamWrite, flags, coordinator, apply
<1>7. CASE Write
  <2>1. /\ failed' = failed
        /\ \/ UNCHANGED flags
           \/ /\ waiter # 0 /\ waiter' = 0
              /\ isCatchingUp' = FALSE /\ isDraining' = TRUE
    BY Zenon, <1>7, SignalStep DEF Write, SignalWaiters
  <2> QED BY <1>7, <2>1 DEF Write, flags, coordinator, apply
<1> QED BY Zenon, <1>1, <1>2, <1>3, <1>4, <1>5, <1>6, <1>7 DEF Coordinator

\* The background sync and the batcher only read the flags.
LEMMA QueueStep ==
    ASSUME Control, BackgroundSync \/ EnqueueDocuments \/ FetcherFails \/ Batcher
    PROVE  Control'
<1>1. UNCHANGED <<flags, coordinator, apply, failed>>
  BY Zenon DEF BackgroundSync, RunProducer, RunCatchingUp, RunDraining, Stop, Signal,
     SignalNoNewDataForApplier, Start, ProduceCatchingUp, ProduceDraining,
     ProducePrimary, EnqueueDocuments, FetcherFails, Producer, Batcher, TryPop,
     HandOver
<1> QED BY Zenon, <1>1 DEF flags, coordinator, apply

\* The steps of the applier preserve the invariant.
LEMMA SyncTailStep ==
    ASSUME Control, Running, SyncTail
    PROVE  Control'
<1>1. CASE GetNextBatch \/ SkipSentinel \/ WaitForGlobalLock \/ CheckOrder
           \/ ApplyPrimary \/ ApplyDraining \/ ApplyCatchingUp
  BY <1>1 DEF GetNextBatch, SkipSentinel, WaitForGlobalLock, CheckOrder,
     ApplyPrimary, ApplyDraining, ApplyCatchingUp, Applier, Applying, flags
<1>2. CASE RepeatedEntry \/ ReplicatesWhilePrimary
  BY <1>2 DEF RepeatedEntry, ReplicatesWhilePrimary, Abort, flags, coordinator,
     apply
<1>3. CASE SignalDrainComplete
  <2>1. ~isCatchingUp /\ ~canAcceptWrites /\ failed' = failed
    BY Zenon, <1>3 DEF SignalDrainComplete, Applier
  <2>2. canAcceptWrites' \in BOOLEAN /\ (canAcceptWrites' => memberState = "PRIMARY")
    BY <1>3, Zenon DEF SignalDrainComplete
  <2>3. /\ isDraining' = FALSE /\ applier' # "drain"
        /\ UNCHANGED <<isCatchingUp, waiter, memberState, scans>>
    BY Zenon, <1>3 DEF SignalDrainComplete, Applier
  <2> QED BY Zenon, <2>1, <2>2, <2>3
<1>4. CASE LogTransition \/ Record
  <2>1. (\E condition : SignalAndRemoveIf(condition)) \/ UNCHANGED <<flags, failed>>
    BY Zenon, <1>4 DEF LogTransition, Record, SetMyLastAppliedForward, SignalWaiters
  <2>2. /\ failed' = failed
        /\ \/ UNCHANGED flags
           \/ /\ waiter # 0 /\ waiter' = 0
              /\ isCatchingUp' = FALSE /\ isDraining' = TRUE
    BY Zenon, <2>1, SignalStep
  <2>3. /\ UNCHANGED <<memberState, scans, canAcceptWrites>>
        /\ applier' = "idle"
    BY Zenon, <1>4 DEF LogTransition, Record, Applier
  <2>4. CASE UNCHANGED flags
    BY Zenon, <2>2, <2>3, <2>4 DEF flags
  <2>5. CASE waiter # 0 /\ waiter' = 0 /\ isCatchingUp' = FALSE /\ isDraining' = TRUE
    BY Zenon, <2>2, <2>3, <2>5
  <2> QED BY Zenon, <2>2, <2>4, <2>5
<1> QED BY Zenon, <1>1, <1>2, <1>3, <1>4 DEF SyncTail

\* The invariant is inductive.
LEMMA NextControl == Control /\ [Next]_vars => Control'
<1> SUFFICES ASSUME Control, [Next]_vars PROVE Control'
  OBVIOUS
<1>1. CASE Next
  BY Zenon, <1>1, CoordinatorStep, QueueStep, SyncTailStep DEF Next
<1>2. CASE UNCHANGED vars
  BY Zenon, <1>2 DEF vars, flags, coordinator, apply
<1> QED BY Zenon, <1>1, <1>2

HIDE DEF Control, OneCatchUp, OneDrain, WritesOnlyAsPrimary, TransitionAssertions

-----------------------------------------------------------------------------
(* Types.                                                                  *)

Failures == {"none", "finishCatchUp", "winElection", "signalDrainComplete",
             "OplogOutOfOrder", "CannotApplyOplogWhilePrimary"}

\* What ends a catch-up, or signals its waiter, sets failed to a known value.
LEMMA SignalTypes ==
    ASSUME waiter \in Nat, failed \in Failures, NEW condition,
           SignalAndRemoveIf(condition)
    PROVE  waiter' \in {0, waiter} /\ failed' \in Failures
  BY Zenon DEF SignalAndRemoveIf, FinishCatchUpOplog, flags, Failures

\* The coordinator leaves the queues alone.
LEMMA CoordinatorFrame ==
    ASSUME Coordinator
    PROVE  UNCHANGED <<sync, buffer, batches, apply>>
  BY Zenon DEF Coordinator, WinElection, WinElectionAgain, Abort, CatchUpTimeout,
     StepDown, ScanEnds, CatchUpOplogToLatest, UpstreamWrite, Write

\* The steps of the coordinator keep the types.
LEMMA CoordinatorTypes ==
    ASSUME Types, Coordinator
    PROVE  Types'
<1> USE DEF Failures
<1>1. UNCHANGED <<sync, buffer, batches, apply>>
  BY Zenon, CoordinatorFrame
<1>2. /\ term' \in 0 .. MaxTerm /\ waiter' \in Nat /\ scans' \subseteq 1 .. term'
      /\ lastApplied' \in Nat \ {0} /\ top' \in Nat \ {0} /\ failed' \in Failures
  <2>1. CASE WinElection
    BY <2>1, TransitionAssumption DEF WinElection, log, Types
  <2>2. CASE WinElectionAgain
    BY Zenon, <2>2 DEF WinElectionAgain, Abort, flags, coordinator, log, Types
  <2>3. CASE CatchUpTimeout
    BY <2>3 DEF CatchUpTimeout, FinishCatchUpOplog, coordinator, log, Types
  <2>4. CASE StepDown
    <3>1. waiter' \in {0, waiter} /\ failed' \in Failures
      BY Zenon, <2>4, SignalTypes DEF StepDown, Types
    <3> QED BY <2>4, <3>1 DEF StepDown, log, Types
  <2>5. CASE ScanEnds
    <3>1. PICK t \in scans, fresh \in 0 .. top : CatchUpOplogToLatest(t, fresh)
      BY Zenon, <2>5 DEF ScanEnds
    <3>2. waiter' \in {waiter, fresh} /\ failed' \in Failures
      BY Zenon, <3>1 DEF CatchUpOplogToLatest, FinishCatchUpOplog, Types
    <3> QED BY <3>1, <3>2 DEF CatchUpOplogToLatest, log, Types
  <2>6. CASE UpstreamWrite
    BY <2>6 DEF UpstreamWrite, flags, coordinator, Types
  <2>7. CASE Write
    <3>1. waiter' \in {0, waiter} /\ failed' \in Failures
      BY Zenon, <2>7, SignalTypes DEF Write, SignalWaiters, Types
    <3> QED BY SMTT(30), <2>7, <3>1 DEF Write, coordinator, Types
  <2> QED BY Zenon, <2>1, <2>2, <2>3, <2>4, <2>5, <2>6, <2>7 DEF Coordinator
<1> QED BY Zenon, <1>1, <1>2 DEF sync, batches, apply, Types

\* The background sync changes its own state and the buffer.
LEMMA ProducerFrame ==
    ASSUME BackgroundSync \/ EnqueueDocuments \/ FetcherFails
    PROVE  UNCHANGED <<flags, coordinator, batches, apply, log, failed>>
  BY Zenon DEF BackgroundSync, RunProducer, RunCatchingUp, RunDraining, Stop, Signal,
     SignalNoNewDataForApplier, Start, ProduceCatchingUp, ProduceDraining,
     ProducePrimary, EnqueueDocuments, FetcherFails, Producer

\* Its steps keep the types.
LEMMA ProducerTypes ==
    ASSUME Types, BackgroundSync \/ EnqueueDocuments \/ FetcherFails
    PROVE  Types'
<1>1. UNCHANGED <<flags, coordinator, batches, apply, log, failed>>
  BY Zenon, ProducerFrame
<1>2. /\ stopped' \in BOOLEAN /\ seenPrimary' \in BOOLEAN
      /\ lastFetched' \in Nat /\ buffer' \in Seq(Nat)
  <2>1. CASE RunProducer
    BY <2>1, Zenon DEF RunProducer, Types
  <2>2. CASE RunCatchingUp \/ RunDraining \/ Signal \/ ProduceCatchingUp
             \/ ProduceDraining \/ ProducePrimary \/ FetcherFails
    BY Zenon, <2>2 DEF RunCatchingUp, RunDraining, Signal, ProduceCatchingUp,
       ProduceDraining, ProducePrimary, FetcherFails, Producing, Types
  <2>3. CASE Stop
    BY <2>3 DEF Stop, Types
  <2>4. CASE SignalNoNewDataForApplier
    BY <2>4 DEF SignalNoNewDataForApplier, Types, Sentinel
  <2>5. CASE Start
    BY <2>5, Zenon DEF Start, Types
  <2>6. CASE EnqueueDocuments
    BY <2>6 DEF EnqueueDocuments, Types
  <2> QED BY Zenon, <2>1, <2>2, <2>3, <2>4, <2>5, <2>6 DEF BackgroundSync
<1>3. producer' \in {"run", "runCatchingUp", "runDraining", "stop", "signal",
                     "push", "start", "produce", "produceDraining",
                     "producePrimary", "fetch"}
  BY Zenon DEF BackgroundSync, RunProducer, RunCatchingUp, RunDraining, Stop, Signal,
     SignalNoNewDataForApplier, Start, ProduceCatchingUp, ProduceDraining,
     ProducePrimary, EnqueueDocuments, FetcherFails, Producer
<1> QED BY Zenon, <1>1, <1>2, <1>3 DEF flags, coordinator, batches, apply, log, Types

\* The batcher moves operations from the buffer into the next batch.
LEMMA BatcherTypes ==
    ASSUME Types, Batcher
    PROVE  /\ Types'
           /\ UNCHANGED <<flags, coordinator, sync, apply, log, failed>>
<1>1. UNCHANGED <<flags, coordinator, sync, apply, log, failed>>
  BY Zenon DEF Batcher, TryPop, HandOver
<1>2. buffer' \in Seq(Nat) /\ collected' \in Seq(Nat) /\ batch' \in Seq(Nat)
  <2>1. CASE TryPop
    <3>1. Head(buffer) \in Nat /\ Tail(buffer) \in Seq(Nat)
      BY SMTT(30), <2>1 DEF TryPop, Types
    <3> QED BY <2>1, <3>1 DEF TryPop, Types
  <2>2. CASE HandOver
    BY <2>2 DEF HandOver, Types
  <2> QED BY Zenon, <2>1, <2>2 DEF Batcher
<1>3. UNCHANGED <<term, waiter, scans, lastApplied, top, stopped, seenPrimary, lastFetched,
                  applying, producer, applier, failed>>
  BY Zenon, <1>1 DEF flags, coordinator, sync, apply, log
<1>4. Types'
  BY ZenonT(60), <1>2, <1>3 DEF Types
<1> QED BY Zenon, <1>1, <1>4

\* The applier leaves the elections, the buffer and the next batch alone.
LEMMA SyncTailFrame ==
    ASSUME SyncTail
    PROVE  UNCHANGED <<memberState, term, scans, sync, buffer, collected>>
  BY Zenon DEF SyncTail, GetNextBatch, SkipSentinel, WaitForGlobalLock,
     SignalDrainComplete, LogTransition, CheckOrder, RepeatedEntry, ApplyPrimary,
     ApplyDraining, ApplyCatchingUp, ReplicatesWhilePrimary, Record, Applier, Abort,
     coordinator, batches

\* The steps of the applier keep the types.
LEMMA SyncTailTypes ==
    ASSUME Types, ApplierHasBatch, SyncTail
    PROVE  Types'
<1> USE DEF Failures
<1>1. UNCHANGED <<memberState, term, scans, sync, buffer, collected>>
  BY Zenon, SyncTailFrame
<1>2. applier' \in {"idle", "sentinel", "drain", "logTransition", "apply",
                    "applyPrimary", "applyDraining", "applyCatchingUp", "record"}
  BY Zenon DEF SyncTail, GetNextBatch, SkipSentinel, WaitForGlobalLock,
     SignalDrainComplete, LogTransition, CheckOrder, RepeatedEntry, ApplyPrimary,
     ApplyDraining, ApplyCatchingUp, ReplicatesWhilePrimary, Record, Applier, Abort,
     apply, Types
<1>3. /\ waiter' \in Nat /\ lastApplied' \in Nat \ {0} /\ top' \in Nat \ {0}
      /\ batch' \in Seq(Nat) /\ applying' \in Seq(Nat) /\ failed' \in Failures
  <2>1. CASE GetNextBatch \/ SkipSentinel
    <3>1. <<>> \in Seq(Nat)
      OBVIOUS
    <3> QED
      BY Zenon, <2>1, <3>1 DEF GetNextBatch, SkipSentinel, flags, log, Types
  <2>2. CASE WaitForGlobalLock \/ CheckOrder \/ ApplyPrimary \/ ApplyDraining
             \/ ApplyCatchingUp
    BY Zenon, <2>2 DEF WaitForGlobalLock, CheckOrder, ApplyPrimary, ApplyDraining,
       ApplyCatchingUp, Applying, flags, log, Types
  <2>3. CASE SignalDrainComplete
    BY <2>3 DEF SignalDrainComplete, log, Types
  <2>4. CASE RepeatedEntry \/ ReplicatesWhilePrimary
    BY Zenon, <2>4 DEF RepeatedEntry, ReplicatesWhilePrimary, Abort, flags, batches,
       apply, log, Types
  <2>5. CASE LogTransition
    <3>1. waiter' \in {0, waiter} /\ failed' \in Failures
      BY Zenon, <2>5, SignalTypes DEF LogTransition, SignalWaiters, Types
    <3> QED BY <2>5, <3>1 DEF LogTransition, Types
  <2>6. CASE Record
    <3>1. waiter' \in {0, waiter} /\ failed' \in Failures
      BY Zenon, <2>6, SignalTypes
         DEF Record, SetMyLastAppliedForward, SignalWaiters, flags, Types
    <3>2. Last(applying) \in Nat
      BY <2>6 DEF Record, Applier, ApplierHasBatch, Last, Types
    <3>3. lastApplied' \in Nat \ {0}
      BY <2>6, <3>2 DEF Record, SetMyLastAppliedForward, Types
    <3> QED BY <2>6, <3>1, <3>3 DEF Record, Types
  <2> QED BY Zenon, <2>1, <2>2, <2>3, <2>4, <2>5, <2>6 DEF SyncTail
<1> QED BY Zenon, <1>1, <1>2, <1>3 DEF sync, Types

-----------------------------------------------------------------------------
(* What the queues may hold.                                               *)

\* The head of a sequence stays where it is when an element is appended, and
\* the tail has the other elements.
LEMMA AppendElements ==
    ASSUME NEW s \in Seq(Nat), NEW x \in Nat
    PROVE  /\ Append(s, x) # <<>>
           /\ Len(Append(s, x)) = Len(s) + 1
           /\ \A i \in DOMAIN s : i \in DOMAIN Append(s, x) /\ Append(s, x)[i] = s[i]
           /\ \A i \in DOMAIN Append(s, x) : i \in DOMAIN s \/ i = Len(s) + 1
           /\ Len(s) + 1 \in DOMAIN Append(s, x) /\ Append(s, x)[Len(s) + 1] = x
           /\ s # <<>> => Head(Append(s, x)) = Head(s)
           /\ s = <<>> => Append(s, x) = <<x>> /\ Head(Append(s, x)) = x
           /\ Last(Append(s, x)) = x
<1>1. /\ Len(s) \in Nat /\ DOMAIN s = 1 .. Len(s)
      /\ Len(Append(s, x)) = Len(s) + 1 /\ DOMAIN Append(s, x) = 1 .. Len(s) + 1
      /\ Append(s, x) \in Seq(Nat)
  OBVIOUS
<1>2. \A i \in 1 .. Len(s) : Append(s, x)[i] = s[i]
  OBVIOUS
<1>3. Append(s, x)[Len(s) + 1] = x
  OBVIOUS
<1>4. Append(s, x) # <<>>
  BY <1>1
<1>5. s # <<>> => Head(Append(s, x)) = Head(s)
  BY <1>1, <1>2, <1>4
<1>6. s = <<>> => Append(s, x) = <<x>> /\ Head(Append(s, x)) = x
  OBVIOUS
<1> QED BY <1>1, <1>2, <1>3, <1>4, <1>5, <1>6 DEF Last

LEMMA TailElements ==
    ASSUME NEW s \in Seq(Nat), s # <<>>
    PROVE  /\ Head(s) \in Nat /\ Head(s) = s[1] /\ 1 \in DOMAIN s
           /\ Len(s) \in DOMAIN s /\ Last(s) = s[Len(s)] /\ Last(s) \in Nat
           /\ Tail(s) \in Seq(Nat) /\ Len(Tail(s)) = Len(s) - 1
           /\ \A i \in DOMAIN Tail(s) : i + 1 \in DOMAIN s /\ Tail(s)[i] = s[i + 1]
           /\ \A i \in DOMAIN s : i = 1 \/ (i - 1 \in DOMAIN Tail(s) /\ Tail(s)[i - 1] = s[i])
           /\ Tail(s) = <<>> => Len(s) = 1 /\ Last(s) = Head(s)
           /\ Tail(s) # <<>> => Last(Tail(s)) = Last(s) /\ Head(Tail(s)) = s[2]
                                /\ 2 \in DOMAIN s
<1>1. /\ Len(s) \in Nat \ {0} /\ DOMAIN s = 1 .. Len(s) /\ Head(s) = s[1]
      /\ \A i \in 1 .. Len(s) : s[i] \in Nat
  OBVIOUS
<1>2. /\ Tail(s) \in Seq(Nat) /\ Len(Tail(s)) = Len(s) - 1
      /\ DOMAIN Tail(s) = 1 .. Len(s) - 1
  BY <1>1
<1>3. \A i \in 1 .. Len(s) - 1 : Tail(s)[i] = s[i + 1]
  BY <1>1
<1>4. Tail(s) = <<>> => Len(s) = 1
  <2>1. ASSUME Tail(s) = <<>> PROVE Len(Tail(s)) = 0
    BY Zenon, <2>1, Len(<<>>) = 0
  <2> QED BY <1>1, <1>2, <2>1
<1>5. Tail(s) # <<>> => Len(s) > 1 /\ Head(Tail(s)) = Tail(s)[1]
  <2>1. \A t \in Seq(Nat) : t # <<>> => Len(t) # 0 /\ Head(t) = t[1]
    OBVIOUS
  <2> QED BY <1>1, <1>2, <2>1
<1>6. \A i \in DOMAIN s : i = 1 \/ (i - 1 \in DOMAIN Tail(s) /\ Tail(s)[i - 1] = s[i])
  BY <1>1, <1>2, <1>3
<1>7. Tail(s) # <<>> => /\ Tail(s)[Len(Tail(s))] = s[Len(s)] /\ Head(Tail(s)) = s[2]
                       /\ 2 \in DOMAIN s
  BY <1>1, <1>2, <1>3, <1>5
<1>8. Len(s) = 1 => s[Len(s)] = s[1]
  OBVIOUS
<1>9. 1 \in DOMAIN s /\ Len(s) \in DOMAIN s /\ s[1] \in Nat /\ s[Len(s)] \in Nat
  BY <1>1
<1>10. \A i \in DOMAIN Tail(s) : i + 1 \in DOMAIN s /\ Tail(s)[i] = s[i + 1]
  BY <1>1, <1>2, <1>3
<1> QED BY Zenon, <1>1, <1>2, <1>4, <1>6, <1>7, <1>8, <1>9, <1>10 DEF Last

\* The batcher keeps a sentinel alone in its batch and the buffer in a row.
LEMMA BatcherQueues ==
    ASSUME Types, Queues, Batcher
    PROVE  Queues'
<1>1. UNCHANGED <<sync, apply>>
  BY Zenon, BatcherTypes
<1>2. ApplierHasBatch' /\ ProducerStops'
  BY Zenon, <1>1 DEF Queues, ApplierHasBatch, ProducerStops, sync, apply
<1>3. CASE TryPop
  <2>1. /\ buffer \in Seq(Nat) /\ buffer # <<>> /\ collected \in Seq(Nat)
        /\ collected' = Append(collected, Head(buffer)) /\ buffer' = Tail(buffer)
        /\ batch' = batch /\ stopped' = stopped
    BY Zenon, <1>1, <1>3 DEF TryPop, Types, sync
  <2>2. SentinelAlone(collected)'
    <3>0. Head(buffer) \in Nat
      BY <2>1, TailElements
    <3>1. CASE collected = <<>>
      <4>1. collected' = <<Head(buffer)>> /\ Head(collected') = Head(buffer)
        BY Zenon, <2>1, <3>0, <3>1, AppendElements
      <4> QED BY Zenon, <4>1 DEF SentinelAlone
    <3>2. CASE collected # <<>>
      <4>1. Head(collected') = Head(collected)
        BY Zenon, <2>1, <3>0, <3>2, AppendElements
      <4>2. Head(collected) # Sentinel
        BY Zenon, <1>3, <3>2 DEF TryPop
      <4> QED BY Zenon, <4>1, <4>2 DEF SentinelAlone
    <3> QED BY Zenon, <3>1, <3>2
  <2>3. BufferInRow'
    <3>1. \A i \in DOMAIN buffer' :
            /\ i + 1 \in DOMAIN buffer /\ buffer'[i] = buffer[i + 1]
            /\ i \in Nat /\ Len(buffer) \in Nat /\ Len(buffer') = Len(buffer) - 1
      BY <2>1, TailElements
    <3> QED BY SMTT(30), <2>1, <3>1 DEF Queues, BufferInRow
  <2> QED BY Zenon, <1>2, <2>1, <2>2, <2>3 DEF Queues, SentinelAlone
<1>4. CASE HandOver
  <2>1. batch' = collected /\ collected' = <<>> /\ buffer' = buffer /\ stopped' = stopped
    BY Zenon, <1>1, <1>4 DEF HandOver, sync
  <2>2. SentinelAlone(batch)' /\ SentinelAlone(collected)'
    BY Zenon, <2>1 DEF Queues, SentinelAlone
  <2>3. BufferInRow'
    BY Zenon, <2>1 DEF Queues, BufferInRow
  <2> QED BY Zenon, <1>2, <2>2, <2>3 DEF Queues
<1> QED BY Zenon, <1>3, <1>4 DEF Batcher

\* The producer fills an empty buffer from where it starts, and puts a sentinel
\* behind it once it has stopped.
LEMMA ProducerQueues ==
    ASSUME Types, Queues, NoGaps, BackgroundSync \/ EnqueueDocuments \/ FetcherFails
    PROVE  Queues'
<1>1. UNCHANGED <<batches, apply>>
  BY Zenon, ProducerFrame
<1>2. ApplierHasBatch' /\ SentinelAlone(batch)' /\ SentinelAlone(collected)'
  BY Zenon, <1>1 DEF Queues, ApplierHasBatch, SentinelAlone, batches, apply
<1>3. CASE RunProducer \/ RunCatchingUp \/ RunDraining \/ Signal
           \/ ProduceCatchingUp \/ ProduceDraining \/ ProducePrimary \/ FetcherFails
  <2>1. UNCHANGED <<buffer, stopped>>
    BY Zenon, <1>3 DEF RunProducer, RunCatchingUp, RunDraining, Signal, ProduceCatchingUp,
       ProduceDraining, ProducePrimary, FetcherFails, Producing
  <2>2. BufferInRow'
    BY Zenon, <2>1 DEF Queues, BufferInRow
  <2>3. ProducerStops'
    BY ZenonT(30), <1>3, <2>1 DEF Queues, ProducerStops, RunProducer, RunCatchingUp,
       RunDraining, Signal, ProduceCatchingUp, ProduceDraining, ProducePrimary,
       FetcherFails, Producer
  <2> QED BY Zenon, <1>2, <2>2, <2>3 DEF Queues
<1>4. CASE Stop
  BY Zenon, <1>2, <1>4 DEF Stop, Producer, Queues, BufferInRow, ProducerStops
<1>5. CASE SignalNoNewDataForApplier
  <2>1. producer = "push" /\ producer' = "run" /\ stopped /\ stopped' = stopped
    BY Zenon, <1>5 DEF SignalNoNewDataForApplier, Producer, Queues, ProducerStops
  <2>2. BufferInRow'
    <3>1. CASE buffer = <<>> \/ Last(buffer) # Sentinel
      <4>1. buffer' = Append(buffer, Sentinel) /\ Sentinel = 0 /\ buffer \in Seq(Nat)
        BY Zenon, <1>5, <3>1 DEF SignalNoNewDataForApplier, Types, Sentinel
      <4>2. ~Has(buffer)
        BY <3>1, <4>1 DEF Queues, BufferInRow, Has, Last
      <4> QED BY <2>1, <4>1, <4>2, AppendElements DEF Queues, BufferInRow, Has
    <3>2. CASE buffer # <<>> /\ Last(buffer) = Sentinel
      <4>1. buffer' = buffer
        BY Zenon, <1>5, <3>2 DEF SignalNoNewDataForApplier
      <4> QED BY Zenon, <2>1, <4>1 DEF Queues, BufferInRow
    <3> QED BY Zenon, <3>1, <3>2
  <2>3. ProducerStops'
    BY Zenon, <2>1 DEF ProducerStops
  <2> QED BY Zenon, <1>2, <2>2, <2>3 DEF Queues
<1>6. CASE Start
  <2>1. buffer' = buffer /\ (stopped' = stopped \/ buffer = <<>>)
    BY Zenon, <1>6 DEF Start
  <2>2. BufferInRow'
    BY <2>1 DEF Queues, BufferInRow
  <2>3. ProducerStops'
    BY <1>6 DEF Start, Producer, ProducerStops, Types
  <2> QED BY Zenon, <1>2, <2>2, <2>3 DEF Queues
<1>7. CASE EnqueueDocuments
  <2>1. /\ producer = "fetch" /\ producer' = "fetch" /\ ~stopped /\ stopped' = stopped
        /\ buffer' = Append(buffer, lastFetched + 1)
    BY Zenon, <1>7 DEF EnqueueDocuments, Producer, Queues, ProducerStops
  <2>2. ProducerStops'
    BY Zenon, <2>1 DEF ProducerStops
  <2>3. BufferInRow'
    <3>1. /\ buffer \in Seq(Nat) /\ lastFetched + 1 \in Nat /\ lastFetched + 1 # Sentinel
          /\ DOMAIN buffer = 1 .. Len(buffer) /\ Len(buffer) \in Nat
      BY DEF Types, Sentinel
    <3>2. ~Has(buffer)
      BY Zenon, <2>1 DEF Queues, BufferInRow, Has
    <3>3. ASSUME NEW i \in DOMAIN buffer, i + 1 \notin DOMAIN buffer
          PROVE  lastFetched <= buffer[i]
      <4>1. i = Len(buffer) /\ buffer # <<>>
        BY <3>1, <3>3
      <4> QED BY <2>1, <4>1 DEF NoGaps, Last
    <3>4. /\ Len(buffer') = Len(buffer) + 1 /\ DOMAIN buffer' = 1 .. Len(buffer) + 1
          /\ \A i \in DOMAIN buffer : buffer'[i] = buffer[i]
          /\ buffer'[Len(buffer) + 1] = lastFetched + 1
      BY <2>1, <3>1
    <3>5. ASSUME NEW i \in DOMAIN buffer' PROVE buffer'[i] # Sentinel
      BY <3>1, <3>2, <3>4 DEF Has
    <3>6. ASSUME NEW i \in DOMAIN buffer', i + 1 \in DOMAIN buffer'
          PROVE  buffer'[i + 1] <= buffer'[i] + 1
      <4>1. i \in DOMAIN buffer /\ buffer'[i] = buffer[i] /\ buffer[i] \in Nat
        BY <3>1, <3>4, <3>6
      <4>2. CASE i + 1 \in DOMAIN buffer
        BY <3>4, <4>1, <4>2 DEF Queues, BufferInRow
      <4>3. CASE i + 1 \notin DOMAIN buffer
        <5>1. lastFetched <= buffer[i]
          BY <3>3, <4>1, <4>3
        <5>2. buffer'[i + 1] = lastFetched + 1
          BY <3>1, <3>4, <4>1, <4>3
        <5> QED BY <4>1, <5>1, <5>2 DEF Types
      <4> QED BY Zenon, <4>2, <4>3
    <3> QED BY Zenon, <3>5, <3>6 DEF BufferInRow
  <2> QED BY Zenon, <1>2, <2>2, <2>3 DEF Queues
<1> QED BY Zenon, <1>3, <1>4, <1>5, <1>6, <1>7 DEF BackgroundSync

\* The applier takes a batch, and drops it when it is done with it.
LEMMA SyncTailQueues ==
    ASSUME Types, Queues, SyncTail
    PROVE  Queues'
<1>1. UNCHANGED <<sync, buffer, collected>>
  BY Zenon, SyncTailFrame
<1>2. BufferInRow' /\ ProducerStops' /\ SentinelAlone(collected)'
  BY Zenon, <1>1 DEF Queues, BufferInRow, ProducerStops, SentinelAlone, sync
<1>3. SentinelAlone(batch)' /\ ApplierHasBatch'
  <2>1. CASE GetNextBatch
    BY Zenon, <2>1 DEF GetNextBatch, Applier, Queues, SentinelAlone, ApplierHasBatch
  <2>2. CASE SkipSentinel \/ SignalDrainComplete \/ Record
    BY Zenon, <2>2 DEF SkipSentinel, SignalDrainComplete, Record, Applier, Queues,
       SentinelAlone, ApplierHasBatch
  <2>3. CASE WaitForGlobalLock \/ CheckOrder \/ ApplyPrimary \/ ApplyDraining
             \/ ApplyCatchingUp
    BY ZenonT(30), <2>3 DEF WaitForGlobalLock, CheckOrder, ApplyPrimary, ApplyDraining,
       ApplyCatchingUp, Applier, Applying, Queues, SentinelAlone, ApplierHasBatch
  <2>4. CASE LogTransition
    BY Zenon, <2>4 DEF LogTransition, Applier, Queues, SentinelAlone, ApplierHasBatch
  <2>5. CASE RepeatedEntry \/ ReplicatesWhilePrimary
    BY Zenon, <2>5 DEF RepeatedEntry, ReplicatesWhilePrimary, Abort, batches, apply,
       Queues, SentinelAlone, ApplierHasBatch
  <2> QED BY Zenon, <2>1, <2>2, <2>3, <2>4, <2>5 DEF SyncTail
<1> QED BY Zenon, <1>2, <1>3 DEF Queues

\* The coordinator does not touch the queues.
LEMMA CoordinatorQueues ==
    ASSUME Queues, Coordinator
    PROVE  Queues'
<1>1. UNCHANGED <<sync, buffer, batches, apply>>
  BY Zenon, CoordinatorFrame
<1>2. BufferInRow' /\ ProducerStops'
  BY Zenon, <1>1 DEF Queues, BufferInRow, ProducerStops, sync
<1>3. SentinelAlone(collected)' /\ SentinelAlone(batch)' /\ ApplierHasBatch'
  BY Zenon, <1>1 DEF Queues, SentinelAlone, ApplierHasBatch, batches, apply
<1> QED BY Zenon, <1>2, <1>3 DEF Queues

-----------------------------------------------------------------------------
(* How far the optimes go.                                                 *)

\* The bound is a number and includes MaxOp.
LEMMA BoundType == Types => Bound \in Nat /\ Pending \in {0, 1}
  BY TransitionAssumption DEF Types, Bound, Pending

\* It grows, and with the flags and the term it stays.
LEMMA BoundGrows ==
    ASSUME Types, Types', term' = term, Pending' = 1 => Pending = 1
    PROVE  Bound <= Bound'
  BY BoundType, TransitionAssumption DEF Bound, Pending, Types

LEMMA UpToGrows ==
    ASSUME NEW s \in Seq(Nat), NEW m \in Nat, NEW n \in Nat, m <= n, UpTo(s, m)
    PROVE  UpTo(s, n)
<1>1. ASSUME NEW i \in DOMAIN s PROVE s[i] <= n
  <2>1. s[i] \in Nat
    OBVIOUS
  <2>2. s[i] <= m
    BY Zenon DEF UpTo
  <2> QED BY <2>1, <2>2
<1> QED BY Zenon, <1>1 DEF UpTo

\* What is ahead in the queues stays below the bound when it is moved.
LEMMA UpToMoves ==
    ASSUME NEW n \in Nat, NEW s \in Seq(Nat), UpTo(s, n)
    PROVE  /\ \A x \in Nat : x <= n => UpTo(Append(s, x), n)
           /\ s # <<>> => Head(s) <= n /\ Last(s) <= n /\ UpTo(Tail(s), n)
<1>1. ASSUME NEW x \in Nat, x <= n PROVE UpTo(Append(s, x), n)
  <2> SUFFICES ASSUME NEW i \in DOMAIN Append(s, x) PROVE Append(s, x)[i] <= n
    BY Zenon DEF UpTo
  <2>1. CASE i \in DOMAIN s
    BY ZenonT(60), <2>1, AppendElements DEF UpTo
  <2>2. CASE i = Len(s) + 1
    BY Zenon, <1>1, <2>2, AppendElements
  <2> QED BY Zenon, <2>1, <2>2, AppendElements
<1>2. ASSUME s # <<>> PROVE Head(s) <= n /\ Last(s) <= n /\ UpTo(Tail(s), n)
  BY Zenon, <1>2, TailElements DEF UpTo
<1> QED BY Zenon, <1>1, <1>2

\* A step of the coordinator and the bound: the election adds one to the term
\* and its first operation is pending.
LEMMA CoordinatorBound ==
    ASSUME Types, Types', Control, Bounded, Running, Coordinator
    PROVE  Bound <= Bound'
<1>1. applier' = applier
  BY Zenon, CoordinatorFrame DEF apply
<1>2. CASE WinElection
  <2>1. /\ ~isCatchingUp /\ ~isDraining /\ applier # "logTransition" /\ isCatchingUp'
        /\ term' = term + 1
    BY Zenon, <1>2 DEF WinElection, Bounded
  <2> QED BY <2>1, TransitionAssumption DEF Bound, Pending, Types
<1>3. CASE WinElectionAgain \/ UpstreamWrite
  <2>1. term' = term /\ isCatchingUp' = isCatchingUp /\ isDraining' = isDraining
    BY Zenon, <1>3 DEF WinElectionAgain, Abort, UpstreamWrite, flags, coordinator
  <2> QED BY Zenon, <1>1, <2>1, BoundGrows DEF Pending
<1>4. CASE CatchUpTimeout
  <2>1. term' = term /\ isCatchingUp
    BY Zenon, <1>4 DEF CatchUpTimeout, coordinator, Control, OneCatchUp
  <2> QED BY Zenon, <2>1, BoundGrows DEF Pending
<1>5. CASE StepDown \/ Write
  <2>1. term' = term
    BY Zenon, <1>5 DEF StepDown, Write, coordinator
  <2>2. UNCHANGED flags \/ waiter # 0
    BY Zenon, <1>5 DEF StepDown, Write, SignalWaiters, SignalAndRemoveIf
  <2>3. UNCHANGED <<isCatchingUp, isDraining>> \/ isCatchingUp
    BY Zenon, <2>2 DEF flags, Control, OneCatchUp
  <2>4. Pending' = 1 => Pending = 1
    BY <1>1, <2>3 DEF Pending
  <2> QED BY Zenon, <2>1, <2>4, BoundGrows
<1>6. CASE ScanEnds
  <2>1. term' = term /\ isCatchingUp
    BY Zenon, <1>6 DEF ScanEnds, CatchUpOplogToLatest, Control, OneCatchUp
  <2> QED BY Zenon, <2>1, BoundGrows DEF Pending
<1> QED BY Zenon, <1>2, <1>3, <1>4, <1>5, <1>6 DEF Coordinator

\* What the coordinator does to the log and to the waiter.
LEMMA CoordinatorLog ==
    ASSUME Types, Control, Bounded, Coordinator
    PROVE  /\ lastApplied' = lastApplied \/ lastApplied' <= MaxOp
           /\ top' = top \/ top' <= MaxOp
           /\ waiter' \in {0, waiter} \/ waiter' <= top
           /\ applier = "logTransition" => UNCHANGED <<memberState, isCatchingUp, isDraining>>
<1>1. CASE WinElection
  BY Zenon, <1>1 DEF WinElection, log, Bounded
<1>2. CASE WinElectionAgain
  BY Zenon, <1>2 DEF WinElectionAgain, Abort, flags, coordinator, log
<1>3. CASE CatchUpTimeout
  BY Zenon, <1>3 DEF CatchUpTimeout, log, Bounded, Control, OneCatchUp
<1>4. CASE StepDown
  BY Zenon, <1>4 DEF StepDown, InstanceFree, SignalAndRemoveIf, flags, log
<1>5. CASE ScanEnds
  <2>1. PICK t \in scans, fresh \in 0 .. top : CatchUpOplogToLatest(t, fresh)
    BY Zenon, <1>5 DEF ScanEnds
  <2>2. waiter' = waiter \/ waiter' = fresh
    BY Zenon, <2>1 DEF CatchUpOplogToLatest
  <2>3. isCatchingUp
    BY Zenon, <2>1 DEF Control, OneCatchUp
  <2>4. fresh <= top
    BY DEF Types
  <2>5. UNCHANGED log
    BY Zenon, <2>1 DEF CatchUpOplogToLatest
  <2> QED BY Zenon, <2>2, <2>3, <2>4, <2>5 DEF log, Bounded
<1>6. CASE UpstreamWrite
  <2>1. top' <= MaxOp
    BY <1>6, TransitionAssumption DEF UpstreamWrite, Types
  <2> QED BY Zenon, <1>6, <2>1 DEF UpstreamWrite, flags, coordinator
<1>7. CASE Write
  <2>1. lastApplied' <= MaxOp /\ top' <= MaxOp
    BY <1>7, TransitionAssumption DEF Write, Types
  <2> QED BY Zenon, <1>7, <2>1 DEF Write, InstanceFree, SignalWaiters, SignalAndRemoveIf,
             flags
<1> QED BY Zenon, <1>1, <1>2, <1>3, <1>4, <1>5, <1>6, <1>7 DEF Coordinator

LEMMA BoundTypePrimed == ASSUME Types' PROVE Bound' \in Nat
<1>1. Pending' \in {0, 1}
  BY DEF Pending
<1>2. term' \in Nat
  BY TransitionAssumption DEF Types
<1>3. \A m \in Nat \ {0}, n \in Nat, b \in {0, 1} : m + n - b \in Nat
  OBVIOUS
<1> QED BY Zenon, <1>1, <1>2, <1>3, TransitionAssumption DEF Bound

\* A step of the coordinator keeps the optimes below the bound.
LEMMA CoordinatorBounded ==
    ASSUME Types, Types', Control, Bounded, Running, Coordinator
    PROVE  Bounded'
<1>1. UNCHANGED <<sync, buffer, batches, apply>>
  BY Zenon, CoordinatorFrame
<1>2. Bound <= Bound' /\ Bound \in Nat /\ Bound' \in Nat
  BY Zenon, CoordinatorBound, BoundType, BoundTypePrimed
<1>3. UpTo(buffer, Bound)' /\ UpTo(collected, Bound)' /\ UpTo(batch, Bound)'
      /\ UpTo(applying, Bound)'
  BY Zenon, <1>1, <1>2, UpToGrows DEF Bounded, Types, batches, apply
<1>4. MaxOp <= Bound' /\ lastFetched' <= Bound'
  BY <1>1, <1>2, TransitionAssumption DEF Bounded, Types, sync
<1>5. /\ lastApplied' = lastApplied \/ lastApplied' <= MaxOp
      /\ top' = top \/ top' <= MaxOp
      /\ waiter' \in {0, waiter} \/ waiter' <= top
      /\ applier = "logTransition" => UNCHANGED <<memberState, isCatchingUp, isDraining>>
  BY Zenon, CoordinatorLog
<1>6. /\ lastApplied' \in Nat /\ top' \in Nat /\ waiter' \in Nat
      /\ lastApplied <= Bound /\ top <= Bound /\ waiter <= Bound
      /\ lastApplied \in Nat /\ top \in Nat /\ waiter \in Nat
  BY Zenon DEF Bounded, Types
<1>7. lastApplied' <= Bound' /\ top' <= Bound' /\ waiter' <= Bound'
  BY <1>2, <1>4, <1>5, <1>6, TransitionAssumption
<1>8. applier' = "logTransition" =>
        memberState' = "PRIMARY" /\ ~isCatchingUp' /\ ~isDraining'
  BY Zenon, <1>1, <1>5 DEF Bounded, apply
<1> QED BY Zenon, <1>3, <1>4, <1>7, <1>8 DEF Bounded

\* The producer fetches nothing behind the end of the log.
LEMMA ProducerBounded ==
    ASSUME Types, Types', Bounded, BackgroundSync \/ EnqueueDocuments \/ FetcherFails
    PROVE  Bounded'
<1>1. UNCHANGED <<flags, coordinator, batches, apply, log>>
  BY Zenon, ProducerFrame
<1>2. Bound' = Bound
  BY Zenon, <1>1 DEF Bound, Pending, flags, coordinator, apply
<1>3. lastFetched' <= Bound /\ UpTo(buffer', Bound)
  <2>0. Bound \in Nat /\ 0 <= Bound /\ buffer \in Seq(Nat)
    BY SMTT(30), BoundType DEF Types
  <2>1. CASE RunProducer \/ RunCatchingUp \/ RunDraining \/ Signal
             \/ ProduceCatchingUp \/ ProduceDraining \/ ProducePrimary \/ FetcherFails
    BY Zenon, <2>1 DEF RunProducer, RunCatchingUp, RunDraining, Signal, ProduceCatchingUp,
       ProduceDraining, ProducePrimary, FetcherFails, Producing, Bounded
  <2>2. CASE Stop \/ Start
    BY Zenon, <2>0, <2>2 DEF Stop, Start, Bounded
  <2>3. CASE SignalNoNewDataForApplier
    BY Zenon, <2>0, <2>3, UpToMoves, 0 \in Nat DEF SignalNoNewDataForApplier, Sentinel, Bounded
  <2>4. CASE EnqueueDocuments
    <3>1. lastFetched + 1 \in Nat /\ lastFetched + 1 <= Bound
      BY <2>0, <2>4 DEF EnqueueDocuments, Bounded, Types
    <3> QED BY Zenon, <2>0, <2>4, <3>1, UpToMoves DEF EnqueueDocuments, Bounded
  <2> QED BY Zenon, <2>1, <2>2, <2>3, <2>4 DEF BackgroundSync
<1> QED BY Zenon, <1>1, <1>2, <1>3 DEF Bounded, flags, coordinator, batches, apply, log

\* The batcher moves what is below the bound.
LEMMA BatcherBounded ==
    ASSUME Types, Bounded, Batcher
    PROVE  Bounded'
<1>1. UNCHANGED <<flags, coordinator, sync, apply, log>>
  BY Zenon, BatcherTypes
<1>2. Bound' = Bound
  BY Zenon, <1>1 DEF Bound, Pending, flags, coordinator, apply
<1>3. UpTo(buffer', Bound) /\ UpTo(collected', Bound) /\ UpTo(batch', Bound)
  <2>1. CASE TryPop
    <3>1. /\ Bound \in Nat /\ buffer \in Seq(Nat) /\ collected \in Seq(Nat)
          /\ buffer # <<>>
      BY Zenon, <2>1, BoundType DEF Types, TryPop
    <3>2. Head(buffer) \in Nat /\ Head(buffer) <= Bound /\ UpTo(Tail(buffer), Bound)
      BY Zenon, <3>1, UpToMoves, TailElements DEF Bounded
    <3> QED BY Zenon, <2>1, <3>1, <3>2, UpToMoves DEF TryPop, Bounded
  <2>2. CASE HandOver
    <3>1. UpTo(<<>>, Bound)
      BY DEF UpTo
    <3> QED BY Zenon, <2>2, <3>1 DEF HandOver, Bounded
  <2> QED BY Zenon, <2>1, <2>2 DEF Batcher
<1> QED BY Zenon, <1>1, <1>2, <1>3 DEF Bounded, flags, coordinator, sync, apply, log

\* A step of the applier and the bound.
LEMMA SyncTailBound ==
    ASSUME Types, Types', Control, Bounded, Running, SyncTail
    PROVE  /\ Bound <= Bound'
           /\ LogTransition => Bound + 1 <= Bound'
           /\ applier' = "logTransition" =>
                memberState' = "PRIMARY" /\ ~isCatchingUp' /\ ~isDraining'
<1>1. memberState' = memberState /\ term' = term
  BY Zenon, SyncTailFrame
<1>2. CASE GetNextBatch \/ SkipSentinel \/ WaitForGlobalLock \/ CheckOrder
           \/ ApplyPrimary \/ ApplyDraining \/ ApplyCatchingUp
  <2>1. UNCHANGED flags /\ applier' # "logTransition"
    BY Zenon, <1>2 DEF GetNextBatch, SkipSentinel, WaitForGlobalLock, CheckOrder,
       ApplyPrimary, ApplyDraining, ApplyCatchingUp, Applier, Applying
  <2>2. ~LogTransition
    BY Zenon, <1>2 DEF LogTransition, GetNextBatch, SkipSentinel, WaitForGlobalLock,
       CheckOrder, ApplyPrimary, ApplyDraining, ApplyCatchingUp, Applier
  <2>3. Pending' = 1 => Pending = 1
    BY <2>1 DEF Pending, flags
  <2> QED BY Zenon, <1>1, <2>1, <2>2, <2>3, BoundGrows
<1>3. CASE RepeatedEntry \/ ReplicatesWhilePrimary
  <2>1. UNCHANGED <<flags, apply>> /\ applier # "logTransition"
    BY Zenon, <1>3 DEF RepeatedEntry, ReplicatesWhilePrimary, Abort
  <2>2. ~LogTransition
    BY Zenon, <2>1 DEF LogTransition, Applier
  <2>3. Pending' = 1 => Pending = 1
    BY <2>1 DEF Pending, flags, apply
  <2> QED BY Zenon, <1>1, <2>1, <2>2, <2>3, BoundGrows DEF apply
<1>4. CASE SignalDrainComplete
  <2>1. /\ isDraining /\ ~isDraining' /\ ~isCatchingUp'
        /\ applier' = "logTransition" => memberState = "PRIMARY"
    BY Zenon, <1>4 DEF SignalDrainComplete, Applier, Control, OneDrain
  <2>2. ~LogTransition
    BY Zenon, <1>4 DEF SignalDrainComplete, LogTransition, Applier
  <2>3. Pending = 1
    BY Zenon, <2>1 DEF Pending
  <2> QED BY Zenon, <1>1, <2>1, <2>2, <2>3, BoundGrows
<1>5. CASE Record
  <2>1. applier = "record" /\ applier' = "idle"
    BY Zenon, <1>5 DEF Record, Applier
  <2>2. ~LogTransition
    BY Zenon, <2>1 DEF LogTransition, Applier
  <2>3. UNCHANGED flags \/ waiter # 0
    BY Zenon, <1>5 DEF Record, SetMyLastAppliedForward, SignalWaiters, SignalAndRemoveIf
  <2>4. UNCHANGED <<isCatchingUp, isDraining>> \/ isCatchingUp
    BY Zenon, <2>3 DEF flags, Control, OneCatchUp
  <2>5. Pending' = 1 => Pending = 1
    BY <2>1, <2>4 DEF Pending
  <2> QED BY Zenon, <1>1, <2>1, <2>2, <2>5, BoundGrows
<1>6. CASE LogTransition
  <2>1. applier = "logTransition" /\ applier' = "idle"
    BY Zenon, <1>6 DEF LogTransition, Applier
  <2>2. ~isCatchingUp /\ ~isDraining
    BY Zenon, <2>1 DEF Bounded
  <2>3. UNCHANGED flags
    BY Zenon, <1>6, <2>2 DEF LogTransition, SignalWaiters, SignalAndRemoveIf, Control,
       OneCatchUp
  <2>4. Pending = 1 /\ Pending' = 0
    BY <2>1, <2>2, <2>3 DEF Pending, flags
  <2> QED BY <1>1, <2>1, <2>4, TransitionAssumption DEF Bound, Types
<1> QED BY Zenon, <1>2, <1>3, <1>4, <1>5, <1>6 DEF SyncTail

\* The applier applies what is below the bound, and logs the first operation of
\* a term in the place that was left for it.
LEMMA SyncTailBounded ==
    ASSUME Types, Types', Control, Queues, Bounded, Running, SyncTail
    PROVE  Bounded'
<1>1. UNCHANGED <<memberState, term, scans, sync, buffer, collected>>
  BY Zenon, SyncTailFrame
<1>2. /\ Bound <= Bound' /\ Bound \in Nat /\ Bound' \in Nat
      /\ LogTransition => Bound + 1 <= Bound'
      /\ applier' = "logTransition" =>
           memberState' = "PRIMARY" /\ ~isCatchingUp' /\ ~isDraining'
  BY Zenon, SyncTailBound, BoundType, BoundTypePrimed
<1>3. /\ batch' \in {<<>>, batch} /\ applying' \in {<<>>, batch, applying}
      /\ waiter' \in {0, waiter}
  BY Zenon DEF SyncTail, GetNextBatch, SkipSentinel, WaitForGlobalLock, Applying,
     SignalDrainComplete, LogTransition, CheckOrder, RepeatedEntry, ApplyPrimary,
     ApplyDraining, ApplyCatchingUp, ReplicatesWhilePrimary, Record, Abort, flags,
     batches, apply, SignalWaiters, SetMyLastAppliedForward, SignalAndRemoveIf
<1>4. UpTo(buffer, Bound)' /\ UpTo(collected, Bound)'
  BY Zenon, <1>1, <1>2, UpToGrows DEF Bounded, Types
<1>5. UpTo(batch, Bound)' /\ UpTo(applying, Bound)'
  <2>1. UpTo(<<>>, Bound')
    BY DEF UpTo
  <2>2. UpTo(batch, Bound') /\ UpTo(applying, Bound')
    BY Zenon, <1>2, UpToGrows DEF Bounded, Types
  <2> QED BY Zenon, <1>3, <2>1, <2>2
<1>6. MaxOp <= Bound' /\ lastFetched' <= Bound' /\ waiter' <= Bound'
  BY <1>1, <1>2, <1>3, TransitionAssumption DEF Bounded, Types, sync
<1>7. lastApplied' <= Bound' /\ top' <= Bound'
  <2>1. CASE LogTransition
    BY <1>2, <2>1 DEF LogTransition, Bounded, Types
  <2>2. CASE Record
    <3>1. applying \in Seq(Nat) /\ applying # <<>>
      BY Zenon, <2>2 DEF Record, Applier, Queues, ApplierHasBatch, Types
    <3>2. Last(applying) \in Nat /\ Last(applying) <= Bound
      BY Zenon, <1>2, <3>1, UpToMoves, TailElements DEF Bounded
    <3>3. lastApplied' \in {lastApplied, Last(applying)} /\ top' = top
      BY Zenon, <2>2 DEF Record, SetMyLastAppliedForward
    <3> QED BY SMTT(30), <1>2, <3>2, <3>3 DEF Bounded, Types
  <2>3. CASE ~LogTransition /\ ~Record
    <3>1. UNCHANGED log
      BY Zenon, <2>3 DEF SyncTail, GetNextBatch, SkipSentinel, WaitForGlobalLock,
         Applying, SignalDrainComplete, CheckOrder, RepeatedEntry, ApplyPrimary,
         ApplyDraining, ApplyCatchingUp, ReplicatesWhilePrimary, Abort
    <3> QED BY <1>2, <3>1 DEF Bounded, Types, log
  <2> QED BY Zenon, <2>1, <2>2, <2>3
<1> QED BY Zenon, <1>2, <1>4, <1>5, <1>6, <1>7 DEF Bounded

-----------------------------------------------------------------------------
(* Where the operations come from.                                         *)

\* The operations at the ends of the queues are numbers.
LEMMA ReachTypes ==
    ASSUME Types
    PROVE  /\ LastOf(applying) \in Nat /\ LastOf(batch) \in Nat /\ LastOf(collected) \in Nat
           /\ Reach1 \in Nat /\ Reach2 \in Nat /\ Reach3 \in Nat
           /\ lastApplied <= Reach1 /\ Reach1 <= Reach2 /\ Reach2 <= Reach3
<1>1. LastOf(applying) \in Nat /\ LastOf(batch) \in Nat /\ LastOf(collected) \in Nat
  BY Zenon, TailElements, 0 \in Nat DEF LastOf, Types
<1> QED BY SMTT(30), <1>1 DEF Reach1, Reach2, Reach3, Larger, Types

\* When lastApplied has not gone back and the queues are what they were, they
\* still follow it.
LEMMA GapsFrame ==
    ASSUME Types, NoGaps, lastApplied' \in Nat, lastApplied <= lastApplied',
           UNCHANGED <<sync, buffer, batches, applying>>
    PROVE  NoGaps'
<1>1. /\ LastOf(applying) \in Nat /\ LastOf(batch) \in Nat /\ LastOf(collected) \in Nat
      /\ Reach1 \in Nat /\ Reach2 \in Nat /\ Reach3 \in Nat /\ lastApplied \in Nat
      /\ lastFetched \in Nat
  BY Zenon, ReachTypes DEF Types
<1>2. /\ LastOf(applying)' = LastOf(applying) /\ LastOf(batch)' = LastOf(batch)
      /\ LastOf(collected)' = LastOf(collected)
  BY Zenon DEF LastOf, batches
<1>3. /\ Reach1' \in Nat /\ Reach2' \in Nat /\ Reach3' \in Nat
      /\ Reach1 <= Reach1' /\ Reach2 <= Reach2' /\ Reach3 <= Reach3'
  BY <1>1, <1>2 DEF Reach1, Reach2, Reach3, Larger
<1>4. /\ applying # <<>> => Head(applying) \in Nat
      /\ batch # <<>> => Head(batch) \in Nat
      /\ collected # <<>> => Head(collected) \in Nat
      /\ buffer # <<>> => Head(buffer) \in Nat
  BY Zenon, TailElements DEF Types
<1>5. /\ applying # <<>> => Head(applying) <= lastApplied' + 1
      /\ batch # <<>> => Head(batch) <= Reach1' + 1
  BY SMTT(30), <1>1, <1>3, <1>4 DEF NoGaps
<1>6. /\ collected # <<>> => Head(collected) <= Reach2' + 1
      /\ buffer # <<>> => Head(buffer) <= Reach3' + 1
  BY <1>1, <1>3, <1>4 DEF NoGaps
<1>7. ~stopped => lastFetched <= IF buffer = <<>> THEN Reach3' ELSE Last(buffer)
  BY <1>1, <1>3 DEF NoGaps
<1> QED BY Zenon, <1>5, <1>6, <1>7 DEF NoGaps, sync, batches

\* The steps of the coordinator: lastApplied grows.
LEMMA CoordinatorGaps ==
    ASSUME Types, NoGaps, Coordinator
    PROVE  NoGaps'
<1>1. UNCHANGED <<sync, buffer, batches, apply>>
  BY Zenon, CoordinatorFrame
<1>2. lastApplied' = lastApplied \/ lastApplied' = lastApplied + 1
  BY Zenon DEF Coordinator, WinElection, WinElectionAgain, Abort, CatchUpTimeout,
     StepDown, ScanEnds, CatchUpOplogToLatest, UpstreamWrite, Write, log
<1>3. lastApplied' \in Nat /\ lastApplied <= lastApplied'
  BY <1>2 DEF Types
<1> QED BY Zenon, <1>1, <1>3, GapsFrame DEF apply

\* The producer starts from lastApplied and goes on in a row.
LEMMA ProducerGaps ==
    ASSUME Types, Queues, NoGaps, BackgroundSync \/ EnqueueDocuments \/ FetcherFails
    PROVE  NoGaps'
<1>1. UNCHANGED <<batches, apply, log>>
  BY Zenon, ProducerFrame
<1>2. /\ Reach1' = Reach1 /\ Reach2' = Reach2 /\ Reach3' = Reach3
      /\ lastApplied' = lastApplied
  BY Zenon, <1>1 DEF Reach1, Reach2, Reach3, LastOf, batches, apply, log
<1>3. /\ applying' # <<>> => Head(applying') <= lastApplied' + 1
      /\ batch' # <<>> => Head(batch') <= Reach1' + 1
      /\ collected' # <<>> => Head(collected') <= Reach2' + 1
  BY Zenon, <1>1, <1>2 DEF NoGaps, batches, apply
<1>4. /\ buffer \in Seq(Nat) /\ Reach3 \in Nat /\ lastApplied \in Nat
      /\ lastApplied <= Reach3 /\ lastFetched \in Nat
  BY SMTT(30), ReachTypes DEF Types
<1>5. /\ buffer' # <<>> => Head(buffer') <= Reach3 + 1
      /\ ~stopped' => lastFetched' <= IF buffer' = <<>> THEN Reach3 ELSE Last(buffer')
  <2>1. CASE RunProducer \/ RunCatchingUp \/ RunDraining \/ Signal
             \/ ProduceCatchingUp \/ ProduceDraining \/ ProducePrimary \/ FetcherFails
    BY Zenon, <2>1 DEF RunProducer, RunCatchingUp, RunDraining, Signal, ProduceCatchingUp,
       ProduceDraining, ProducePrimary, FetcherFails, Producing, NoGaps
  <2>2. CASE Stop
    BY Zenon, <2>2 DEF Stop, NoGaps
  <2>3. CASE Start
    BY Zenon, <1>4, <2>3 DEF Start, NoGaps
  <2>4. CASE SignalNoNewDataForApplier
    <3>1. stopped'
      BY Zenon, <2>4 DEF SignalNoNewDataForApplier, Producer, Queues, ProducerStops
    <3>2. CASE buffer = <<>>
      <4>1. Head(buffer') = 0
        BY Zenon, <1>4, <2>4, <3>2, AppendElements, 0 \in Nat
           DEF SignalNoNewDataForApplier, Sentinel
      <4> QED BY <1>4, <3>1, <4>1
    <3>3. CASE buffer # <<>>
      <4>1. Head(buffer') = Head(buffer)
        BY Zenon, <1>4, <2>4, <3>3, AppendElements, 0 \in Nat
           DEF SignalNoNewDataForApplier, Sentinel
      <4> QED BY Zenon, <3>1, <3>3, <4>1 DEF NoGaps
    <3> QED BY Zenon, <3>2, <3>3
  <2>5. CASE EnqueueDocuments
    <3>1. /\ buffer' = Append(buffer, lastFetched + 1) /\ lastFetched + 1 \in Nat
          /\ lastFetched' = lastFetched + 1 /\ ~stopped
      BY <1>4, <2>5 DEF EnqueueDocuments, Producer, Queues, ProducerStops
    <3>2. buffer' # <<>> /\ Last(buffer') = lastFetched + 1
      BY Zenon, <1>4, <3>1, AppendElements
    <3>3. lastFetched' <= IF buffer' = <<>> THEN Reach3 ELSE Last(buffer')
      BY <3>1, <3>2
    <3>4. CASE buffer = <<>>
      <4>1. Head(buffer') = lastFetched + 1 /\ lastFetched <= Reach3
        BY Zenon, <1>4, <3>1, <3>4, AppendElements DEF NoGaps
      <4> QED BY <1>4, <3>3, <4>1
    <3>5. CASE buffer # <<>>
      <4>1. Head(buffer') = Head(buffer)
        BY Zenon, <1>4, <3>1, <3>5, AppendElements
      <4> QED BY Zenon, <3>3, <3>5, <4>1 DEF NoGaps
    <3> QED BY Zenon, <3>4, <3>5
  <2> QED BY Zenon, <2>1, <2>2, <2>3, <2>4, <2>5 DEF BackgroundSync
<1> QED BY Zenon, <1>2, <1>3, <1>5 DEF NoGaps

\* The batcher moves an operation to the end of the next batch, and the next
\* batch behind the one that is applied.
LEMMA BatcherGaps ==
    ASSUME Types, Queues, NoGaps, Batcher
    PROVE  NoGaps'
<1>1. UNCHANGED <<sync, apply, log>>
  BY Zenon, BatcherTypes
<1>2. /\ Reach1' = Reach1 /\ lastApplied' = lastApplied
      /\ applying' # <<>> => Head(applying') <= lastApplied' + 1
  BY Zenon, <1>1 DEF NoGaps, Reach1, LastOf, apply, log
<1>3. CASE TryPop
  <2>1. /\ buffer \in Seq(Nat) /\ buffer # <<>> /\ collected \in Seq(Nat)
        /\ collected' = Append(collected, Head(buffer)) /\ buffer' = Tail(buffer)
        /\ batch' = batch /\ stopped' = stopped /\ lastFetched' = lastFetched
    BY Zenon, <1>1, <1>3 DEF TryPop, Types, sync
  <2>2. Head(buffer) \in Nat /\ Reach2 \in Nat /\ Reach3 \in Nat /\ lastFetched \in Nat
    BY Zenon, <2>1, TailElements, ReachTypes DEF Types
  <2>3. collected' # <<>> /\ Last(collected') = Head(buffer)
    BY Zenon, <2>1, <2>2, AppendElements
  <2>4. Reach2' = Reach2 /\ Reach3' = Larger(Reach2, Head(buffer))
    BY Zenon, <1>2, <2>1, <2>3 DEF Reach2, Reach3, LastOf
  <2>5. Head(buffer) <= Reach3' /\ Reach3' \in Nat
    BY <2>2, <2>4 DEF Larger
  <2>6. Head(collected') <= Reach2 + 1
    <3>1. CASE collected = <<>>
      <4>1. Head(collected') = Head(buffer) /\ Reach3 = Larger(Reach2, 0)
        BY Zenon, <2>1, <2>2, <3>1, AppendElements DEF Reach3, LastOf
      <4>2. Reach3 = Reach2
        BY <2>2, <4>1 DEF Larger
      <4> QED BY Zenon, <2>1, <4>1, <4>2 DEF NoGaps
    <3>2. CASE collected # <<>>
      BY Zenon, <2>1, <2>2, <3>2, AppendElements DEF NoGaps
    <3> QED BY Zenon, <3>1, <3>2
  <2>7. ASSUME buffer' # <<>> PROVE Head(buffer') <= Reach3' + 1 /\ Last(buffer') = Last(buffer)
    <3>1. /\ Last(buffer') = Last(buffer) /\ Head(buffer') = buffer[2]
          /\ 2 \in DOMAIN buffer /\ 1 \in DOMAIN buffer /\ Head(buffer) = buffer[1]
      BY Zenon, <2>1, <2>7, TailElements
    <3>2. buffer[2] <= buffer[1] + 1 /\ buffer[2] \in Nat
      <4>1. 1 + 1 = 2 /\ buffer[2] \in Nat
        BY <2>1, <3>1
      <4> QED BY Zenon, <3>1, <4>1 DEF Queues, BufferInRow
    <3> QED BY <2>2, <2>5, <3>1, <3>2
  <2>8. ASSUME ~stopped' PROVE lastFetched' <= IF buffer' = <<>> THEN Reach3' ELSE Last(buffer')
    <3>1. lastFetched <= Last(buffer)
      BY Zenon, <2>1, <2>8 DEF NoGaps
    <3>2. CASE buffer' = <<>>
      <4>1. Last(buffer) = Head(buffer)
        BY Zenon, <2>1, <3>2, TailElements
      <4> QED BY <2>1, <2>2, <2>5, <3>1, <3>2, <4>1
    <3>3. CASE buffer' # <<>>
      BY Zenon, <2>1, <2>7, <3>1, <3>3
    <3> QED BY Zenon, <3>2, <3>3
  <2>9. batch' # <<>> => Head(batch') <= Reach1' + 1
    BY Zenon, <1>2, <2>1 DEF NoGaps
  <2> QED BY Zenon, <1>2, <2>4, <2>6, <2>7, <2>8, <2>9 DEF NoGaps
<1>4. CASE HandOver
  <2>1. /\ batch = <<>> /\ batch' = collected /\ collected' = <<>> /\ buffer' = buffer
        /\ stopped' = stopped /\ lastFetched' = lastFetched
    BY Zenon, <1>1, <1>4 DEF HandOver, sync
  <2>2. /\ LastOf(batch) = 0 /\ LastOf(batch') = LastOf(collected) /\ LastOf(collected') = 0
        /\ Reach1 \in Nat /\ LastOf(collected) \in Nat
    BY Zenon, <2>1, ReachTypes DEF LastOf
  <2>3. Reach2 = Reach1 /\ Reach2' = Reach3 /\ Reach3' = Reach3
    BY <1>2, <2>2 DEF Reach2, Reach3, Larger
  <2> QED BY Zenon, <1>2, <2>1, <2>3 DEF NoGaps
<1> QED BY Zenon, <1>3, <1>4 DEF Batcher

\* The applier takes a batch that follows what it has applied, and gets as far
\* as its end.
LEMMA SyncTailGaps ==
    ASSUME Types, Queues, NoGaps, SyncTail
    PROVE  NoGaps'
<1>1. UNCHANGED <<sync, buffer, collected>>
  BY Zenon, SyncTailFrame
<1>0. /\ LastOf(applying) \in Nat /\ LastOf(batch) \in Nat /\ LastOf(collected) \in Nat
      /\ LastOf(collected') = LastOf(collected) /\ lastApplied \in Nat /\ 0 \in Nat
  BY Zenon, <1>1, ReachTypes DEF Types
<1>2. CASE GetNextBatch
  <2>1. /\ applying = <<>> /\ applying' = batch /\ batch' = <<>>
        /\ lastApplied' = lastApplied
    BY Zenon, <1>2 DEF GetNextBatch, Applier, Queues, ApplierHasBatch, log
  <2>2. LastOf(applying) = 0 /\ LastOf(applying') = LastOf(batch) /\ LastOf(batch') = 0
    BY Zenon, <2>1 DEF LastOf
  <2>3. Reach1 = lastApplied /\ Reach1' = Reach2 /\ Reach2' = Reach2 /\ Reach3' = Reach3
    BY <1>0, <2>1, <2>2 DEF Reach1, Reach2, Reach3, Larger
  <2> QED BY Zenon, <1>1, <2>1, <2>3 DEF NoGaps, sync
<1>3. CASE SkipSentinel \/ SignalDrainComplete
  <2>1. /\ applying = <<Sentinel>> /\ applying' = <<>> /\ batch' = batch
        /\ lastApplied' = lastApplied
    BY Zenon, <1>3 DEF SkipSentinel, SignalDrainComplete, Applier, Queues,
       ApplierHasBatch, log
  <2>2. LastOf(applying) = 0 /\ LastOf(applying') = 0 /\ LastOf(batch') = LastOf(batch)
    BY <2>1 DEF LastOf, Last, Sentinel
  <2>3. Reach1' = Reach1 /\ Reach2' = Reach2 /\ Reach3' = Reach3
    BY Zenon, <1>0, <2>1, <2>2 DEF Reach1, Reach2, Reach3
  <2> QED BY Zenon, <1>1, <2>1, <2>3 DEF NoGaps, sync
<1>4. CASE WaitForGlobalLock \/ CheckOrder \/ ApplyPrimary \/ ApplyDraining
           \/ ApplyCatchingUp
  <2>1. UNCHANGED <<sync, buffer, batches, applying, lastApplied>>
    BY Zenon, <1>1, <1>4 DEF WaitForGlobalLock, CheckOrder, ApplyPrimary, ApplyDraining,
       ApplyCatchingUp, Applying, log, batches
  <2>2. lastApplied' \in Nat /\ lastApplied <= lastApplied'
    BY <1>0, <2>1
  <2> QED BY Zenon, <2>1, <2>2, GapsFrame
<1>5. CASE RepeatedEntry \/ ReplicatesWhilePrimary
  <2>1. UNCHANGED <<sync, buffer, batches, applying, lastApplied>>
    BY Zenon, <1>5 DEF RepeatedEntry, ReplicatesWhilePrimary, Abort, apply, log
  <2>2. lastApplied' \in Nat /\ lastApplied <= lastApplied'
    BY <1>0, <2>1
  <2> QED BY Zenon, <2>1, <2>2, GapsFrame
<1>6. CASE LogTransition
  <2>1. UNCHANGED <<sync, buffer, batches, applying>> /\ lastApplied' = lastApplied + 1
    BY Zenon, <1>1, <1>6 DEF LogTransition, batches
  <2>2. lastApplied' \in Nat /\ lastApplied <= lastApplied'
    BY <1>0, <2>1
  <2> QED BY Zenon, <2>1, <2>2, GapsFrame
<1>7. CASE Record
  <2>1. applying # <<>> /\ applying' = <<>> /\ batch' = batch
    BY Zenon, <1>7 DEF Record, Applier, Queues, ApplierHasBatch
  <2>2. /\ LastOf(applying) = Last(applying) /\ LastOf(applying') = 0
        /\ LastOf(batch') = LastOf(batch)
    BY Zenon, <2>1 DEF LastOf
  <2>3. lastApplied' = Larger(lastApplied, LastOf(applying))
    BY <1>0, <1>7, <2>2 DEF Record, SetMyLastAppliedForward, Larger
  <2>4. lastApplied' = Reach1 /\ Reach1 \in Nat
    BY Zenon, <2>3, ReachTypes DEF Reach1
  <2>5. Reach1' = Reach1
    BY <2>2, <2>4 DEF Reach1, Larger
  <2>6. Reach2' = Reach2 /\ Reach3' = Reach3
    BY Zenon, <1>0, <2>2, <2>5 DEF Reach2, Reach3
  <2> QED BY Zenon, <1>1, <2>1, <2>5, <2>6 DEF NoGaps, sync
<1> QED BY Zenon, <1>2, <1>3, <1>4, <1>5, <1>6, <1>7 DEF SyncTail

-----------------------------------------------------------------------------
(* The first term.                                                         *)

\* Sentinels when an element is appended, or the first one is taken.
LEMMA SentinelsMove ==
    ASSUME NEW s \in Seq(Nat)
    PROVE  /\ Only(<<>>) /\ ~Has(<<>>)
           /\ \A x \in Nat : /\ Has(Append(s, x)) => Has(s) \/ x = Sentinel
                             /\ Only(s) /\ x = Sentinel => Only(Append(s, x))
           /\ s # <<>> => /\ Has(Tail(s)) => Has(s)
                          /\ Only(s) => Only(Tail(s)) /\ Head(s) = Sentinel
                          /\ Head(s) = Sentinel => Has(s)
<1>1. Only(<<>>) /\ ~Has(<<>>)
  BY DEF Only, Has
<1>2. ASSUME NEW x \in Nat
      PROVE  /\ Has(Append(s, x)) => Has(s) \/ x = Sentinel
             /\ Only(s) /\ x = Sentinel => Only(Append(s, x))
  <2>1. \A i \in DOMAIN Append(s, x) :
          (i \in DOMAIN s /\ Append(s, x)[i] = s[i]) \/ Append(s, x)[i] = x
    <3>1. \A i \in DOMAIN s : Append(s, x)[i] = s[i]
      OBVIOUS
    <3>2. \A i \in DOMAIN Append(s, x) : i \in DOMAIN s \/ i = Len(s) + 1
      BY Zenon, AppendElements
    <3>3. Append(s, x)[Len(s) + 1] = x
      BY Zenon, AppendElements
    <3> QED BY Zenon, <3>1, <3>2, <3>3
  <2> QED BY Zenon, <2>1 DEF Has, Only
<1>3. ASSUME s # <<>>
      PROVE  /\ Has(Tail(s)) => Has(s)
             /\ Only(s) => Only(Tail(s)) /\ Head(s) = Sentinel
             /\ Head(s) = Sentinel => Has(s)
  <2>1. /\ \A i \in DOMAIN Tail(s) : i + 1 \in DOMAIN s /\ Tail(s)[i] = s[i + 1]
        /\ Head(s) = s[1] /\ 1 \in DOMAIN s
    BY Zenon, <1>3, TailElements
  <2> QED BY Zenon, <2>1 DEF Has, Only
<1> QED BY Zenon, <1>1, <1>2, <1>3

\* What the first term says of the queues and of the producer.
QueuesUnchanged ==
    /\ SentinelUnderWay' <=> SentinelUnderWay
    /\ Quiet' <=> Quiet
    /\ Has(applying)' <=> Has(applying)
    /\ Has(batch)' <=> Has(batch)
    /\ Has(collected)' <=> Has(collected)
    /\ Only(applying)' <=> Only(applying)
    /\ Only(batch)' <=> Only(batch)
    /\ Only(collected)' <=> Only(collected)
    /\ Only(buffer)' <=> Only(buffer)

LEMMA QueuesFrame ==
    ASSUME UNCHANGED <<sync, buffer, batches, applying>>
    PROVE  QueuesUnchanged
<1>1. UNCHANGED <<producer, seenPrimary, buffer, collected, batch, applying>>
  BY Zenon DEF sync, batches
<1>2. /\ Has(applying)' <=> Has(applying)
      /\ Has(batch)' <=> Has(batch)
      /\ Has(collected)' <=> Has(collected)
      /\ Has(buffer)' <=> Has(buffer)
  BY Zenon, <1>1 DEF Has
<1>3. /\ Only(applying)' <=> Only(applying)
      /\ Only(batch)' <=> Only(batch)
      /\ Only(collected)' <=> Only(collected)
      /\ Only(buffer)' <=> Only(buffer)
  BY Zenon, <1>1 DEF Only
<1>4. SentinelUnderWay' <=> SentinelUnderWay
  BY Zenon, <1>1, <1>2 DEF SentinelUnderWay
<1>5. Quiet' <=> Quiet
  BY Zenon, <1>1 DEF Quiet
<1> QED BY Zenon, <1>2, <1>3, <1>4, <1>5 DEF QueuesUnchanged

\* As long as the queues are the same, the catch-up may give way to the drain.
LEMMA FirstTermFrame ==
    ASSUME FirstTerm, Control, QueuesUnchanged,
           term' = term, canAcceptWrites' = canAcceptWrites,
           memberState' \in {memberState, "SECONDARY"},
           \/ UNCHANGED <<isCatchingUp, isDraining>>
           \/ isCatchingUp /\ ~isCatchingUp' /\ isDraining'
           \/ isCatchingUp /\ ~isCatchingUp' /\ UNCHANGED isDraining
              /\ memberState' = "SECONDARY"
    PROVE  FirstTerm'
<1>1. /\ canAcceptWrites' <=> canAcceptWrites
      /\ memberState' = "PRIMARY" => memberState = "PRIMARY"
      /\ memberState = "SECONDARY" => memberState' = "SECONDARY"
      /\ isCatchingUp' => isCatchingUp
      /\ ~isCatchingUp /\ ~isDraining => ~isDraining'
      /\ memberState' = "PRIMARY" /\ (isCatchingUp \/ isDraining)
           => isCatchingUp' \/ isDraining'
  OBVIOUS
<1>2. CASE term = 0
  <2>1. term' # 1
    BY <1>2
  <2> QED BY Zenon, <1>1, <1>2, <2>1 DEF FirstTerm, QueuesUnchanged
<1>3. CASE term # 0
  <2>1. CASE term' = 1 /\ memberState' = "PRIMARY"
    BY Zenon, <1>1, <1>3, <2>1 DEF FirstTerm, QueuesUnchanged
  <2>2. CASE ~(term' = 1 /\ memberState' = "PRIMARY")
    BY Zenon, <1>3, <2>2 DEF FirstTerm
  <2> QED BY Zenon, <2>1, <2>2
<1> QED BY Zenon, <1>2, <1>3

\* The coordinator: the first election finds no sentinel, and later the drain
\* follows the catch-up.
LEMMA CoordinatorFirstTerm ==
    ASSUME Types, Control, FirstTerm, Running, Coordinator
    PROVE  FirstTerm'
<1>1. UNCHANGED <<sync, buffer, batches, apply>>
  BY Zenon, CoordinatorFrame
<1>2. QueuesUnchanged
  BY Zenon, <1>1, QueuesFrame DEF apply
<1>3. CASE WinElection
  <2>1. /\ memberState' = "PRIMARY" /\ isCatchingUp' /\ ~canAcceptWrites'
        /\ term' = term + 1
    BY Zenon, <1>3 DEF WinElection, Control, WritesOnlyAsPrimary
  <2>2. term' # 0 /\ (term' = 1 => term = 0)
    BY <2>1 DEF Types
  <2>3. ASSUME term' = 1 PROVE ~SentinelUnderWay'
    BY Zenon, <1>2, <2>2, <2>3 DEF FirstTerm, QueuesUnchanged
  <2>4. ~SentinelUnderWay' => ~Has(applying)' /\ ~Has(batch)' /\ ~Has(collected)'
    BY Zenon DEF SentinelUnderWay
  <2> QED BY Zenon, <2>1, <2>2, <2>3, <2>4 DEF FirstTerm
<1>4. CASE WinElectionAgain \/ UpstreamWrite
  <2>1. UNCHANGED <<term, canAcceptWrites, memberState, isCatchingUp, isDraining>>
    BY Zenon, <1>4 DEF WinElectionAgain, Abort, UpstreamWrite, flags, coordinator
  <2> QED BY Zenon, <1>2, <2>1, FirstTermFrame
<1>5. CASE CatchUpTimeout
  <2>1. UNCHANGED <<term, canAcceptWrites, memberState>> /\ isCatchingUp
    BY Zenon, <1>5 DEF CatchUpTimeout, coordinator, Control, OneCatchUp
  <2>2. ~isCatchingUp' /\ isDraining'
    BY Zenon, <1>5, <2>1, FinishStep DEF CatchUpTimeout
  <2> QED BY Zenon, <1>2, <2>1, <2>2, FirstTermFrame
<1>6. CASE StepDown
  <2>1. UNCHANGED flags \/ (isCatchingUp /\ ~isCatchingUp' /\ isDraining')
    BY Zenon, <1>6, SignalStep DEF StepDown, Control, OneCatchUp
  <2>2. memberState' = "SECONDARY" /\ ~canAcceptWrites' /\ term' = term
    BY Zenon, <1>6 DEF StepDown
  <2>3. ~isDraining /\ ~isCatchingUp => ~isDraining' /\ ~isCatchingUp'
    BY Zenon, <2>1 DEF flags
  <2> QED BY Zenon, <1>2, <2>2, <2>3 DEF FirstTerm, QueuesUnchanged
<1>7. CASE ScanEnds
  <2>1. PICK t \in scans, fresh \in 0 .. top : CatchUpOplogToLatest(t, fresh)
    BY Zenon, <1>7 DEF ScanEnds
  <2>2. UNCHANGED <<term, canAcceptWrites, memberState>> /\ isCatchingUp
    BY Zenon, <2>1 DEF CatchUpOplogToLatest, Control, OneCatchUp
  <2>3. term # 0 /\ (term = 1 => t = term)
    BY DEF Types
  <2>4. CASE UNCHANGED <<isCatchingUp, isDraining>>
    BY Zenon, <1>2, <2>2, <2>4, FirstTermFrame
  <2>5. CASE FinishCatchUpOplog(TRUE)
    <3>1. ~isCatchingUp' /\ isDraining'
      BY Zenon, <2>2, <2>5, FinishStep
    <3> QED BY Zenon, <1>2, <2>2, <3>1, FirstTermFrame
  <2>6. CASE memberState # "PRIMARY" \/ t # term
    BY Zenon, <2>2, <2>3, <2>6 DEF FirstTerm
  <2> QED BY Zenon, <2>1, <2>4, <2>5, <2>6 DEF CatchUpOplogToLatest
<1>8. CASE Write
  <2>1. UNCHANGED flags \/ (isCatchingUp /\ ~isCatchingUp' /\ isDraining')
    BY Zenon, <1>8, SignalStep DEF Write, SignalWaiters, Control, OneCatchUp
  <2>2. UNCHANGED <<term, canAcceptWrites, memberState>>
    BY Zenon, <1>8 DEF Write, coordinator
  <2> QED BY Zenon, <1>2, <2>1, <2>2, FirstTermFrame DEF flags
<1> QED BY Zenon, <1>3, <1>4, <1>5, <1>6, <1>7, <1>8 DEF Coordinator

\* The producer puts a sentinel into the buffer in drain mode only, and as long
\* as one is under way and the member is primary it fetches nothing.
LEMMA ProducerFirstTerm ==
    ASSUME Types, Control, Queues, FirstTerm,
           BackgroundSync \/ EnqueueDocuments \/ FetcherFails
    PROVE  FirstTerm'
<1>1. UNCHANGED <<flags, coordinator, batches, apply>>
  BY Zenon, ProducerFrame
<1>2. UNCHANGED <<isCatchingUp, isDraining, memberState, term, canAcceptWrites,
                  collected, batch, applying>>
  BY Zenon, <1>1 DEF flags, coordinator, batches, apply
<1>3. /\ Has(applying)' <=> Has(applying)
      /\ Has(batch)' <=> Has(batch)
      /\ Has(collected)' <=> Has(collected)
      /\ Only(applying)' <=> Only(applying)
      /\ Only(batch)' <=> Only(batch)
      /\ Only(collected)' <=> Only(collected)
  BY Zenon, <1>2 DEF Has, Only
<1>4. buffer' = buffer \/ EnqueueDocuments \/ SignalNoNewDataForApplier
  BY Zenon DEF BackgroundSync, RunProducer, RunCatchingUp, RunDraining, Signal, Stop,
     Start, ProduceCatchingUp, ProduceDraining, ProducePrimary, FetcherFails, Producing
<1>5. producer' = "push" => isDraining /\ producer = "signal"
  BY Zenon DEF BackgroundSync, RunProducer, RunCatchingUp, RunDraining, Signal, Stop,
     Start, SignalNoNewDataForApplier, ProduceCatchingUp, ProduceDraining,
     ProducePrimary, EnqueueDocuments, FetcherFails, Producer
<1>6. Has(buffer)' => Has(buffer) \/ producer = "push"
  <2>1. CASE buffer' = buffer
    BY Zenon, <2>1 DEF Has
  <2>2. CASE EnqueueDocuments
    <3>1. lastFetched + 1 \in Nat /\ lastFetched + 1 # Sentinel /\ buffer \in Seq(Nat)
      BY DEF Types, Sentinel
    <3> QED BY Zenon, <2>2, <3>1, SentinelsMove DEF EnqueueDocuments
  <2>3. CASE SignalNoNewDataForApplier
    BY Zenon, <2>3 DEF SignalNoNewDataForApplier, Producer
  <2> QED BY Zenon, <1>4, <2>1, <2>2, <2>3
<1>7. SentinelUnderWay' => SentinelUnderWay \/ isDraining
  BY Zenon, <1>3, <1>5, <1>6 DEF SentinelUnderWay
<1>8. CASE term = 0
  <2>1. term' = 0 /\ term' # 1
    BY <1>2, <1>8
  <2> QED BY Zenon, <1>2, <1>7, <1>8, <2>1 DEF FirstTerm
<1>9. CASE term = 1 /\ memberState = "PRIMARY"
  <2>1. ASSUME Quiet PROVE (Only(buffer) => Only(buffer)')
    <3>1. CASE SignalNoNewDataForApplier
      <4>1. buffer \in Seq(Nat) /\ Sentinel \in Nat
        BY DEF Types, Sentinel
      <4> QED
        BY Zenon, <3>1, <4>1, SentinelsMove DEF SignalNoNewDataForApplier
    <3>2. ~EnqueueDocuments
      BY Zenon, <2>1 DEF EnqueueDocuments, Producer, Quiet
    <3>3. CASE buffer' = buffer
      BY Zenon, <3>3 DEF Only
    <3> QED BY Zenon, <1>4, <3>1, <3>2, <3>3
  <2>2. ASSUME canAcceptWrites \/ SentinelUnderWay, Quiet PROVE Quiet'
    <3>1. ~isCatchingUp
      BY Zenon, <1>9, <2>2 DEF FirstTerm, Control, WritesOnlyAsPrimary
    <3>2. CASE RunProducer
      BY Zenon, <1>9, <3>2 DEF RunProducer, Producer, Quiet
    <3>3. CASE RunCatchingUp
      BY Zenon, <2>2, <3>1, <3>3 DEF RunCatchingUp, Producer, Producing, Quiet
    <3>4. CASE RunDraining
      BY Zenon, <2>2, <3>4 DEF RunDraining, Producer, Producing, Quiet
    <3>5. CASE Stop \/ Signal \/ SignalNoNewDataForApplier
      BY Zenon, <3>5 DEF Stop, Signal, SignalNoNewDataForApplier, Producer, Quiet
    <3>6. ~(Start \/ ProduceCatchingUp \/ ProduceDraining \/ ProducePrimary
            \/ EnqueueDocuments \/ FetcherFails)
      BY Zenon, <2>2 DEF Start, ProduceCatchingUp, ProduceDraining, ProducePrimary,
         EnqueueDocuments, FetcherFails, Producer, Quiet
    <3> QED BY Zenon, <3>2, <3>3, <3>4, <3>5, <3>6 DEF BackgroundSync
  <2>3. ASSUME SentinelUnderWay', ~SentinelUnderWay PROVE Quiet'
    <3>1. producer' = "push"
      BY Zenon, <1>3, <1>6, <2>3 DEF SentinelUnderWay
    <3> QED BY Zenon, <3>1 DEF Quiet
  <2>4. isCatchingUp' => ~SentinelUnderWay'
    BY <1>2, <1>7, <1>9 DEF FirstTerm, Control, OneDrain
  <2>5. canAcceptWrites' \/ SentinelUnderWay' => Quiet'
    BY Zenon, <1>2, <1>9, <2>2, <2>3 DEF FirstTerm
  <2>6. canAcceptWrites \/ Has(applying) \/ Has(batch) \/ Has(collected)
          => Quiet /\ Only(buffer)
    BY Zenon, <1>9 DEF FirstTerm, SentinelUnderWay
  <2>7. term' # 0
    BY <1>2, <1>9
  <2> QED BY Zenon, <1>2, <1>3, <1>9, <2>1, <2>4, <2>5, <2>6, <2>7 DEF FirstTerm
<1>10. CASE term # 0 /\ ~(term = 1 /\ memberState = "PRIMARY")
  BY Zenon, <1>2, <1>10 DEF FirstTerm
<1> QED BY Zenon, <1>8, <1>9, <1>10

\* The batcher moves a sentinel only when it is the last one in the buffer.
LEMMA BatcherFirstTerm ==
    ASSUME Types, Queues, FirstTerm, Batcher
    PROVE  FirstTerm'
<1>1. UNCHANGED <<flags, coordinator, sync, apply>>
  BY Zenon, BatcherTypes
<1>2. UNCHANGED <<isCatchingUp, isDraining, memberState, term, canAcceptWrites,
                  producer, seenPrimary, applying>>
  BY Zenon, <1>1 DEF flags, coordinator, sync, apply
<1>3. /\ Has(applying)' <=> Has(applying)
      /\ Only(applying)' <=> Only(applying)
      /\ Quiet' <=> Quiet
  BY Zenon, <1>2 DEF Has, Only, Quiet
<1>4. CASE TryPop
  <2>1. /\ buffer \in Seq(Nat) /\ buffer # <<>> /\ collected \in Seq(Nat)
        /\ collected' = Append(collected, Head(buffer)) /\ buffer' = Tail(buffer)
        /\ batch' = batch
    BY Zenon, <1>4 DEF TryPop, Types
  <2>2. Head(buffer) \in Nat
    BY <2>1, TailElements
  <2>3. /\ Has(batch)' <=> Has(batch)
        /\ Only(batch)' <=> Only(batch)
    BY Zenon, <2>1 DEF Has, Only
  <2>4. /\ Has(collected)' => Has(collected) \/ Head(buffer) = Sentinel
        /\ Only(collected) /\ Head(buffer) = Sentinel => Only(collected)'
        /\ Has(buffer)' => Has(buffer)
        /\ Only(buffer) => Only(buffer)' /\ Head(buffer) = Sentinel
        /\ Head(buffer) = Sentinel => Has(buffer)
    BY Zenon, <2>1, <2>2, SentinelsMove
  <2>5. Head(buffer) = Sentinel => Only(buffer)'
    <3>1. ASSUME Head(buffer) = Sentinel PROVE buffer' = <<>>
      <4>1. Len(buffer) = 1
        <5>1. buffer[1] = Sentinel /\ 1 \in DOMAIN buffer
          BY Zenon, <2>1, <3>1, TailElements
        <5> QED BY Zenon, <5>1 DEF Queues, BufferInRow
      <4>2. Tail(buffer) # <<>> => 2 \in DOMAIN buffer
        BY Zenon, <2>1, TailElements
      <4>3. 2 \notin DOMAIN buffer
        BY <2>1, <4>1
      <4> QED BY Zenon, <2>1, <4>2, <4>3
    <3> QED BY Zenon, <2>1, <3>1, SentinelsMove
  <2>6. SentinelUnderWay' => SentinelUnderWay
    BY Zenon, <1>2, <1>3, <2>3, <2>4 DEF SentinelUnderWay
  <2> QED BY ZenonT(30), <1>2, <1>3, <2>3, <2>4, <2>5, <2>6 DEF FirstTerm
<1>5. CASE HandOver
  <2>1. batch = <<>> /\ batch' = collected /\ collected' = <<>> /\ buffer' = buffer
    BY Zenon, <1>5 DEF HandOver
  <2>2. /\ Has(batch)' <=> Has(collected)
        /\ Only(batch)' <=> Only(collected)
        /\ Has(buffer)' <=> Has(buffer)
        /\ Only(buffer)' <=> Only(buffer)
    BY Zenon, <2>1 DEF Has, Only
  <2>3. Only(collected)' /\ ~Has(collected)' /\ ~Has(batch)
    BY Zenon, <2>1, SentinelsMove DEF Types
  <2>4. SentinelUnderWay' => SentinelUnderWay
    BY Zenon, <1>2, <1>3, <2>2, <2>3 DEF SentinelUnderWay
  <2> QED BY ZenonT(30), <1>2, <1>3, <2>2, <2>3, <2>4 DEF FirstTerm
<1> QED BY Zenon, <1>4, <1>5 DEF Batcher

\* The applier takes the sentinel after everything that was fetched before it:
\* when the drain of the first term is complete, the queues hold no operation.
LEMMA SyncTailFirstTerm ==
    ASSUME Types, Control, Queues, FirstTerm, SyncTail
    PROVE  FirstTerm'
<1>1. UNCHANGED <<sync, buffer, collected>>
  BY Zenon, SyncTailFrame
<1>2. UNCHANGED <<memberState, term>>
  BY Zenon DEF SyncTail, GetNextBatch, SkipSentinel, WaitForGlobalLock,
     SignalDrainComplete, LogTransition, CheckOrder, RepeatedEntry, ApplyPrimary,
     ApplyDraining, ApplyCatchingUp, ReplicatesWhilePrimary, Record, Applier, Abort,
     coordinator
<1>3. /\ Has(buffer)' <=> Has(buffer)
      /\ Has(collected)' <=> Has(collected)
      /\ Only(buffer)' <=> Only(buffer)
      /\ Only(collected)' <=> Only(collected)
      /\ Quiet' <=> Quiet
      /\ producer' = producer
  BY Zenon, <1>1 DEF Has, Only, Quiet, sync
<1>4. CASE GetNextBatch
  <2>1. /\ applying = <<>> /\ applying' = batch /\ batch' = <<>>
        /\ UNCHANGED <<flags, canAcceptWrites>>
    BY Zenon, <1>4 DEF GetNextBatch, Applier, Queues, ApplierHasBatch
  <2>2. UNCHANGED <<isCatchingUp, isDraining, canAcceptWrites>>
    BY Zenon, <2>1 DEF flags
  <2>3. /\ Has(applying)' <=> Has(batch)
        /\ Only(applying)' <=> Only(batch)
    BY Zenon, <2>1 DEF Has, Only
  <2>4. Only(batch)' /\ ~Has(batch)' /\ ~Has(applying)
    BY Zenon, <2>1, SentinelsMove DEF Types
  <2>5. SentinelUnderWay' => SentinelUnderWay
    BY Zenon, <1>3, <2>3, <2>4 DEF SentinelUnderWay
  <2> QED BY ZenonT(30), <1>2, <1>3, <2>2, <2>3, <2>4, <2>5 DEF FirstTerm
<1>5. CASE SkipSentinel \/ Record
  <2>1. applying' = <<>> /\ batch' = batch /\ canAcceptWrites' = canAcceptWrites
    BY Zenon, <1>5 DEF SkipSentinel, Record
  <2>2. UNCHANGED flags \/ (isCatchingUp /\ ~isCatchingUp' /\ isDraining')
    BY Zenon, <1>5, SignalStep DEF SkipSentinel, Record, SetMyLastAppliedForward,
       SignalWaiters, Control, OneCatchUp
  <2>3. /\ isCatchingUp' => isCatchingUp
        /\ ~isCatchingUp /\ ~isDraining => ~isDraining'
        /\ isCatchingUp \/ isDraining => isCatchingUp' \/ isDraining'
        /\ canAcceptWrites' <=> canAcceptWrites
    BY <2>1, <2>2 DEF flags
  <2>4. /\ Has(batch)' <=> Has(batch)
        /\ Only(batch)' <=> Only(batch)
    BY Zenon, <2>1 DEF Has, Only
  <2>5. Only(applying)' /\ ~Has(applying)'
    BY Zenon, <2>1, SentinelsMove DEF Types
  <2>6. SentinelUnderWay' => SentinelUnderWay
    BY Zenon, <1>3, <2>4, <2>5 DEF SentinelUnderWay
  <2> QED BY ZenonT(30), <1>2, <1>3, <2>3, <2>4, <2>5, <2>6 DEF FirstTerm
<1>6. CASE SignalDrainComplete
  <2>1. /\ applying = <<Sentinel>> /\ applying' = <<>> /\ batch' = batch
        /\ ~isDraining' /\ (canAcceptWrites' <=> memberState = "PRIMARY")
        /\ isCatchingUp' = isCatchingUp
    BY Zenon, <1>6 DEF SignalDrainComplete, Applier, Queues, ApplierHasBatch
  <2>2. Has(applying)
    BY <2>1 DEF Has
  <2>3. /\ Has(batch)' <=> Has(batch)
        /\ Only(batch)' <=> Only(batch)
    BY Zenon, <2>1 DEF Has, Only
  <2>4. Only(applying)' /\ ~Has(applying)'
    BY Zenon, <2>1, SentinelsMove DEF Types
  <2>5. SentinelUnderWay
    BY Zenon, <2>2 DEF SentinelUnderWay
  <2> QED BY ZenonT(30), <1>2, <1>3, <2>1, <2>2, <2>3, <2>4, <2>5 DEF FirstTerm
<1>7. CASE LogTransition
  <2>1. UNCHANGED <<batches, applying, canAcceptWrites>>
    BY Zenon, <1>1, <1>7 DEF LogTransition, batches
  <2>2. UNCHANGED flags \/ (isCatchingUp /\ ~isCatchingUp' /\ isDraining')
    BY Zenon, <1>7, SignalStep DEF LogTransition, SignalWaiters, Control, OneCatchUp
  <2>3. QueuesUnchanged
    BY Zenon, <1>1, <2>1, QueuesFrame
  <2> QED BY Zenon, <1>2, <2>1, <2>2, <2>3, FirstTermFrame DEF flags
<1>8. CASE WaitForGlobalLock \/ CheckOrder \/ ApplyPrimary \/ ApplyDraining
           \/ ApplyCatchingUp \/ RepeatedEntry \/ ReplicatesWhilePrimary
  <2>1. UNCHANGED <<batches, applying, canAcceptWrites, flags>>
    BY Zenon, <1>1, <1>8 DEF WaitForGlobalLock, CheckOrder, ApplyPrimary,
       ApplyDraining, ApplyCatchingUp, RepeatedEntry, ReplicatesWhilePrimary, Applying,
       Abort, batches, apply, coordinator
  <2>2. QueuesUnchanged
    BY Zenon, <1>1, <2>1, QueuesFrame
  <2> QED BY Zenon, <1>2, <2>1, <2>2, FirstTermFrame DEF flags
<1> QED BY Zenon, <1>4, <1>5, <1>6, <1>7, <1>8 DEF SyncTail

-----------------------------------------------------------------------------
(* The invariant, and what it implies.                                     *)

LEMMA InitIInv == Init => IInv
<1> SUFFICES ASSUME Init PROVE IInv
  OBVIOUS
<1>1. Control
  BY Zenon, InitControl
<1>2. Types
  <2>1. <<>> \in Seq(Nat) /\ 0 \in 0 .. MaxTerm /\ 1 \in Nat \ {0} /\ 0 \in Nat
    BY TransitionAssumption
  <2> QED BY Zenon, <2>1 DEF Init, Types
<1>3. Queues
  BY DEF Init, Queues, ApplierHasBatch, SentinelAlone, BufferInRow, ProducerStops
<1>4. Bounded
  <2>1. Bound = MaxOp /\ MaxOp \in Nat \ {0}
    BY TransitionAssumption DEF Init, Bound, Pending
  <2>2. UpTo(<<>>, Bound)
    BY DEF UpTo
  <2> QED BY <2>1, <2>2 DEF Init, Bounded
<1>5. NoGaps
  BY DEF Init, NoGaps
<1>6. FirstTerm
  BY DEF Init, FirstTerm, SentinelUnderWay, Has
<1> QED BY Zenon, <1>1, <1>2, <1>3, <1>4, <1>5, <1>6 DEF IInv

\* No thread moves.
LEMMA Stutter ==
    ASSUME IInv, UNCHANGED vars
    PROVE  IInv'
<1>1. UNCHANGED <<sync, buffer, batches, apply, coordinator, flags, log, failed>>
  BY Zenon DEF vars
<1>2. UNCHANGED <<applier, applying, isCatchingUp, isDraining, term, lastApplied,
                  canAcceptWrites, memberState>>
  BY Zenon, <1>1 DEF apply, flags, coordinator, log
<1>3. Control'
  BY Zenon, NextControl DEF IInv
<1>4. Types'
  <2>1. UNCHANGED <<term, waiter, scans, lastApplied, top, stopped, seenPrimary,
                    lastFetched, buffer, collected, batch, applying, producer,
                    applier, failed>>
    BY Zenon, <1>1 DEF sync, batches, apply, coordinator, flags, log
  <2> QED BY <2>1 DEF IInv, Types
<1>5. Queues'
  BY Zenon, <1>1 DEF IInv, Queues, ApplierHasBatch, SentinelAlone, BufferInRow,
     ProducerStops, sync, batches, apply
<1>6. Bound' = Bound
  BY Zenon, <1>2 DEF Bound, Pending
<1>7. Bounded'
  BY Zenon, <1>1, <1>6 DEF IInv, Bounded, UpTo, sync, batches, apply, coordinator,
     flags, log
<1>8. NoGaps'
  BY <1>1, <1>2, GapsFrame DEF IInv, Types
<1>9. FirstTerm'
  BY Zenon, <1>1, <1>2, QueuesFrame, FirstTermFrame DEF IInv
<1> QED BY Zenon, <1>3, <1>4, <1>5, <1>7, <1>8, <1>9 DEF IInv

LEMMA NextIInv == IInv /\ [Next]_vars => IInv'
<1> SUFFICES ASSUME IInv, [Next]_vars PROVE IInv'
  OBVIOUS
<1>1. CASE UNCHANGED vars
  BY Zenon, <1>1, Stutter
<1>2. CASE Next
  <2>0. /\ Control /\ Types /\ Queues /\ Bounded /\ NoGaps /\ FirstTerm
        /\ ApplierHasBatch /\ Running
    BY Zenon, <1>2 DEF IInv, Queues, Next
  <2>1. Control'
    BY Zenon, <2>0, NextControl
  <2>2. CASE Coordinator
    <3>1. Types'
      BY Zenon, <2>0, <2>2, CoordinatorTypes
    <3> QED BY Zenon, <2>0, <2>1, <2>2, <3>1, CoordinatorQueues, CoordinatorBounded,
               CoordinatorGaps, CoordinatorFirstTerm DEF IInv
  <2>3. CASE BackgroundSync \/ EnqueueDocuments \/ FetcherFails
    <3>1. Types'
      BY Zenon, <2>0, <2>3, ProducerTypes
    <3> QED BY Zenon, <2>0, <2>1, <2>3, <3>1, ProducerQueues, ProducerBounded,
               ProducerGaps, ProducerFirstTerm DEF IInv
  <2>4. CASE Batcher
    BY Zenon, <2>0, <2>1, <2>4, BatcherTypes, BatcherQueues, BatcherBounded,
       BatcherGaps, BatcherFirstTerm DEF IInv
  <2>5. CASE SyncTail
    <3>1. Types'
      BY Zenon, <2>0, <2>5, SyncTailTypes
    <3> QED BY Zenon, <2>0, <2>1, <2>5, <3>1, SyncTailQueues, SyncTailBounded,
               SyncTailGaps, SyncTailFirstTerm DEF IInv
  <2> QED BY Zenon, <1>2, <2>2, <2>3, <2>4, <2>5 DEF Next
<1> QED BY Zenon, <1>1, <1>2

\* Two queues one behind the other.
LEMMA OnlyConcat ==
    ASSUME NEW s \in Seq(Nat), NEW t \in Seq(Nat), Only(s), Only(t)
    PROVE  s \o t \in Seq(Nat) /\ Only(s \o t)
<1>1. s \o t \in Seq(Nat)
  OBVIOUS
<1>2. ASSUME NEW i \in DOMAIN (s \o t) PROVE (s \o t)[i] = Sentinel
  <2>1. CASE i \in DOMAIN s
    BY <2>1 DEF Only
  <2>2. CASE i \notin DOMAIN s
    <3>1. i - Len(s) \in DOMAIN t /\ (s \o t)[i] = t[i - Len(s)]
      BY <2>2
    <3> QED BY Zenon, <3>1 DEF Only
  <2> QED BY Zenon, <2>1, <2>2
<1> QED BY Zenon, <1>1, <1>2 DEF Only

LEMMA IInvDrained == IInv => Drained
<1> SUFFICES ASSUME IInv, canAcceptWrites, term = 1
             PROVE  \A i \in DOMAIN InFlight : InFlight[i] = Sentinel
  BY Zenon DEF Drained
<1>1. /\ buffer \in Seq(Nat) /\ collected \in Seq(Nat) /\ batch \in Seq(Nat)
      /\ applying \in Seq(Nat)
  BY Zenon DEF IInv, Types
<1>2. Only(buffer) /\ Only(collected) /\ Only(batch) /\ Only(applying)
  BY Zenon DEF IInv, Control, WritesOnlyAsPrimary, FirstTerm
<1>3. buffer \o collected \in Seq(Nat) /\ Only(buffer \o collected)
  BY Zenon, <1>1, <1>2, OnlyConcat
<1>4. buffer \o collected \o batch \in Seq(Nat) /\ Only(buffer \o collected \o batch)
  BY Zenon, <1>1, <1>2, <1>3, OnlyConcat
<1>5. Only(buffer \o collected \o batch \o applying)
  BY Zenon, <1>1, <1>2, <1>4, OnlyConcat
<1> QED BY Zenon, <1>5 DEF Only, InFlight

LEMMA IInvTypeOK == IInv => TypeOK
<1> SUFFICES ASSUME IInv PROVE TypeOK
  OBVIOUS
<1>1. Bound \in Nat /\ Bound <= MaxOp + MaxTerm /\ MaxOp + MaxTerm \in Nat
  BY TransitionAssumption DEF IInv, Types, Bound, Pending, Bounded
<1>2. ASSUME NEW s \in Seq(Nat), UpTo(s, Bound)
      PROVE  s \in Seq(Ops \cup {Sentinel})
  <2>1. \A i \in 1 .. Len(s) : s[i] \in Ops \cup {Sentinel}
    BY <1>1, <1>2 DEF UpTo, Ops, Sentinel
  <2> QED BY <2>1
<1>3. {buffer, collected, batch, applying} \subseteq Seq(Ops \cup {Sentinel})
  <2>1. /\ buffer \in Seq(Nat) /\ collected \in Seq(Nat) /\ batch \in Seq(Nat)
        /\ applying \in Seq(Nat) /\ UpTo(buffer, Bound) /\ UpTo(collected, Bound)
        /\ UpTo(batch, Bound) /\ UpTo(applying, Bound)
    BY Zenon DEF IInv, Types, Bounded
  <2> QED BY Zenon, <1>2, <2>1
<1>4. /\ lastApplied \in Ops /\ top \in Ops /\ lastFetched \in Ops \cup {0}
      /\ waiter \in Ops \cup {0}
  BY <1>1 DEF IInv, Types, Bounded, Ops
<1>5. scans \subseteq 1 .. MaxTerm /\ term \in 0 .. MaxTerm
  BY TransitionAssumption DEF IInv, Types
<1> QED BY Zenon, <1>3, <1>4, <1>5 DEF IInv, Types, Control, TypeOK

HIDE DEF IInv, TypeOK, Drained, NoGap

LEMMA Invariance == Spec => []IInv
BY InitIInv, NextIInv, PTL DEF Spec

\* For any bounds, the coordinator, the threads and the queues have their types,
\* and no optime exceeds what was written upstream and what elections logged.
THEOREM TransitionTypes == Spec => []TypeOK
BY Invariance, IInvTypeOK, PTL

\* For any bounds, the member accepts writes only as a primary that is neither
\* catching up nor draining (signalDrainComplete, step down).
THEOREM TransitionSafety == Spec => []WritesOnlyAsPrimary
<1>1. IInv => WritesOnlyAsPrimary
  BY Zenon DEF IInv, Control
<1> QED BY <1>1, Invariance, PTL

\* For any bounds, the assertions of _finishCatchUpOplog_inlock and
\* signalDrainComplete hold, in whatever order scans, timeouts, applied
\* operations and step downs come.
THEOREM AssertionsHold == Spec => []TransitionAssertions
<1>1. IInv => TransitionAssertions
  BY Zenon DEF IInv, Control
<1> QED BY <1>1, Invariance, PTL

\* For any bounds, when the member accepts writes in its first term, every
\* operation it fetched is applied: none is left in the buffer of the background
\* sync, in the batcher or with the applier (signalDrainComplete).
THEOREM DrainedBeforeWrites == Spec => []Drained
BY Invariance, IInvDrained, PTL

\* For any bounds, and however often the producer stops and starts again, a batch
\* that oplogApplication takes leaves no operation out.
THEOREM AppliesWithoutGap == Spec => []NoGap
<1>1. IInv => NoGap
  <2>1. IInv /\ applier = "apply" => applying # <<>>
    <3>1. ASSUME IInv PROVE ApplierHasBatch
      BY Zenon, <3>1 DEF IInv, Queues
    <3> QED BY <3>1 DEF ApplierHasBatch
  <2> QED BY Zenon, <2>1 DEF IInv, NoGaps, NoGap
<1> QED BY <1>1, Invariance, PTL
=============================================================================
