------------------------- MODULE PrimaryTransition -------------------------
(* One member of a replica set on its way from secondary to a primary that *)
(* takes writes, and back.  The replication coordinator catches up after   *)
(* an election it won and then waits for the applier to drain; the         *)
(* background sync thread fetches operations into the buffer, and a        *)
(* sentinel once it has stopped; the batcher thread takes them out in      *)
(* batches and the applier thread applies those, and completes the         *)
(* transition when it meets the sentinel.  The threads read each other's   *)
(* flags one at a time.                                                    *)
(*                                                                         *)
(* An operation is its optime, a number: the log of the set is 1, 2, 3 ... *)
(* A step that fails an assertion sets failed: the process has ended.      *)
EXTENDS Naturals, Sequences

CONSTANTS MaxTerm,      \* bound on the elections won
          MaxOp,        \* bound on the operations in the log of the set
          BatchLimit    \* replBatchLimitOperations

ASSUME TransitionAssumption ==
    MaxTerm \in Nat /\ MaxOp \in Nat \ {0} /\ BatchLimit \in Nat \ {0}

VARIABLES
    memberState,        \* _memberState of the coordinator
    term,               \* _cachedTerm
    isCatchingUp,       \* _isCatchingUp
    isDraining,         \* _isWaitingForDrainToComplete
    canAcceptWrites,    \* _canAcceptNonLocalWrites
    waiter,             \* the optime awaited in _opTimeWaiterList, 0: none
    scans,              \* the terms of the freshness scans under way
    lastApplied,        \* the optime of the last applied operation
    top,                \* the last operation in the log of the set
    producer,           \* where the background sync thread is
    seenPrimary,        \* the member state it has read
    stopped,            \* _stopped of the background sync
    lastFetched,        \* _lastOpTimeFetched, 0: null
    buffer,             \* _oplogBuffer
    collected,          \* the batch the batcher is filling
    batch,              \* the batch it has ready: OpQueueBatcher::_ops
    applier,            \* where the applier thread is
    applying,           \* the batch it has taken
    failed              \* the assertion that ended the process

flags == <<isCatchingUp, isDraining, waiter>>
coordinator == <<memberState, term, canAcceptWrites, scans>>
sync == <<producer, seenPrimary, stopped, lastFetched>>
batches == <<collected, batch>>
apply == <<applier, applying>>
log == <<lastApplied, top>>
vars == <<flags, coordinator, sync, buffer, batches, apply, log, failed>>

Sentinel == 0
Last(s) == s[Len(s)]
Ops == 1 .. MaxOp + MaxTerm

Init ==
    /\ memberState = "SECONDARY"
    /\ term = 0
    /\ isCatchingUp = FALSE
    /\ isDraining = FALSE
    /\ canAcceptWrites = FALSE
    /\ waiter = 0
    /\ scans = {}
    /\ lastApplied = 1
    /\ top = 1
    /\ producer = "run"
    /\ seenPrimary = FALSE
    /\ stopped = TRUE
    /\ lastFetched = 0
    /\ buffer = <<>>
    /\ collected = <<>>
    /\ batch = <<>>
    /\ applier = "idle"
    /\ applying = <<>>
    /\ failed = "none"

\* An invariant() or fassert() fails.
Abort(name) ==
    /\ failed' = name
    /\ UNCHANGED <<flags, coordinator, sync, buffer, batches, apply, log>>

-----------------------------------------------------------------------------
(* The replication coordinator. *)

\* _finishCatchUpOplog_inlock
FinishCatchUpOplog(startToDrain) ==
    IF ~isCatchingUp \/ (startToDrain /\ isDraining)
      THEN failed' = "finishCatchUp" /\ UNCHANGED <<isCatchingUp, isDraining>>
      ELSE /\ isCatchingUp' = FALSE
           /\ isDraining' = (isDraining \/ startToDrain)
           /\ UNCHANGED failed

\* kActionWinElection: the member is primary and looks for fresher members.
WinElection ==
    /\ memberState = "SECONDARY"
    /\ term < MaxTerm
    /\ ~isCatchingUp /\ ~isDraining
    /\ memberState' = "PRIMARY"
    /\ term' = term + 1
    /\ isCatchingUp' = TRUE
    /\ scans' = scans \cup {term + 1}
    /\ UNCHANGED <<isDraining, waiter, canAcceptWrites, sync, buffer, batches,
                   apply, log, failed>>

\* The assertions of kActionWinElection.
WinElectionAgain ==
    /\ memberState = "SECONDARY"
    /\ term < MaxTerm
    /\ isCatchingUp \/ isDraining
    /\ Abort("winElection")

\* _catchUpOplogToLatest_inlock, with the freshest optime the scan has found
\* (0 if no member answered).
CatchUpOplogToLatest(t, fresh) ==
    /\ scans' = scans \ {t}
    /\ \/ /\ memberState # "PRIMARY" \/ t # term
          /\ FinishCatchUpOplog(FALSE)
          /\ UNCHANGED waiter
       \/ /\ memberState = "PRIMARY" /\ t = term
          /\ fresh <= lastApplied
          /\ FinishCatchUpOplog(TRUE)
          /\ UNCHANGED waiter
       \/ /\ memberState = "PRIMARY" /\ t = term
          /\ fresh > lastApplied
          /\ waiter' = fresh
          /\ UNCHANGED <<isCatchingUp, isDraining, failed>>
    /\ UNCHANGED <<memberState, term, canAcceptWrites, sync, buffer, batches,
                   apply, log>>

ScanEnds == \E t \in scans, fresh \in 0 .. top : CatchUpOplogToLatest(t, fresh)

\* Mutant: the waiter stays in the list.
CatchUpTimeoutKeepsWaiter ==
    /\ waiter # 0
    /\ FinishCatchUpOplog(TRUE)
    /\ UNCHANGED <<waiter, coordinator, sync, buffer, batches, apply, log>>

\* Its timeout, which finds the waiter still in the list.
CatchUpTimeout ==
    /\ waiter # 0
    /\ waiter' = 0
    /\ FinishCatchUpOplog(TRUE)
    /\ UNCHANGED <<coordinator, sync, buffer, batches, apply, log>>

\* WaiterList::signalAndRemoveIf_inlock
SignalAndRemoveIf(condition) ==
    IF waiter # 0 /\ condition
      THEN waiter' = 0 /\ FinishCatchUpOplog(TRUE)
      ELSE UNCHANGED <<flags, failed>>

\* The waiters for an optime up to t.
SignalWaiters(t) == SignalAndRemoveIf(waiter <= t)

\* The instance can be locked: the applier holds it exclusively while it logs
\* the transition, and the ParallelBatchWriterMode lock while it applies.
InstanceFree == applier \notin {"logTransition", "applyDraining", "applyCatchingUp"}

\* Mutant: stepping down leaves _canAcceptNonLocalWrites set.
StepDownKeepsWrites ==
    /\ memberState = "PRIMARY"
    /\ InstanceFree
    /\ SignalAndRemoveIf(TRUE)
    /\ memberState' = "SECONDARY"
    /\ UNCHANGED <<term, canAcceptWrites, scans, sync, buffer, batches, apply, log>>

\* _updateMemberStateFromTopologyCoordinator_inlock on the way out of primary,
\* under the global lock: all waiters are signalled, the flags are left alone.
StepDown ==
    /\ memberState = "PRIMARY"
    /\ InstanceFree
    /\ SignalAndRemoveIf(TRUE)
    /\ canAcceptWrites' = FALSE
    /\ memberState' = "SECONDARY"
    /\ UNCHANGED <<term, scans, sync, buffer, batches, apply, log>>

\* Another member is primary and writes.
UpstreamWrite ==
    /\ top < MaxOp
    /\ ~canAcceptWrites
    /\ top' = top + 1
    /\ UNCHANGED <<flags, coordinator, sync, buffer, batches, apply,
                   lastApplied, failed>>

\* A client writes to this member, under an intent lock on the instance.
Write ==
    /\ canAcceptWrites
    /\ InstanceFree
    /\ lastApplied < MaxOp
    /\ lastApplied' = lastApplied + 1
    /\ top' = lastApplied + 1
    /\ SignalWaiters(lastApplied + 1)
    /\ UNCHANGED <<coordinator, sync, buffer, batches, apply>>

-----------------------------------------------------------------------------
(* The background sync thread. *)

Producer(from, to) ==
    /\ producer = from
    /\ producer' = to
    /\ UNCHANGED <<flags, coordinator, batches, apply, log, failed>>

Producing == UNCHANGED <<seenPrimary, stopped, lastFetched, buffer>>

\* _runProducer reads the member state, then one flag after the other.
RunProducer ==
    /\ Producer("run", "runCatchingUp")
    /\ seenPrimary' = (memberState = "PRIMARY")
    /\ UNCHANGED <<stopped, lastFetched, buffer>>

RunCatchingUp ==
    /\ Producer("runCatchingUp", IF isCatchingUp THEN "start" ELSE "runDraining")
    /\ Producing

RunDraining ==
    /\ Producer("runDraining",
                IF isDraining \/ seenPrimary THEN "stop" ELSE "start")
    /\ Producing

\* Mutant: the thread that has stopped signals nothing.
StopOnly ==
    /\ Producer("stop", "run")
    /\ stopped' = TRUE
    /\ lastFetched' = 0
    /\ UNCHANGED <<seenPrimary, buffer>>

\* BackgroundSync::stop
Stop ==
    /\ Producer("stop", "signal")
    /\ stopped' = TRUE
    /\ lastFetched' = 0
    /\ UNCHANGED <<seenPrimary, buffer>>

\* Mutant: only a primary drains.
SignalAsPrimary ==
    /\ Producer("signal", IF isDraining /\ memberState = "PRIMARY"
                            THEN "push" ELSE "run")
    /\ Producing

Signal ==
    /\ Producer("signal", IF isDraining THEN "push" ELSE "run")
    /\ Producing

\* Mutant: the sentinel overtakes the operations in the buffer.
SignalInFront ==
    /\ Producer("push", "run")
    /\ buffer' = <<Sentinel>> \o buffer
    /\ UNCHANGED <<seenPrimary, stopped, lastFetched>>

\* _signalNoNewDataForApplier
SignalNoNewDataForApplier ==
    /\ Producer("push", "run")
    /\ buffer' = IF buffer = <<>> \/ Last(buffer) # Sentinel
                   THEN Append(buffer, Sentinel) ELSE buffer
    /\ UNCHANGED <<seenPrimary, stopped, lastFetched>>

\* Mutant: fetching restarts one operation too late.
StartAfterNext ==
    /\ Producer("start", IF stopped /\ buffer # <<>> THEN "run" ELSE "produce")
    /\ IF stopped /\ buffer = <<>>
         THEN stopped' = FALSE /\ lastFetched' = lastApplied + 1
         ELSE UNCHANGED <<stopped, lastFetched>>
    /\ UNCHANGED <<seenPrimary, buffer>>

\* BackgroundSync::start: it throws when the buffer is not empty.
Start ==
    /\ Producer("start", IF stopped /\ buffer # <<>> THEN "run" ELSE "produce")
    /\ IF stopped /\ buffer = <<>>
         THEN stopped' = FALSE /\ lastFetched' = lastApplied
         ELSE UNCHANGED <<stopped, lastFetched>>
    /\ UNCHANGED <<seenPrimary, buffer>>

\* _produce looks at the flags again before it goes to a sync source.
ProduceCatchingUp ==
    /\ Producer("produce", IF isCatchingUp THEN "fetch" ELSE "produceDraining")
    /\ Producing

ProduceDraining ==
    /\ Producer("produceDraining",
                IF isDraining THEN "run" ELSE "producePrimary")
    /\ Producing

ProducePrimary ==
    /\ Producer("producePrimary",
                IF memberState = "PRIMARY" THEN "run" ELSE "fetch")
    /\ Producing

\* Mutant: a document beyond the end of the log.
EnqueueOneMore ==
    /\ Producer("fetch", "fetch")
    /\ lastFetched <= top
    /\ buffer' = Append(buffer, lastFetched + 1)
    /\ lastFetched' = lastFetched + 1
    /\ UNCHANGED <<seenPrimary, stopped>>

\* _enqueueDocuments, one document.
EnqueueDocuments ==
    /\ Producer("fetch", "fetch")
    /\ lastFetched < top
    /\ buffer' = Append(buffer, lastFetched + 1)
    /\ lastFetched' = lastFetched + 1
    /\ UNCHANGED <<seenPrimary, stopped>>

\* The fetcher ends by itself, or because it has to stop.
FetcherFails ==
    /\ Producer("fetch", "run")
    /\ Producing

ShouldStopFetching ==
    isDraining \/ (memberState = "PRIMARY" /\ ~isCatchingUp)

FetcherStops == ShouldStopFetching /\ FetcherFails

-----------------------------------------------------------------------------
(* The batcher thread. *)

\* tryPopAndWaitForMore: a sentinel makes a batch of its own.
TryPop ==
    /\ buffer # <<>>
    /\ Len(collected) < BatchLimit
    /\ collected # <<>> => Sentinel \notin {Head(collected), Head(buffer)}
    /\ collected' = Append(collected, Head(buffer))
    /\ buffer' = Tail(buffer)
    /\ UNCHANGED <<flags, coordinator, sync, batch, apply, log, failed>>

\* The batch is made available once the one before it was taken.
HandOver ==
    /\ collected # <<>>
    /\ batch = <<>>
    /\ batch' = collected
    /\ collected' = <<>>
    /\ UNCHANGED <<flags, coordinator, sync, buffer, apply, log, failed>>

-----------------------------------------------------------------------------
(* The applier thread: SyncTail::oplogApplication. *)

Applier(from, to) ==
    /\ applier = from
    /\ applier' = to
    /\ UNCHANGED <<memberState, term, scans, sync, buffer, collected>>

Applying ==
    UNCHANGED <<flags, canAcceptWrites, batch, applying, log, failed>>

GetNextBatch ==
    /\ batch # <<>>
    /\ Applier("idle", IF Head(batch) = Sentinel THEN "sentinel" ELSE "apply")
    /\ applying' = batch
    /\ batch' = <<>>
    /\ UNCHANGED <<flags, canAcceptWrites, log, failed>>

\* The sentinel, when nobody waits for it.
SkipSentinel ==
    /\ ~isDraining
    /\ Applier("sentinel", "idle")
    /\ applying' = <<>>
    /\ UNCHANGED <<flags, canAcceptWrites, batch, log, failed>>

\* signalDrainComplete up to the request for the global lock.
WaitForGlobalLock ==
    /\ isDraining
    /\ Applier("sentinel", "drain")
    /\ Applying

\* The rest of it, under the global lock, as far as the mutex is held.
SignalDrainComplete ==
    /\ Applier("drain", IF memberState = "PRIMARY" THEN "logTransition"
                                                   ELSE "idle")
    /\ isDraining' = FALSE
    /\ canAcceptWrites' = (memberState = "PRIMARY")
    /\ failed' = IF isCatchingUp \/ (memberState = "PRIMARY" /\ canAcceptWrites)
                   THEN "signalDrainComplete" ELSE failed
    /\ applying' = <<>>
    /\ UNCHANGED <<isCatchingUp, waiter, batch, log>>

\* onTransitionToPrimary: the first operation of the new term is logged.
LogTransition ==
    /\ Applier("logTransition", "idle")
    /\ lastApplied' = lastApplied + 1
    /\ top' = lastApplied + 1
    /\ SignalWaiters(lastApplied + 1)
    /\ UNCHANGED <<canAcceptWrites, batch, applying>>

\* A batch must start after the last applied operation.
CheckOrder ==
    /\ Applier("apply", "applyPrimary")
    /\ Head(applying) > lastApplied
    /\ Applying

RepeatedEntry ==
    /\ applier = "apply"
    /\ Head(applying) <= lastApplied
    /\ Abort("OplogOutOfOrder")

\* multiApply reads the member state, then one flag after the other.
ApplyPrimary ==
    /\ Applier("applyPrimary",
               IF memberState = "PRIMARY" THEN "applyDraining" ELSE "record")
    /\ Applying

ApplyDraining ==
    /\ Applier("applyDraining", IF isDraining THEN "record" ELSE "applyCatchingUp")
    /\ Applying

ApplyCatchingUp ==
    /\ isCatchingUp
    /\ Applier("applyCatchingUp", "record")
    /\ Applying

ReplicatesWhilePrimary ==
    /\ applier = "applyCatchingUp"
    /\ ~isCatchingUp
    /\ Abort("CannotApplyOplogWhilePrimary")

\* setMyLastAppliedOpTimeForward
SetMyLastAppliedForward(t) ==
    IF t > lastApplied
      THEN lastApplied' = t /\ SignalWaiters(t)
      ELSE UNCHANGED <<lastApplied, flags, failed>>

\* The operations are applied: ApplyBatchFinalizer::record.
Record ==
    /\ Applier("record", "idle")
    /\ SetMyLastAppliedForward(Last(applying))
    /\ applying' = <<>>
    /\ UNCHANGED <<canAcceptWrites, batch, top>>

-----------------------------------------------------------------------------
Coordinator ==
    \/ WinElection \/ WinElectionAgain \/ CatchUpTimeout \/ StepDown
    \/ ScanEnds \/ UpstreamWrite \/ Write

BackgroundSync ==
    \/ RunProducer \/ RunCatchingUp \/ RunDraining \/ Stop \/ Signal
    \/ SignalNoNewDataForApplier \/ Start \/ ProduceCatchingUp
    \/ ProduceDraining \/ ProducePrimary

Batcher == TryPop \/ HandOver

SyncTail ==
    \/ GetNextBatch \/ SkipSentinel \/ WaitForGlobalLock
    \/ SignalDrainComplete \/ LogTransition
    \/ CheckOrder \/ RepeatedEntry \/ ApplyPrimary \/ ApplyDraining
    \/ ApplyCatchingUp \/ ReplicatesWhilePrimary \/ Record

Running == failed = "none"

Next ==
    /\ Running
    /\ \/ Coordinator \/ BackgroundSync \/ EnqueueDocuments \/ FetcherFails
       \/ Batcher \/ SyncTail

Spec == Init /\ [][Next]_vars

\* The threads run; a fetcher that should stop does (it is asked after every
\* batch, and cancelled); the scan and the catch-up have timeouts.
Fairness ==
    /\ WF_vars(Running /\ BackgroundSync)
    /\ WF_vars(Running /\ FetcherStops)
    /\ WF_vars(Running /\ Batcher)
    /\ WF_vars(Running /\ SyncTail)
    /\ WF_vars(Running /\ ScanEnds)
    /\ WF_vars(Running /\ CatchUpTimeout)

FairSpec == Spec /\ Fairness

-----------------------------------------------------------------------------
(* Properties *)

\* The operations fetched and not applied, and the sentinels among them.
InFlight == buffer \o collected \o batch \o applying

\* The type invariant of the coordinator, the threads and the queues between
\* them.
TypeOK ==
    /\ memberState \in {"PRIMARY", "SECONDARY"}
    /\ term \in 0 .. MaxTerm
    /\ isCatchingUp \in BOOLEAN /\ isDraining \in BOOLEAN
    /\ canAcceptWrites \in BOOLEAN
    /\ waiter \in Ops \cup {0}
    /\ scans \subseteq 1 .. MaxTerm
    /\ lastApplied \in Ops /\ top \in Ops
    /\ stopped \in BOOLEAN /\ seenPrimary \in BOOLEAN
    /\ lastFetched \in Ops \cup {0}
    /\ {buffer, collected, batch, applying} \subseteq Seq(Ops \cup {Sentinel})
    /\ producer \in {"run", "runCatchingUp", "runDraining", "stop", "signal",
                     "push", "start", "produce", "produceDraining",
                     "producePrimary", "fetch"}
    /\ applier \in {"idle", "sentinel", "drain", "logTransition", "apply",
                    "applyPrimary", "applyDraining", "applyCatchingUp", "record"}
    /\ failed \in {"none", "finishCatchUp", "winElection", "signalDrainComplete",
                   "OplogOutOfOrder", "CannotApplyOplogWhilePrimary"}

\* Writes are accepted only by a primary that is done with catching up and with
\* draining, whatever step downs, timeouts and late scans come in between
\* (signalDrainComplete sets _canAcceptNonLocalWrites, stepping down clears it).
WritesOnlyAsPrimary ==
    canAcceptWrites => memberState = "PRIMARY" /\ ~isCatchingUp /\ ~isDraining

\* The assertions of _finishCatchUpOplog_inlock and signalDrainComplete hold:
\* of the late scan, its timeout, the waiter and a step down, one only ends the
\* catch-up, and the drain of a member never overlaps with its catch-up.
TransitionAssertions ==
    failed \notin {"finishCatchUp", "signalDrainComplete"}

\* When the member starts to accept writes for the first time, every operation
\* it has fetched is applied: the sentinel that completes the drain is behind all
\* of them.  (A later time it may not be: see CoalescedAndProcessed.)
Drained ==
    canAcceptWrites /\ term = 1 =>
        \A i \in DOMAIN InFlight : InFlight[i] = Sentinel

\* The applier skips no operation: a batch it takes starts at the latest with
\* the operation after the last applied one, however often the producer was
\* stopped and started again.
NoGap ==
    applier = "apply" => Head(applying) <= lastApplied + 1

\* A primary comes to accept writes unless it steps down (or an assertion ends
\* it): catch-up ends, the producer stops and the sentinel gets through.
PrimaryBecomesWritable ==
    (memberState = "PRIMARY") ~>
        (canAcceptWrites \/ memberState = "SECONDARY" \/ ~Running)

\* A member that stepped down, in catch-up or in drain mode too, comes to fetch
\* operations again.
SyncResumes ==
    (memberState = "SECONDARY") ~>
        (producer = "fetch" \/ memberState = "PRIMARY" \/ ~Running)

\* _finishCatchUpOplog_inlock: "If the node steps down during the catch-up, we
\* don't go into drain mode."
NoDrainAfterStepDown ==
    [][memberState = "PRIMARY" /\ memberState' = "SECONDARY" /\ isCatchingUp
         => ~isDraining']_vars

\* kActionWinElection: invariant(!_isCatchingUp) and
\* invariant(!_isWaitingForDrainToComplete).
WinsWhenIdle == failed # "winElection"

\* oplogApplication, of the sentinel: "This means that the network thread has
\* coalesced and we have processed all of its data."
CoalescedAndProcessed ==
    applier = "drain" => \A i \in DOMAIN InFlight : InFlight[i] = Sentinel

\* oplogApplication: "Make sure the oplog doesn't go back in time or repeat an
\* entry."
NoRepeatedEntry == failed # "OplogOutOfOrder"

\* multiApply: a member that is catching up or draining may apply operations
\* while it is primary.
AppliesInCatchUp == failed # "CannotApplyOplogWhilePrimary"
=============================================================================
