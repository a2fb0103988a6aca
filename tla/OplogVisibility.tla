--------------------------- MODULE OplogVisibility ---------------------------
(***************************************************************************)
(* The oplog of a primary in the WiredTiger record store.  Writers take    *)
(* consecutive timestamps but commit in any order, and the journal is      *)
(* flushed in batches.  The record store hides the entries at and behind   *)
(* the first one that may not be shown yet, so that those who read forward *)
(* (the other members of the set) miss no entry, neither now nor after a   *)
(* crash of the primary.  Timestamps are 1, 2, ...                         *)
(***************************************************************************)
EXTENDS Naturals, Sequences, FiniteSets

CONSTANTS Writer,   \* the operations that write
          MaxTs,    \* bound on the timestamps taken
          MaxBatch  \* bound on the entries a writer logs at once

\* The writers are finitely many and the bounds are numbers.
ASSUME OplogVisibilityAssumption ==
    /\ IsFiniteSet(Writer)
    /\ MaxTs \in Nat
    /\ MaxBatch \in Nat \ {0}

VARIABLES
    writer,       \* where each writer is, and its timestamps first .. last
    lastTs,       \* the last timestamp taken: the global timestamp
    highestSeen,  \* _oplog_highestSeen
    uncommitted,  \* _uncommittedRecordIds
    waiting,      \* _opsWaitingForJournal
    wtLog,        \* the entries of the committed transactions, in commit order
    flushed,      \* how much of wtLog is in the journal on disk
    applied,      \* lastAppliedOpTime
    durable,      \* lastDurableOpTime
    thread,       \* the oplog journal thread: where it is, and the ops it took
    sync,         \* the sync under _lastSyncMutex: how far, whose, and its token
    readTill,     \* _oplogReadTill of a reader that opens a cursor, or none
    read          \* the entries the reader has returned

records == <<lastTs, highestSeen, uncommitted, waiting>>
journal == <<flushed, durable, sync>>
vars == <<writer, records, wtLog, applied, journal, thread, readTill, read>>

Ts == 1 .. MaxTs
None == MaxTs + 1
Syncer == {"oplogJournalThread", "journalFlusher"}

Later(i, j) == IF i < j THEN j ELSE i
First(S) == CHOOSE i \in S : \A j \in S : i <= j

\* The entries of the first n transactions of the journal.
Entries(n) == UNION {wtLog[i] : i \in 1 .. n}
Committed == Entries(Len(wtLog))
Flushed == Entries(flushed)

\* isCappedHidden: the first of _uncommittedRecordIds is not behind id.
IsCappedHidden(id) == \E first \in uncommitted : first <= id

Idle == [pc |-> "idle", first |-> 0, last |-> 0]
Waiting == [pc |-> "check", batch |-> {}, served |-> FALSE]
NoSync == [pc |-> "free", by |-> "nobody", token |-> 0]

\* notify_one on _opsWaitingForJournalCV.
Notified == IF thread.pc = "asleep" THEN Waiting ELSE thread

-----------------------------------------------------------------------------
(***************************************************************************)
(* The writers                                                             *)
(***************************************************************************)

\* getNextOpTime: w takes k timestamps, and oplogDiskLocRegister registers the
\* first of them.
GetNextOpTime(w, k) ==
    LET ts == lastTs + 1
    IN /\ writer[w] = Idle
       /\ lastTs + k <= MaxTs
       /\ lastTs' = lastTs + k
       /\ writer' = [writer EXCEPT ![w] = [pc |-> "registered", first |-> ts,
                                           last |-> lastTs + k]]
       /\ uncommitted' = uncommitted \cup {ts}
       /\ highestSeen' = ts
       /\ UNCHANGED <<waiting, wtLog, applied, journal, thread, readTill, read>>

\* _insertRecords: the entries go to the transaction.
InsertRecords(w) ==
    /\ writer[w].pc = "registered"
    /\ writer' = [writer EXCEPT ![w].pc = "inserted"]
    /\ highestSeen' = Later(highestSeen, writer[w].last)
    /\ UNCHANGED <<lastTs, uncommitted, waiting, wtLog, applied, journal, thread,
                   readTill, read>>

\* WiredTigerRecoveryUnit::_commit, the transaction itself ...
TxnClose(w) ==
    /\ writer[w].pc = "inserted"
    /\ writer' = [writer EXCEPT ![w].pc = "committed"]
    /\ wtLog' = Append(wtLog, writer[w].first .. writer[w].last)
    /\ UNCHANGED <<records, applied, journal, thread, readTill, read>>

\* _dealtWithCappedId with didCommit, when the op need not wait for the journal,
\* and without it.
EraseRecordId(id) ==
    /\ uncommitted' = uncommitted \ {id}
    /\ UNCHANGED <<waiting, thread>>

\* Mutant: notify the thread unless it has nothing to do.
DeferRecordIdWakesBusy(id) ==
    /\ waiting' = waiting \cup {id}
    /\ thread' = IF waiting # {} THEN Notified ELSE thread
    /\ UNCHANGED uncommitted

\* Mutant: the op waits for the journal, and is shown meanwhile.
DeferRecordIdShown(id) ==
    /\ waiting' = waiting \cup {id}
    /\ thread' = IF waiting = {} THEN Notified ELSE thread
    /\ uncommitted' = uncommitted \ {id}

\* _dealtWithCappedId when it waits for the journal.
DeferRecordId(id) ==
    /\ waiting' = waiting \cup {id}
    /\ thread' = IF waiting = {} THEN Notified ELSE thread
    /\ UNCHANGED uncommitted

\* Mutant: no op waits for the journal.
DealtWithCappedIdAtOnce(w) ==
    /\ writer[w].pc = "committed"
    /\ writer' = [writer EXCEPT ![w].pc = "dealt"]
    /\ EraseRecordId(writer[w].first)
    /\ UNCHANGED <<lastTs, highestSeen, wtLog, applied, journal, readTill, read>>

\* ... then CappedInsertChange::commit: only the highest op is shown at once ...
DealtWithCappedId(w) ==
    /\ writer[w].pc = "committed"
    /\ writer' = [writer EXCEPT ![w].pc = "dealt"]
    /\ IF writer[w].first # highestSeen THEN DeferRecordId(writer[w].first)
                                        ELSE EraseRecordId(writer[w].first)
    /\ UNCHANGED <<lastTs, highestSeen, wtLog, applied, journal, readTill, read>>

\* ... then the hook of _logOpsInner: setMyLastAppliedOpTimeForward.
OnCommit(w) ==
    /\ writer[w].pc = "dealt"
    /\ writer' = [writer EXCEPT ![w] = Idle]
    /\ applied' = Later(applied, writer[w].last)
    /\ UNCHANGED <<records, wtLog, journal, thread, readTill, read>>

\* WiredTigerRecoveryUnit::_abort, and CappedInsertChange::rollback.
Abort(w) ==
    /\ writer[w].pc \in {"registered", "inserted"}
    /\ writer' = [writer EXCEPT ![w] = Idle]
    /\ EraseRecordId(writer[w].first)
    /\ UNCHANGED <<lastTs, highestSeen, wtLog, applied, journal, readTill, read>>

-----------------------------------------------------------------------------
(***************************************************************************)
(* The oplog journal thread, and WiredTigerSessionCache::waitUntilDurable, *)
(* which it calls.  Another thread, the journal flusher, calls it too, now *)
(* and then; of its calls only those matter that do sync.                  *)
(***************************************************************************)

\* The thread waits for _opsWaitingForJournalCV; when there are ops it takes them
\* and calls waitUntilDurable, which notes _lastSyncTime.
TakeOpsWaiting ==
    /\ thread.pc = "check"
    /\ thread' = IF waiting = {} THEN [thread EXCEPT !.pc = "asleep"]
                 ELSE [pc |-> "called", batch |-> waiting, served |-> FALSE]
    /\ waiting' = {}
    /\ UNCHANGED <<writer, lastTs, highestSeen, uncommitted, wtLog, applied,
                   journal, readTill, read>>

\* Under _lastSyncMutex: _lastSyncTime has moved, another thread has synced.
AlreadySynced ==
    /\ thread.pc = "called"
    /\ sync.pc = "free"
    /\ thread.served
    /\ thread' = [thread EXCEPT !.pc = "returned"]
    /\ UNCHANGED <<writer, records, wtLog, applied, journal, readTill, read>>

\* Under _lastSyncMutex, by: _lastSyncTime moves and the token is taken.
GetToken(by) ==
    /\ sync.pc = "free"
    /\ by = "oplogJournalThread" => thread.pc = "called" /\ ~thread.served
    /\ sync' = [pc |-> "token", by |-> by, token |-> applied]
    /\ thread' = [thread EXCEPT !.served = thread.pc = "called"]
    /\ UNCHANGED <<writer, records, wtLog, applied, flushed, durable, readTill,
                   read>>

LogFlush ==
    /\ sync.pc = "token"
    /\ flushed' = Len(wtLog)
    /\ sync' = [sync EXCEPT !.pc = "flushed"]
    /\ UNCHANGED <<writer, records, wtLog, applied, durable, thread, readTill,
                   read>>

Return ==
    /\ sync' = NoSync
    /\ thread' = IF sync.by = "oplogJournalThread"
                 THEN [thread EXCEPT !.pc = "returned"] ELSE thread
    /\ UNCHANGED <<writer, records, wtLog, applied, flushed, readTill, read>>

\* Mutant: what is applied by now is reported as durable.
OnDurableLate == sync.pc = "flushed" /\ durable' = applied /\ Return

\* JournalListenerImpl::onDurable: setMyLastDurableOpTimeForward.
OnDurable ==
    /\ sync.pc = "flushed"
    /\ durable' = Later(durable, sync.token)
    /\ Return

\* The ops are in the journal: they are shown.
OpsBecameVisible ==
    /\ thread.pc = "returned"
    /\ thread' = Waiting
    /\ uncommitted' = uncommitted \ thread.batch
    /\ UNCHANGED <<writer, lastTs, highestSeen, waiting, wtLog, applied, journal,
                   readTill, read>>

-----------------------------------------------------------------------------
(***************************************************************************)
(* Those who read and those who wait                                       *)
(***************************************************************************)

\* Mutant: the cursor may read to the highest op seen.
OplogSetStartHackHighest ==
    /\ readTill = None
    /\ readTill' = highestSeen
    /\ UNCHANGED <<writer, records, wtLog, applied, journal, thread, read>>

\* getCursor: _oplogSetStartHack, before the reader's transaction is open.
OplogSetStartHack ==
    /\ readTill = None
    /\ readTill' = IF uncommitted = {} THEN highestSeen ELSE First(uncommitted)
    /\ UNCHANGED <<writer, records, wtLog, applied, journal, thread, read>>

\* The cursor opens the transaction, which sees all that is committed, and
\* returns what isVisible shows of it behind what it had returned.
ReadForward ==
    /\ readTill # None
    /\ read' = read \cup {id \in Committed :
                             /\ \A j \in read : j < id
                             /\ \/ id < readTill
                                \/ id = readTill /\ ~IsCappedHidden(id)}
    /\ readTill' = None
    /\ UNCHANGED <<writer, records, wtLog, applied, journal, thread>>

-----------------------------------------------------------------------------
Init ==
    /\ writer = [w \in Writer |-> Idle]
    /\ lastTs = 0
    /\ highestSeen = 0
    /\ uncommitted = {}
    /\ waiting = {}
    /\ wtLog = << >>
    /\ flushed = 0
    /\ applied = 0
    /\ durable = 0
    /\ thread = Waiting
    /\ sync = NoSync
    /\ readTill = None
    /\ read = {}

WriterStep(w) ==
    InsertRecords(w) \/ TxnClose(w) \/ DealtWithCappedId(w) \/ OnCommit(w)

Next ==
    \/ \E w \in Writer : \/ \E k \in 1 .. MaxBatch : GetNextOpTime(w, k)
                         \/ WriterStep(w)
                         \/ Abort(w)
    \/ TakeOpsWaiting \/ AlreadySynced \/ OpsBecameVisible
    \/ \E t \in Syncer : GetToken(t)
    \/ LogFlush \/ OnDurable
    \/ OplogSetStartHack \/ ReadForward

\* A writer that has its timestamps ends, and the threads run.  The
\* journal flusher sleeps between its calls, so the oplog journal thread gets
\* _lastSyncMutex at last.
Fairness ==
    /\ \A w \in Writer : WF_vars(WriterStep(w) \/ Abort(w))
    /\ WF_vars(TakeOpsWaiting \/ OpsBecameVisible)
    /\ WF_vars(LogFlush \/ OnDurable)
    /\ SF_vars(AlreadySynced \/ GetToken("oplogJournalThread"))

Spec == Init /\ [][Next]_vars /\ Fairness

-----------------------------------------------------------------------------
(***************************************************************************)
(* Properties                                                              *)
(***************************************************************************)

\* The variables have the types of the code's, an id that waits for the journal
\* is still hidden, and the thread that syncs for some ops holds on to them.
TypeOK ==
    /\ \A w \in Writer :
          /\ writer[w].pc \in {"idle", "registered", "inserted", "committed",
                               "dealt"}
          /\ writer[w] # Idle => writer[w].last \in Ts
    /\ waiting \cup thread.batch \subseteq uncommitted
    /\ uncommitted \subseteq Ts
    /\ flushed \in 0 .. Len(wtLog)
    /\ {lastTs, highestSeen, applied, durable} \subseteq 0 .. MaxTs
    /\ sync.by = "oplogJournalThread" =>
          thread.pc = "called" /\ thread.batch # {}
    /\ read \subseteq Committed

\* Who reads forward misses nothing: when an entry is returned, every earlier
\* timestamp has been returned, or belongs to no entry and never will.
\* (_uncommittedRecordIds and _oplogSetStartHack.)
NoSkippedEntry ==
    \A id \in read : \A j \in 1 .. id :
        \/ j \in read
        \/ j \notin Committed
           /\ ~\E w \in Writer : /\ writer[w].pc \in {"registered", "inserted"}
                                 /\ j \in writer[w].first .. writer[w].last

\* A crash keeps the flushed part of the journal and possibly more of it.
\* Whichever part, it leaves no hole in what others have read: an entry that
\* survives has all before it.  (The deferral in _dealtWithCappedId.)
NoHoleAfterCrash ==
    \A n \in flushed .. Len(wtLog) : \A id \in read \cap Entries(n) :
        {j \in read : j < id} \subseteq Entries(n)

\* The primary counts itself among the members that have an entry durable when
\* lastDurableOpTime has reached it.  That may run ahead of an entry still to be
\* committed (the token is the last applied, not the last without a hole), but of
\* an entry others can have, and so report, it is true: the entry and all before
\* it are in the journal.
DurableIsJournaled ==
    \A id \in read : id <= durable => {j \in read : j <= id} \subseteq Flushed

\* An entry that is committed is shown at last, to readers and to those who sleep
\* in waitForAllEarlierOplogWritesToBeVisible until it is.
BecomesVisible == \A id \in Ts : id \in Committed ~> ~IsCappedHidden(id)
=============================================================================
