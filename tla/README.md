# TLA+ specifications of Percona Server for MongoDB

This directory specifies the concurrent core of the server in TLA+: the lock
manager, the elections of a replica set, the way of an elected member to a
primary that takes writes, the commit point of the set, write concerns and
snapshots on one member, and what the oplog shows to its readers. TLC checks the
specifications on small instances; TLAPS proves most of the safety properties
for every instance. Paths are relative to `src/mongo/db`, unless they say
otherwise.

## The system

The server is a set of threads over a storage engine. These layers coordinate:

* **Locks** (`concurrency/`). Every operation holds locks in the modes IS, IX,
  S and X on a hierarchy of resources. A `Locker` owns the requests of one
  operation; the lock manager keeps, per resource, a lock head with the granted
  requests, the queue of waiters and counts per mode. Intent requests are spread
  over *partitions* with mutexes of their own as long as nobody asks for a full
  mode; then they are migrated to the head.
* **Replication** (`repl/`). Members of a replica set elect a primary, which
  logs its writes; secondaries fetch and apply that log, and report how far it is
  in their journals. What a majority has is committed. The topology coordinator
  decides, the replication coordinator carries out, callbacks run on an executor.
  On each member a producer thread fetches operations into a buffer, a batcher
  takes them out in batches and an applier applies them.
* **The oplog on disk** (`storage/wiredtiger/`). Writers take timestamps in order
  and commit in any order; the record store hides the entries behind a gap, and
  those that are not in the journal.
* **Sharding** (`../s/`, `s/`). Chunks of collections move between replica sets
  under distributed locks.

The layers meet in the global lock (stepping down and completing the transition
to primary both take it), in the member state (read by every thread of
replication), in the optimes (applied, durable, committed) and in the executor.

What makes the code hard: state is read under one mutex, or under none, and used
under another; several independent events end the same wait (grant and timeout,
catch-up and step down); votes have to survive crashes; flags that change
together are read one by one; positions arrive late, and about oplogs that have
been rolled back since.

### Inventory

| Component | State | Operations | Module |
|---|---|---|---|
| lock manager | lock head (lists, counts, policy), partitions, mutexes | lock, convert, downgrade, unlock, migrate, scan of waiters, clean-up | `LockManager` |
| locker | requests, grant notification | lockBegin, lockComplete, unlock | `LockManager`, one resource |
| election (protocol 1) | role, term, last vote in memory and on disk, polls, commands | dry run, vote, store, win, lose, step down, restart | `Election` |
| transition to primary | catch-up and drain flags, waiter, scan, write flag | win, catch up, drain, step down | `PrimaryTransition` |
| producer, batcher, applier | buffer, batches, positions | run, stop, start, fetch, batch, apply | `PrimaryTransition` |
| commit point, rollback | oplogs, durable and reported positions, terms, votes, commit points | write, journal, report, sync, roll back, elect, step down, restart | `CommitPoint` |
| write concern, snapshots | positions, waiters, uncommitted and committed snapshots | await, position update, snapshot, step down, roll back | `WriteConcern` |
| oplog visibility, journaling | record ids in flight and waiting, log, journal token | register, insert, commit, abort, flush, read forward | `OplogVisibility` |
| deadlock detector, tickets, heartbeats, reconfiguration, initial sync, executors, thread pool, distributed lock, migrations | | | not modelled |
| storage engines, catalog, query, network, authentication, auditing, backup, shell | | | not modelled |

`PROJECT.json` lists every component with the reason where it is left out, and
the hazards of the code with the properties aimed at them.

## Modules

### LockManager

One resource. A locker has at most one request; `status`, `mode`, `convertMode`,
`recursiveCount`, `partitioned`, `list` are the fields of the `LockRequest`,
`grantedList`, `conflictList`, the counts and `compatibleFirstCount` those of
the `LockHead`, `partitions`, `partExists`, `partGranted` the partitions.
`bucketMutex` and `partMutex` say which thread holds a mutex, `pc` where a
thread is. An action is one critical section, or one iteration of a loop inside
one; reads outside any mutex are actions of their own. `Call*` begins an
operation, `LockPartition`, `LockBucket`, `StartPartition` and `LockOnHead` are
`LockManager::lock`, `Migrate*` is `migratePartitionedLockHeads`, `Convert*` and
`Downgrade` the operations of these names, `Unlock*` the branches of `unlock`,
`Scan*` is `_onLockModeChanged`, `Wait*` the locker's wait and its timeout,
`Clean*` is `cleanupUnusedLocks`. Bit masks of modes are sets of modes; the
unsigned policy counter is taken modulo `UIntRange`.

The constant `CancelRace` switches one interleaving: a conversion that is granted
after its owner has timed out and begun to cancel it. The code allows it, and
`lock_cancel_race` and `ConvertsWhatIsHeld` show what comes of it; it is on in
every run except `lock_conversions`, which asks what holds without.

### Election

A whole replica set under protocol version 1. Per member: `role`, `term`,
`lastVote` (memory), `diskVote` (the stored document), pending and scheduled step
downs, `applied`, and the candidate's `poll`. `calls` holds the vote requests:
sent, waiting for a step down, at the vote, at the write of the last vote,
answered; a request may be handled late or never, and its answer ignored.
`StartElection`, `OnDryRunComplete`, `WriteLastVoteForMyElection`,
`OnVoteRequestComplete` are the candidate's steps, `ReceiveRequest` to
`StoreVote` those of the voter's command, `HearTerm` is any heartbeat or reply
with a term, `StepDown*` the ways out of primary, `Restart` a crash with
recovery. A step is a stretch of code under `_topoMutex`, or one write of the
last vote document. `ballots`, `elected` and `ahead` are history variables. An
optime is abstracted to its term, and `applied` only grows: there is no rollback
in this module.

### PrimaryTransition

One member. `isCatchingUp`, `isDraining`, `canAcceptWrites`, `waiter` and `scans`
are the coordinator's flags, its optime waiter and the freshness scans under
way; `producer`, `seenPrimary`, `stopped`, `lastFetched` belong to
`BackgroundSync`, `buffer` is the oplog buffer, `collected` and `batch` are the
batcher's, `applier` and `applying` the applier's. An operation is its optime, a
number; 0 in a queue is the sentinel. The flags are read one per step, as the
code reads them through separate locked getters. A failed `invariant` or
`fassert` sets `failed`, and nothing happens any more. The set's log beyond the
member is `top`; when the member logs its first operation as primary, what
others have beyond it is cut off, as their rollback would do.

The applier holds the lock of the parallel batch writer while it applies, and the
transition is logged under the global lock, so the two do not overlap
(`InstanceFree`). `lastApplied` only moves forward. `FetcherFails` is every end of
a fetcher that leads to another round; the branch of `_produce` that rolls back is
in `CommitPoint`.

### CommitPoint, with OpTimes, CommittedHistory and CommitRefinement

A whole replica set, seen through its oplogs. An oplog is the sequence of the
terms of its entries, an OpTime is a term and a place (`OpTimes`): the place
stands for the timestamp. `Write`, `Journal` and `UpdatePosition` are a primary's
write, the journal listener and a position report; `reported[n][t]` is the latest
position that member `n` has sent in a term up to `t`, and any part of what was
sent may have arrived. `Sync` is the fetcher's batch with its metadata,
`Rollback` the cut at the common point, `WinElection`, `LogTransitionToPrimary`
and `DrainComplete` an election and what follows. A primary steps down because it
hears of a later term, or in its own term because it no longer sees a majority
(`StepDownStart`) or is told to (`StepDown`); `Restart` ends a process. `history` is
a history variable: the operations some primary has committed.

`CommittedHistory` is the abstract specification: one history that only grows,
and per member a prefix of it that only grows until the member restarts.
`CommitRefinement` says that `CommitPoint` implements it, with `view` being what
the commit point of a member covers of its oplog (`ImplementsUnlessStrayed`).

What is assumed: an election is one step (`Election` has its messages); a primary
steps down before it votes and has then adopted the term, so that the path of
`election_two_primaries` is left out; a rollback is one durable step
(`resetLastOpTimesFromOplog` sets the durable optime before `waitUntilDurable`;
that window is left out); all members vote, bear data and journal. A restart, or a
step down in the primary's own term, takes the place of one election in the bound
`MaxTerm`, and `MaxIncidents` bounds them.

A vote compares applied optimes on both sides: the field `lastDurableOpTime` of the
request holds the candidate's applied one. So a candidate may be voted in for
entries it loses when it restarts.

Any member may sync from any other (`MaySync`). `chooseNewSyncSource` does look for
a member that is ahead, but by the optime of its last heartbeat, which it may have
rolled back or lost since; where chaining is not allowed it takes the primary, and
after `replSetSyncFrom` the given member, without looking. It asks neither for the
term of the source nor for its commit point. Three ways in which this leads astray
are recorded in the history variable `strayed`:

* `"lagging"`: a member rolls back to a source whose last optime is not later than
  its own.
* `"late"`: a primary in its catch-up takes an entry of a later term than its own,
  after which it may log its first operation with its own, earlier term.
* `"ahead"`: a member whose commit point is ahead of its oplog moves with a source
  that knows less to be committed.

`CommittedUnlessStrayed` and `LeaderUnlessStrayed` say what holds until `"lagging"`
or `"late"` has happened (`Straight`), `ImplementsUnlessStrayed` what holds until any
of the three has. Each condition is necessary: the counterexamples are below.

### WriteConcern

The coordinator of one member and those who wait in it. `log`, `info`
(`_slaveInfo`), `role`, `pending`, `term`, `snap` (the commit point, the
uncommitted snapshots and the current one), `thread` (the snapshot thread),
`client` and `waiters`. Every handler runs under `_mutex` and is one action. The
other members are an environment that reports positions and leads the even
terms, the member leads the odd ones. No rollback, of the member or of the others,
cuts what is committed, and the member rolls back only when its commit point is not
ahead of its oplog. The code checks neither: `CommitPoint` shows the first until a
member has rolled back to a source behind it, and what `commit_lagging_source` finds
is left out here.

What wakes the snapshot thread, a timestamp other than `lastTimestamp` or
`_forcedSnapshotPending`, is one flag (`thread.news`), as waking consumes both. A pass
may end in a write conflict (`SkipSnapshotPass`), which leaves the newest operations
without a snapshot until the next write wakes the thread; `SnapshotsKeepUp` is about
all other passes. The pass over an empty oplog is left out, as the oplog has an entry
from the start. A transaction's commit and its hook are one step, snapshot names are
dropped, and `w: 1` and tags are left out.

### OplogVisibility

The oplog collection of a primary. `writer` is the operations with their
timestamps, `uncommitted` and `waiting` are `_uncommittedRecordIds` and
`_opsWaitingForJournal`, `wtLog` and `flushed` the log of the engine and how much
of it is on disk, `thread` the oplog journal thread, `sync` the sync under
`_lastSyncMutex` with the token of the journal listener, `readTill` and `read`
a forward cursor. Timestamp 0 stands for the earlier history. A reader opens its
transaction and reads in one step; the flusher's early returns, capped
truncation, the inserts of secondaries and the waiter's condition variable are
left out.

## Runs

Every run uses small sets, chosen so that each rule of the code has work to do.

| Run | Instance | Shows |
|---|---|---|
| `lock_conversions` | 3 lockers, 1 of 2 partitions used, IS, IX and S, recursion 2; 905,624 states | `CountsMatch`, `NoLostWakeup`, `NoLostConversion`, `Asserted` under conversions and downgrades |
| `lock_global` | 3 lockers, 2 partitions, the global resource, all modes; 372,162 states | the queue-jumping, compatible-first full modes keep `MutualExclusion`, `PartitionedIsIntent`, `Asserted` |
| `lock_liveness` | 3 lockers, 2 partitions, IX, S and X; 116,036 states | `TypeOK`, `WaiterServed` |
| `election_steady` | 3 members, 2 candidates, all may crash, from a primary of term 1 to term 2 | one primary, elected by durable votes; it stays in its term, step downs end, terms are not forgotten |
| `election_liveness` | the same without crashes | `ElectionEnds`, `StalePrimaryStepsDown` |
| `transition` | 2 elections, 3 operations, batches of 2; 136,822 states | `WritesOnlyAsPrimary`, `TransitionAssertions`, `Drained`, `NoGap`, `PrimaryBecomesWritable`, `SyncResumes`, `TypeOK` |
| `commit_point` | 3 members, 4 terms or 3 and an incident, oplogs of 2 entries; 268,403 states | `CommittedUnlessStrayed`, `LeaderUnlessStrayed`, the refinement `ImplementsUnlessStrayed`, `TypeOK` |
| `write_concern` | 2 members, a majority and a `w: 2` client, 3 terms, 3 entries, 2 snapshots; 1,079,849 states | `AckedIsCommitted`, `CommittedSnapshot`, `SnapshotAssertions`, `NoLostWakeup`, `SnapshotsKeepUp`, `TypeOK` |
| `oplog_visibility` | 2 writers, 3 timestamps, batches of 2; 259,298 states | `NoSkippedEntry`, `NoHoleAfterCrash`, `DurableIsJournaled`, `BecomesVisible`, `TypeOK` |
| `lock_cancel_race`, `election_two_primaries`, `commit_lagging_source` | the smallest that show it | end with a counterexample, see below |

Why the bounds suffice: three lockers give a holder, a waiter and a newcomer (or
two holders and one who converts), two partitions let migration be interrupted
between them; three members are the smallest set with a majority that can lose a
member, and two terms let a vote of one meet an election of the next; three
operations with batches of two fill the buffer, the batcher and the applier at
once, and two elections let one transition meet what the last one left. A commit
can be lost only through an oplog of a later term that lacks it, which takes
three terms and two entries; a fourth term, or a restart or step down, lets the loser
come back. The search of `commit_point` ends where `Straight` does (`NotAstray`):
`strayed` only grows, so the conditional properties say nothing beyond. Two members
suffice for write concerns, as the coordinator counts positions only; three terms let
it lead, be passed over and lead again. Two writers of two entries give a gap before,
inside and behind a batch. Runs that turn deadlock
checking off are those where a bound on terms, lengths or timestamps ends the
behaviour.

`Drained` speaks of the first election a member wins: at the second it can fail
(`CoalescedAndProcessed` below).

Fairness. *Locks*: threads run, holders release, and mutexes are handed out
fairly (strong fairness of acquiring one, which pthread mutexes give in
practice). *Elections*: scheduled callbacks run, every remote command is answered
or times out (the executor guarantees this), heartbeats are sent again until one
gets through. *Transition*: the threads run; a fetcher that should stop does,
since it asks after each batch and is cancelled; scan and catch-up have timeouts.
Step downs, elections, fetches and writes have no fairness. *Oplog*: writers
commit or abort, the journal thread and the flusher run, and the journal thread
gets the sync mutex (strong fairness, as the flusher takes it again and again).

## Disagreements between the code and its comments or assertions

Three are the subject of a run that TLC ends with a counterexample.

* `lock_cancel_race`: `unlock` finds a request granted with a reference left,
  because it was granted after its owner had read that it was not.
* `election_two_primaries`: a member that votes while it steps down votes in a
  term it has not adopted, may stand in it itself and win it too.
* `commit_lagging_source`: a member that syncs from one behind it takes the missing
  entries for a divergence and rolls back what is committed.

Other disagreements have a property in the module and no run of their own; TLC
gives the counterexample when the property is put in the place of those of the
named configuration.

* `LockManager!ConvertsWhatIsHeld` (`LockCancelRace.cfg`): a notification between
  a timeout and the next conversion lets that one return before it is granted.
* `LockManager!CompatibleFirstCounted` (`LockCancelRace.cfg` with `IsGlobal =
  TRUE` and `CancelRace = FALSE`): converting the global lock to a full mode is
  not counted in `compatibleFirstCount`, which later wraps around.
* `LockManager!GrantsAllCompatible` (four lockers on one partition that ask for S
  and X): the scan of waiters does not grant *all* compatible requests, as its
  comment says.
* `CommitPoint!LeaderHasCommitted` and `CommittedOnMajority` with `"late"` (five
  members, `MaxTerm = 4`, `MaxLen = 4`; found by reasoning and replayed in TLC, as
  the whole instance is too large): the primary of term 2, still catching up, takes
  two entries from the primary of term 3 and then logs its no-op of term 2 behind
  them, so that the optimes in its oplog fall. Two members fetch all of that. The two
  entries of term 3 are on a majority and are committed, but the last optimes of
  these members are now of term 2: they vote for a member that has only the first
  entry of term 3, and the second is lost.
* `CommitRefinement!ImplementsUnlessStrayed` with `Straight'` in the place of
  `strayed' = {}` (five members, `MaxTerm = 2`, `MaxLen = 2`, `MaxIncidents = 0`):
  `processReplSetMetadata` takes the commit point of the source although the member
  may not have the operation, and the choice of the next source does not look at
  what that one knows. A member that has learnt the commit point of term 2 with an
  empty batch and then fetches an entry of term 1, from a primary that was passed
  over, takes that entry to be committed: it is below the commit point. The entry
  is rolled back later. With three members the passed-over primary and the learner
  leave no majority.
* `PrimaryTransition!NoDrainAfterStepDown`, `WinsWhenIdle`, `NoRepeatedEntry`,
  `CoalescedAndProcessed`, `AppliesInCatchUp` (`Transition.cfg`): a step down
  during catch-up does start a drain; a member that wins while an abandoned
  transition is not cleaned up fails an `invariant`; the producer restarts behind
  operations that wait in the batcher and fetches them again, which is fatal; a
  second sentinel, left from an abandoned drain, completes the next one too
  early; the applier reads the two flags around the moment they change and takes
  the member for a writable primary, which is fatal.

Several of these need a thread to be held up for a second or more between two
steps (the producer sleeps that long between rounds).

## Proofs

All theorems are for any finite set of lockers, members or writers, and for any
value of the bounds. Each has the form `Spec => []P`, or `Spec => [][A]_vars` for
`TermsNeverForgotten`, or is the refinement `Spec => ImplementsUnlessStrayed`; an
inductive invariant is proved first, action by action, and the property follows
from it.

### Locks

`LockManagerInvariant` has the definitions of two invariants,
`LockManagerRequests` and `LockManagerGrants` the lemmas about lists and counts
and one lemma per action for the first, `LockManagerRequests` and
`LockManagerProofs` those for the second, and `LockManagerProofs` what holds of
cardinalities, and the theorems.

* **`Safety`, `CountsOfLists`, `PartitionsHoldIntents`, `LockTypes`**:
  `MutualExclusion`, `CountsMatch`, `PartitionedIsIntent`, `TypeOK`. They assume
  that the cancelling race is off or requests are not recursive (`CancelRace =>
  MaxRecursion = 1`): with both, the race of `lock_cancel_race` breaks the
  counts. None of the properties is inductive alone. The invariant `IInv` adds:
  who may be where while a mutex is held (`Mutexes`), what migration has done so
  far (`Migration`), that a request on a list is on that list once (`Lists`),
  that counts equal cardinalities (`Counts`, `ConversionsCounted`), how a request
  relates to its thread's position (`Requests`), when a notification may be set
  (`Notification`), and that *all* requests held, also the ones not yet returned
  to the caller, are compatible.
* **`QueueIsBlocked`, `ConversionsAreBlocked`, `InvariantCallsHold`**:
  `NoLostWakeup`, `NoLostConversion`, `Asserted`. Between the release of a mode
  and the end of the scan that follows, waiters that could run do wait; the
  second invariant, `Waiting`, says which they may be. A queue is blocked by a
  granted mode, or a scan is under way that has not come to its front
  (`QueueBlocked`); a conversion conflicts with another request, or the scan has
  not come to it (`ConversionsBlocked`). The step that matters is a conversion
  granted in the middle of the scan: the new mode covers the old one
  (`Widening`), so it makes no room for an earlier conversion, and one pass is
  enough. `ListsExact` says that the lists have all the requests that say so, and
  `PolicyCounted` that `compatibleFirstCount` is exact, which the clean-up
  asserts; on the global resource that needs requests without conversions, so
  `InvariantCallsHold` assumes `IsGlobal => MaxRecursion = 1` as well
  (`CompatibleFirstCounted` above is the counterexample without it). The counts
  that these lemmas use are gathered in `Tallied`, so that all reasoning about
  cardinalities is in one place.

### Elections

`ElectionProofs` has `OnePrimary`, `ElectionsDurable`, `VotesOutliveRestarts`,
`PrimaryInItsTerm`, `StepDownsOfPrimaries`, `TypeCorrect` and the action property
`TermsKept`. The key is that two majorities meet (`MajoritiesMeet`), and that
while nobody has voted ahead of its term a voter casts one vote per term
(`VotesOK`), counting votes being written as cast; `PollOK` and `CallOK` tie
polls and commands to the votes they stand for. The condition `~ahead` in
`OnePrimaryUnlessAhead` is necessary: `election_two_primaries`.

### The commit point

`CommitPointInvariant` has the invariant and the lemmas about oplogs, optimes and
most actions, `CommitPointProofs` the election, the lemmas about commit points, and
the theorems:

* **`CommittedStays`, `LeaderComplete`**: `CommittedUnlessStrayed` and
  `LeaderUnlessStrayed`, for any sync sources: the condition is on what has happened,
  not on which behaviours are looked at.
* **`Refinement`**: `ImplementsUnlessStrayed`.
* **`TypeCorrect`**: `TypeOK`, in every behaviour, strayed or not.

`Invariant` is `Spec => [](Straight => IInv)`. As `strayed` only grows
(`StrayedGrows`), a step that ends with `Straight` began with it, so `IInv` held
before; the step lemmas of `Sync` and `Rollback` assume that the step itself does
not go astray, and the others need no condition. The types are kept by every step
and have lemmas of their own.

What is committed is on a majority at the moment it is committed; what has to be
found is what keeps it there. `MayCommit(t, i)` says that the primary of term `t`
has seen, or may still see, a majority at place `i`: those who have reported it and
those who have not voted in a later term are a majority together. Voting only
makes it smaller, and a report in term `t` comes from somebody who has not voted
beyond `t`; so it never becomes true once it is false. While it is true, those who
have reported the place still have it in their journals (`Reporting`), and every
oplog with an entry of a later term, and every primary of one, has it too
(`Surviving`). The election is the step that matters: the voters of a later term
and the members of `MayCommit` have one in common that has reported the place, and
the candidate's last applied optime is not behind what it has applied. `Shape` says
that two oplogs with an entry of the same term are the same up to it, `Leading` and
`Drained` that a primary has all entries of its term, `Voting` that a term that has
entries has had a majority vote; `Recorded` that a majority has reported the last
committed operation in its term, from which the theorems follow.

For the refinement, `Commits` adds that every commit point is that of an operation
of the history, and that what it covers of an oplog is a beginning of the history.
A step of `CommitPoint` then is one of `CommittedHistory`, or leaves it alone.
Facts about cardinalities of majorities are gathered in `Counting`, a hypothesis of
the lemmas, and proved once (`CountingHolds`).

### The transition to primary

`PrimaryTransitionProofs` has `TransitionSafety`, `AssertionsHold`,
`DrainedBeforeWrites`, `AppliesWithoutGap` and `TransitionTypes`. `Control` says
who may end a catch-up: at any time one scan or one waiter (`OneCatchUp`), and
that a drain never overlaps with it (`OneDrain`). `Queues`, `Bounded` and
`NoGaps` say that what was fetched runs on without a gap from what is applied
through the applier, the batcher and the buffer to `lastFetched`; `FirstTerm`
where the sentinel of the first drain is, with nothing behind it.

### The oplog

`OplogVisibilityProofs` has `ForwardReadsMissNothing`, `CrashLeavesNoHole`,
`DurableInJournal` and `OplogTypes`. The invariant ties each timestamp to the
writer that holds it or to its place in the log (`Writers`, `Logged`), says what
a sync under way has covered (`Journaling`, `Positions`), that an entry overtaken
by a later one is hidden until it is in the journal (`Overtaken`), and that what
is shown to a reader has no gap (`Shown`).

### Only model-checked

* The liveness properties `WaiterServed`, `ElectionEnds`,
  `StalePrimaryStepsDown`, `PrimaryBecomesWritable`, `SyncResumes` and
  `BecomesVisible`: liveness under fairness is out of the prover's reach.
* All of `WriteConcern`, whose safety is within reach and has not been proved yet.

## Not modelled, and next steps

1. Proofs about write concerns.
2. Locker and deadlock detector over several resources; ticket holder.
3. Recovery of the applier from a crash (minValid, oplogDeleteFromPoint), and a
   crash in the middle of a rollback.
4. Reconfiguration; executor and scatter-gather runner.
5. Distributed lock and chunk migration.
