---------------------------- MODULE WriteConcern ----------------------------
(***************************************************************************)
(* The replication coordinator of one member and those who wait in it: the *)
(* operations that write and wait for their write concern, the thread that *)
(* takes snapshots of the data, and the committed snapshot, on which a     *)
(* write concern of majority waits.  Every handler runs under _mutex.      *)
(*                                                                         *)
(* The other members are an environment: they report positions, they may   *)
(* be primaries of terms of their own, and they never roll back what is    *)
(* committed (module CommitPoint).  The member leads the odd terms and the *)
(* others lead the even ones; terms may be skipped.  What the oplog shows  *)
(* of operations in flight is in module OplogVisibility.                   *)
(***************************************************************************)
EXTENDS OpTimes, SequencesExt

CONSTANTS Other,          \* the other members, voters that bear data
          Client,         \* the operations of clients
          Majority,       \* those with w: "majority"; the others have w: 2
          MaxTerm,        \* bound on the terms
          MaxLen,         \* bound on the length of the oplog
          SnapshotLimit,  \* kUncommittedSnapshotLimit
          RestartPoint    \* kUncommittedSnapshotRestartPoint

\* The members and the clients are finitely many, the bounds are numbers, and
\* the snapshot thread starts again below the limit that stops it.
ASSUME WriteConcernAssumption ==
    /\ IsFiniteSet(Other) /\ IsFiniteSet(Client) /\ Majority \subseteq Client
    /\ MaxTerm \in Nat /\ MaxLen \in Nat
    /\ SnapshotLimit \in Nat /\ RestartPoint \in 1 .. SnapshotLimit

VARIABLES
    log,      \* the oplog of the member, the entries in flight included
    info,     \* _slaveInfo: the positions of all members
    role,     \* _memberState, and whether a primary has drained
    pending,  \* _stepDownPending
    term,     \* _cachedTerm
    snap,     \* _lastCommittedOpTime and the snapshots
    thread,   \* the snapshot thread, and whether there is news to wake it
    client,   \* the operations of clients
    waiters,  \* _replicationWaiterList
    acked     \* history: the optimes acknowledged as written by a majority

vars == <<log, info, role, pending, term, snap, thread, client, waiters,
          acked>>

Self == "self"
Member == Other \cup {Self}
Readable == {"primary", "draining", "secondary"}
Ours(t) == t % 2 = 1

WriteMajority == WriteMajorityOf(Member)

Idle == [pc |-> "idle", op |-> Null]
InFlight(c) == client[c].pc = "logging"

\* The global lock in mode X: no writer is in flight, and the snapshot thread does
\* not hold it between its view and createSnapshot.
GlobalX == thread.pc # "prepared" /\ \A c \in Client : ~InFlight(c)

\* The places of the operations that are not committed yet.
Holes == {client[c].op[2] : c \in {d \in Client : InFlight(d)}}

\* What a transaction that begins now sees of the oplog: 0 where there is a hole.
Visible ==
    LET All == [i \in 1 .. Len(log) |-> IF i \in Holes THEN 0 ELSE log[i]]
    IN SubSeq(All, 1, Max((1 .. Len(log)) \ Holes))

\* The timestamp differs from lastTimestamp, or _forcedSnapshotPending is set: there
\* is something to wake the snapshot thread.
Notify == thread' = [thread EXCEPT !.news = "new"]

\* How far the oplog is shown to those who read it forward.
ShownLen == IF Holes = {} THEN Len(log) ELSE Min(Holes) - 1

-----------------------------------------------------------------------------
(***************************************************************************)
(* The commit point, the committed snapshot, and who may return            *)
(***************************************************************************)

\* Mutant: the snapshot behind the last one that c covers becomes committed.
SetLastCommittedOneTooFar(st, c) ==
    LET k == Cardinality({i \in DOMAIN st.uncommitted :
                             i = 1 \/ AtLeast(c, LastOp(st.uncommitted[i - 1]))})
    IN IF AtLeast(st.commit, c) THEN st
       ELSE [commit |-> c,
             uncommitted |-> SubSeq(st.uncommitted, k + 1, Len(st.uncommitted)),
             current |-> IF k = 0 THEN st.current ELSE st.uncommitted[k]]

\* _setLastCommittedOpTime_inlock: the commit point moves forward to c, and the
\* newest snapshot it covers becomes the committed one.
SetLastCommitted(st, c) ==
    LET k == Cardinality({i \in DOMAIN st.uncommitted :
                             AtLeast(c, LastOp(st.uncommitted[i]))})
    IN IF AtLeast(st.commit, c) THEN st
       ELSE [commit |-> c,
             uncommitted |-> SubSeq(st.uncommitted, k + 1, Len(st.uncommitted)),
             current |-> IF k = 0 THEN st.current ELSE st.uncommitted[k]]

\* The optime at the place of the write majority among the sorted positions.
MajorityOpTime(inf) ==
    LET All == {inf[m].durable : m \in Member}
        Has(c) == Cardinality({m \in Member : AtLeast(inf[m].durable, c)})
    IN CHOOSE c \in All :
          /\ Has(c) >= WriteMajority
          /\ \A d \in All : Has(d) >= WriteMajority => AtLeast(c, d)

\* _firstOpTimeOfMyTerm of a primary that has drained, whose oplog is s.
FirstOpTimeOfMyTerm(s) ==
    OpTimeAt(s, CHOOSE i \in 1 .. Len(s) :
                   s[i] = term /\ \A j \in 1 .. i - 1 : s[j] < term)

\* _updateLastCommittedOpTime_inlock, once the positions are inf.
UpdateLastCommitted(inf) ==
    LET c == MajorityOpTime(inf)
    IN IF role # "primary" \/ pending \/ Less(c, FirstOpTimeOfMyTerm(log))
       THEN snap
       ELSE SetLastCommitted(snap, c)

\* Mutant: a majority need neither be durable nor be in the committed snapshot.
DoneWhenApplied(c, op, inf, st) ==
    /\ AtLeast(inf[Self].applied, op)
    /\ Cardinality({m \in Member : AtLeast(inf[m].applied, op)})
          >= IF c \in Majority THEN WriteMajority ELSE 2

\* _doneWaitingForReplication_inlock for the operation of c, which is at op.  For
\* w: 2 the member itself must have it.
Done(c, op, inf, st) ==
    IF c \in Majority
    THEN /\ st.current # << >>
         /\ AtLeast(LastOp(st.current), op)
         /\ Cardinality({m \in Member : AtLeast(inf[m].durable, op)})
               >= WriteMajority
    ELSE /\ AtLeast(inf[Self].applied, op)
         /\ Cardinality({m \in Member : AtLeast(inf[m].applied, op)}) >= 2

\* The positions become inf and the snapshots st; _wakeReadyWaiters_inlock takes
\* off the list, and notifies, those whose wait is over.
Settle(inf, st) ==
    /\ info' = inf
    /\ snap' = st
    /\ waiters' = {c \in waiters : ~Done(c, client[c].op, inf, st)}

\* _updateSlaveInfo{Applied,Durable}OpTime_inlock.
UpdateSlaveInfo(inf) == Settle(inf, UpdateLastCommitted(inf))

-----------------------------------------------------------------------------
(***************************************************************************)
(* Clients                                                                 *)
(***************************************************************************)

\* getNextOpTime on a primary, in a unit of work that holds the global lock.
LogOp(c) ==
    /\ role = "primary"
    /\ client[c] = Idle
    /\ Len(log) < MaxLen
    /\ log' = Append(log, term)
    /\ client' = [client EXCEPT ![c] = [pc |-> "logging", op |-> LastOp(log')]]
    /\ Notify
    /\ UNCHANGED <<info, role, pending, term, snap, waiters, acked>>

\* The transaction is committed, and the hook of _logOpsInner calls
\* setMyLastAppliedOpTimeForward before the locks go.
OnCommit(c) ==
    /\ client[c].pc = "logging"
    /\ client' = [client EXCEPT ![c].pc = "logged"]
    /\ UpdateSlaveInfo([info EXCEPT ![Self].applied = Later(@, client[c].op)])
    /\ UNCHANGED <<log, role, pending, term, thread, acked>>

\* Mutant: the term is not looked at.
SteppedDownByRole(op) == role \notin {"primary", "draining"} \/ pending

\* checkForStepDown.
SteppedDown(op) == \/ role \notin {"primary", "draining"}
                   \/ op[1] # term
                   \/ pending

Return(c) == client' = [client EXCEPT ![c] = Idle]

Acknowledge(c) ==
    /\ Return(c)
    /\ acked' = IF c \in Majority THEN acked \cup {client[c].op} ELSE acked

\* _awaitReplication_inlock, up to the wait.
AwaitReplication(c) ==
    /\ client[c].pc = "logged"
    /\ \/ /\ SteppedDown(client[c].op)
          /\ Return(c)
          /\ UNCHANGED <<waiters, acked>>
       \/ /\ ~SteppedDown(client[c].op)
          /\ Done(c, client[c].op, info, snap)
          /\ Acknowledge(c)
          /\ UNCHANGED waiters
       \/ /\ ~SteppedDown(client[c].op)
          /\ ~Done(c, client[c].op, info, snap)
          /\ client' = [client EXCEPT ![c].pc = "waiting"]
          /\ waiters' = waiters \cup {c}
          /\ UNCHANGED acked
    /\ UNCHANGED <<log, info, role, pending, term, snap, thread>>

\* A waiter that was notified, and so is off the list, looks again.  Were it not
\* done, it would sleep on, and nobody would notify it any more.
Wake(c) ==
    /\ client[c].pc = "waiting"
    /\ c \notin waiters
    /\ \/ /\ SteppedDown(client[c].op)
          /\ Return(c)
          /\ UNCHANGED acked
       \/ /\ ~SteppedDown(client[c].op)
          /\ Done(c, client[c].op, info, snap)
          /\ Acknowledge(c)
    /\ UNCHANGED <<log, info, role, pending, term, snap, thread, waiters>>

\* Mutant: who gives up stays on the list.
TimeoutStaysListed(c) ==
    /\ client[c].pc \in {"logged", "waiting"}
    /\ Return(c)
    /\ UNCHANGED <<log, info, role, pending, term, snap, thread, waiters, acked>>

\* wTimeout ends the wait, or an interrupt, which is looked for before it too.
Timeout(c) ==
    /\ client[c].pc \in {"logged", "waiting"}
    /\ Return(c)
    /\ waiters' = waiters \ {c}
    /\ UNCHANGED <<log, info, role, pending, term, snap, thread, acked>>

-----------------------------------------------------------------------------
(***************************************************************************)
(* Positions and the journal                                               *)
(***************************************************************************)

\* The optimes that the others can have: those of the oplog they can read, and
\* one further entry when it is theirs.
OthersOpTimes ==
    {OpTimeAt(log, i) : i \in 1 .. ShownLen}
    \cup (IF Ours(term) THEN {} ELSE {<<term, Len(log) + 1>>})

\* _setLastOptime_inlock: a report of m, of which only what is ahead counts.
UpdatePosition(m) ==
    \E a \in OthersOpTimes : \E d \in {info[m].durable, a} :
       /\ Less(info[m].applied, a) \/ Less(info[m].durable, d)
       /\ UpdateSlaveInfo([info EXCEPT ![m].applied = Later(@, a),
                                       ![m].durable = Later(@, d)])
       /\ UNCHANGED <<log, role, pending, term, thread, client, acked>>

\* The journal is flushed and onDurable calls setMyLastDurableOpTimeForward.
OnDurable ==
    /\ Less(info[Self].durable, info[Self].applied)
    /\ UpdateSlaveInfo([info EXCEPT ![Self].durable = info[Self].applied])
    /\ UNCHANGED <<log, role, pending, term, thread, client, acked>>

-----------------------------------------------------------------------------
(***************************************************************************)
(* SnapshotThread::run                                                     *)
(***************************************************************************)

\* The thread is throttled by shouldSleepMore, then waits for a new timestamp or
\* for forceSnapshotCreation.
SnapshotThreadWakes ==
    /\ thread.pc = "idle"
    /\ thread.hit => Len(snap.uncommitted) < RestartPoint
    /\ thread.news = "new"
    /\ thread' = [thread EXCEPT !.pc = "woken", !.news = "none", !.hit = FALSE]
    /\ UNCHANGED <<log, info, role, pending, term, snap, client, waiters,
                   acked>>

\* It takes no snapshot in a state that is not readable.
SkipSnapshot ==
    /\ thread.pc = "woken"
    /\ role \notin Readable
    /\ thread' = [thread EXCEPT !.pc = "idle"]
    /\ UNCHANGED <<log, info, role, pending, term, snap, client, waiters,
                   acked>>

\* Mutant: the view is taken while inserts into the oplog are in flight.
PrepareSnapshotAnyTime ==
    /\ thread.pc = "woken"
    /\ role \in Readable
    /\ thread' = [thread EXCEPT !.pc = "prepared", !.view = Visible]
    /\ UNCHANGED <<log, info, role, pending, term, snap, client, waiters,
                   acked>>

\* The global lock in mode IS, and the capped in-flight lock in mode X while
\* prepareForCreateSnapshot establishes the view.
PrepareSnapshot ==
    /\ thread.pc = "woken"
    /\ role \in Readable
    /\ \A c \in Client : ~InFlight(c)
    /\ thread' = [thread EXCEPT !.pc = "prepared", !.view = Visible]
    /\ UNCHANGED <<log, info, role, pending, term, snap, client, waiters,
                   acked>>

\* createSnapshot: the snapshot is committed already, or it waits to be.
CreateSnapshot ==
    LET st == IF AtLeast(snap.commit, LastOp(thread.view))
              THEN [snap EXCEPT !.current = thread.view]
              ELSE [snap EXCEPT !.uncommitted = Append(@, thread.view)]
    IN /\ thread.pc = "prepared"
       /\ Settle(info, st)
       /\ thread' = [thread EXCEPT !.pc = "idle", !.view = << >>,
                        !.hit = thread.hit \/ Len(st.uncommitted) >= SnapshotLimit]
       /\ UNCHANGED <<log, role, pending, term, client, acked>>

\* A write conflict ends the pass, which has consumed what had woken the thread.
SkipSnapshotPass ==
    /\ thread.pc = "prepared"
    /\ thread' = [thread EXCEPT !.pc = "idle", !.view = << >>,
                        !.news = IF @ = "new" THEN @ ELSE "skipped"]
    /\ UNCHANGED <<log, info, role, pending, term, snap, client, waiters,
                   acked>>

-----------------------------------------------------------------------------
(***************************************************************************)
(* Changes of state                                                        *)
(***************************************************************************)

\* A primary hears of a later term: it is to step down.
StepDownStart ==
    /\ role \in {"primary", "draining"}
    /\ ~pending
    /\ term < MaxTerm
    /\ pending' = TRUE
    /\ UNCHANGED <<log, info, role, term, snap, thread, client, waiters,
                   acked>>

\* _stepDownFinish: under the global lock, and all who wait are woken.
StepDownFinish ==
    /\ pending
    /\ GlobalX
    /\ role' = "secondary"
    /\ pending' = FALSE
    /\ waiters' = {}
    /\ UNCHANGED <<log, info, term, snap, thread, client, acked>>

\* The member adopts the term of another primary.
HearTerm ==
    /\ role \notin {"primary", "draining"}
    /\ \E t \in term + 1 .. MaxTerm : ~Ours(t) /\ term' = t
    /\ UNCHANGED <<log, info, role, pending, snap, thread, client, waiters,
                   acked>>

\* SyncTail applies an entry of that primary, whose oplog continues this one.
\* A batch and a snapshot exclude each other.
ApplyEntry ==
    /\ role \in {"secondary", "recovering"}
    /\ ~Ours(term)
    /\ Len(log) < MaxLen
    /\ thread.pc # "prepared"
    /\ log' = Append(log, term)
    /\ UpdateSlaveInfo([info EXCEPT ![Self].applied = <<term, Len(log) + 1>>])
    /\ Notify
    /\ UNCHANGED <<role, pending, term, client, acked>>

\* processReplSetMetadata: what the sync source says of the commit point, which
\* may be ahead of the oplog.
LearnCommit ==
    /\ role \in {"secondary", "recovering"}
    /\ ~Ours(term)
    /\ \E c \in OthersOpTimes :
          Less(snap.commit, c) /\ Settle(info, SetLastCommitted(snap, c))
    /\ UNCHANGED <<log, role, pending, term, thread, client, acked>>

\* Mutant: the snapshots are kept.
EnterRollbackKeepsSnapshots ==
    /\ role = "secondary"
    /\ GlobalX
    /\ ~Ours(term)
    /\ Less(snap.commit, LastOp(log))
    /\ role' = "rollback"
    /\ waiters' = {}
    /\ UNCHANGED <<log, info, pending, term, snap, thread, client, acked>>

\* BackgroundSync::_rollback: ROLLBACK, in which there are no snapshots ...
EnterRollback ==
    /\ role = "secondary"
    /\ GlobalX
    /\ ~Ours(term)
    /\ Less(snap.commit, LastOp(log))
    /\ role' = "rollback"
    /\ snap' = [snap EXCEPT !.uncommitted = << >>, !.current = << >>]
    /\ waiters' = {}
    /\ UNCHANGED <<log, info, pending, term, thread, client, acked>>

\* ... then the oplog is cut behind what is committed, unless syncRollback fails,
\* the optimes and the timestamp are read back from it, and RECOVERING.
FinishRollback ==
    /\ role = "rollback"
    /\ \E n \in Len(Covered(log, snap.commit)) .. Len(log) :
          /\ log' = SubSeq(log, 1, n)
          /\ IF n = Len(log) THEN UNCHANGED <<info, thread>>
             ELSE /\ info' = [info EXCEPT ![Self] = [applied |-> OpTimeAt(log, n),
                                                     durable |-> OpTimeAt(log, n)]]
                  /\ Notify
    /\ role' = "recovering"
    /\ UNCHANGED <<pending, term, snap, client, waiters, acked>>

\* tryToGoLiveAsASecondary: the member becomes readable, which forces a snapshot.
GoLive ==
    /\ role = "recovering"
    /\ role' = "secondary"
    /\ Notify
    /\ UNCHANGED <<log, info, pending, term, snap, client, waiters, acked>>

\* The member is elected, which it is not with an oplog behind the commit point.
WinElection ==
    /\ role = "secondary"
    /\ AtLeast(LastOp(log), snap.commit)
    /\ \E t \in term + 1 .. MaxTerm : Ours(t) /\ term' = t
    /\ role' = "draining"
    /\ UNCHANGED <<log, info, pending, snap, thread, client, waiters, acked>>

\* signalDrainComplete: under the global lock the first entry of the term is
\* logged, and the positions are looked at again.
DrainComplete ==
    LET op == <<term, Len(log) + 1>>
        inf == [info EXCEPT ![Self].applied = op]
    IN /\ role = "draining"
       /\ GlobalX
       /\ Len(log) < MaxLen
       /\ log' = Append(log, term)
       /\ role' = "primary"
       /\ Settle(inf, IF pending \/ Less(MajorityOpTime(inf), op) THEN snap
                      ELSE SetLastCommitted(snap, MajorityOpTime(inf)))
       /\ Notify
       /\ UNCHANGED <<pending, term, client, acked>>

-----------------------------------------------------------------------------
\* A primary with one operation, committed everywhere.
Init ==
    /\ log = <<1>>
    /\ info = [m \in Member |-> [applied |-> <<1, 1>>, durable |-> <<1, 1>>]]
    /\ role = "primary"
    /\ pending = FALSE
    /\ term = 1
    /\ snap = [commit |-> <<1, 1>>, uncommitted |-> << >>, current |-> <<1>>]
    /\ thread = [pc |-> "idle", news |-> "none", hit |-> FALSE, view |-> << >>]
    /\ client = [c \in Client |-> Idle]
    /\ waiters = {}
    /\ acked = {}

ClientStep(c) == OnCommit(c) \/ AwaitReplication(c) \/ Wake(c)

SnapshotStep ==
    \/ SnapshotThreadWakes \/ SkipSnapshot
    \/ PrepareSnapshot \/ CreateSnapshot \/ SkipSnapshotPass

Next ==
    \/ \E c \in Client : LogOp(c) \/ ClientStep(c) \/ Timeout(c)
    \/ \E m \in Other : UpdatePosition(m)
    \/ OnDurable
    \/ SnapshotStep
    \/ StepDownStart \/ StepDownFinish \/ HearTerm
    \/ ApplyEntry \/ LearnCommit
    \/ EnterRollback \/ FinishRollback \/ GoLive
    \/ WinElection \/ DrainComplete

Spec == Init /\ [][Next]_vars

-----------------------------------------------------------------------------
(***************************************************************************)
(* Properties                                                              *)
(***************************************************************************)

\* The variables have the types of the code's, and only who waits is on
\* _replicationWaiterList.
TypeOK ==
    /\ Len(log) \in 1 .. MaxLen
    /\ role \in Readable \cup {"rollback", "recovering"}
    /\ pending => role \in {"primary", "draining"}
    /\ term \in 1 .. MaxTerm
    /\ \A c \in Client :
          client[c].pc \in {"idle", "logging", "logged", "waiting"}
    /\ \A c \in waiters : client[c].pc = "waiting"

\* A write acknowledged as written by a majority is in the oplog and at or before
\* the commit point for ever after, whatever elections and rollbacks its client
\* has slept through.  (checkForStepDown, _doneWaitingForReplication_inlock.)
AckedIsCommitted == \A op \in acked : InLog(op, log) /\ AtLeast(snap.commit, op)

\* Who reads from the committed snapshot reads committed data: the snapshot holds
\* all of the oplog up to its optime, nothing that was rolled back, and its optime
\* is not beyond the commit point.  (createSnapshot, _dropAllSnapshots_inlock.)
CommittedSnapshot ==
    snap.current # << >> => /\ IsPrefix(snap.current, log)
                            /\ AtLeast(snap.commit, LastOp(snap.current))

\* The invariants that createSnapshot, _updateCommittedSnapshot_inlock and
\* _updateMemberStateFromTopologyCoordinator_inlock assert do not fail.
SnapshotAssertions ==
    /\ \A i \in 2 .. Len(snap.uncommitted) :
          AtLeast(LastOp(snap.uncommitted[i]), LastOp(snap.uncommitted[i - 1]))
    /\ \A i \in DOMAIN snap.uncommitted :
          Less(snap.commit, LastOp(snap.uncommitted[i]))
    /\ thread.pc = "prepared" /\ AtLeast(snap.commit, LastOp(thread.view)) =>
          /\ snap.uncommitted = << >>
          /\ AtLeast(LastOp(thread.view), LastOp(snap.current))
    /\ thread.pc = "prepared" /\ snap.uncommitted # << >> =>
          AtLeast(LastOp(thread.view), LastOp(Last(snap.uncommitted)))
    /\ role = "rollback" => snap.uncommitted = << >> /\ snap.current = << >>

\* No wakeup is lost.  Who sleeps on the list has a reason to: its write concern
\* is not met, and the member is still the primary of its term.  And who was taken
\* off the list can return, for nobody will notify it again.
NoLostWakeup ==
    \A c \in Client : client[c].pc = "waiting" =>
       IF c \in waiters
       THEN /\ ~Done(c, client[c].op, info, snap)
            /\ role = "primary" /\ client[c].op[1] = term
       ELSE \/ Done(c, client[c].op, info, snap)
            \/ SteppedDown(client[c].op)

\* Nor is an operation left out of all snapshots, so that who waits for a majority
\* would wait for ever: when the snapshot thread sleeps with nothing to wake it
\* and the member is readable, the newest snapshot has the end of the oplog,
\* unless a write conflict made the thread skip its last pass.
SnapshotsKeepUp ==
    /\ role \in Readable
    /\ thread.pc = "idle" /\ thread.news = "none"
    => LastOp(log) = LastOp(IF snap.uncommitted # << >> THEN Last(snap.uncommitted)
                            ELSE snap.current)
=============================================================================
