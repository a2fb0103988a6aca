----------------------------- MODULE CommitPoint -----------------------------
(***************************************************************************)
(* The commit point of a replica set: how operations reach the oplogs of   *)
(* the members, how a primary learns how far they are durable and moves    *)
(* _lastCommittedOpTime, how the secondaries learn it from their sync      *)
(* sources, and what elections, rollbacks, stepdowns and crashes do to it. *)
(*                                                                         *)
(* Elections are taken as one step each (module Election has their         *)
(* messages): a majority votes, nobody votes twice in a term, and nobody   *)
(* votes for a candidate whose last applied operation is behind its own.   *)
(* A primary steps down before it votes and has then adopted the term; the *)
(* path on which it votes with its old term is Election's, with what       *)
(* follows from it.                                                        *)
(*                                                                         *)
(* Any member may be the sync source of any other.  The history variable   *)
(* strayed records how members have synced from sources that the choice,   *)
(* made on the optimes of the last heartbeats, is meant to avoid, or does  *)
(* not look for; the properties say what holds until then.                 *)
(***************************************************************************)
EXTENDS OpTimes

CONSTANTS Node,         \* the members of the set: voters that bear data
          MaxTerm,      \* bound on the terms an election may reach
          MaxLen,       \* bound on the length of an oplog
          MaxIncidents  \* bound on the restarts and on the step downs without a
                        \* higher term, each in place of an election

\* The members are finitely many and the bounds are numbers.
ASSUME CommitPointAssumption ==
    /\ IsFiniteSet(Node)
    /\ MaxTerm \in Nat \ {0}
    /\ MaxLen \in Nat \ {0}
    /\ MaxIncidents \in Nat

VARIABLES
    log,        \* the oplog of each member, as far as it is applied
    durable,    \* how much of it is journaled: lastDurableOpTime
    role,       \* secondary, or a primary and how far it is in its transition
    pending,    \* _stepDownPending
    term,       \* _term
    vote,       \* the term of the stored LastVote document
    commit,     \* _lastCommittedOpTime
    reported,   \* the positions the members have sent, by the term they carry
    history,    \* history: the operations some primary has committed
    strayed,    \* history: the ways in which members have synced astray
    incidents   \* the number of restarts and of such step downs so far

vars == <<log, durable, role, pending, term, vote, commit, reported,
          history, strayed, incidents>>

Terms == 1 .. MaxTerm
Roles == {"secondary", "catchup", "draining", "primary"}
Astray == {"lagging", "late", "ahead"}

Never == <<MaxTerm + 1, 0>>     \* an OpTime no operation reaches
OpTimes == ((1 .. MaxTerm) \X (1 .. MaxLen)) \cup {Null}

\* Mutant: half of the members.
WriteHalf == Cardinality(Node) \div 2

WriteMajority == WriteMajorityOf(Node)

\* Members send their positions in replSetUpdatePosition and in answers to
\* heartbeats, with their term.  reported[n][t] is the latest position n has sent
\* in a term up to t.
Send(r, n, op, t) ==
    [r EXCEPT ![n] = [u \in Terms |->
                         IF u >= t /\ Less(@[u], op) THEN op ELSE @[u]]]

\* _updateLastCommittedOpTime_inlock: the optimes that the sorted positions may
\* show on a write majority when n itself is at position own.  Of what the others
\* have sent any part may have arrived: _slaveInfo only moves forward, and a
\* report that carries a higher term makes n adopt the term first (HearTerm).
\* (Positions off the oplog of n are older than what n may commit.)
MajorityOpTimes(n, own) ==
    {c \in {OpTimeAt(log[n], i) : i \in 1 .. Len(log[n])} :
        Cardinality({m \in Node :
                        AtLeast(IF m = n THEN own ELSE reported[m][term[n]], c)})
           >= WriteMajority}
    \cup {Null}

\* Mutant: a primary may commit what earlier primaries have logged.
FirstOpTimeOfAnyTerm(n) == Null

\* _firstOpTimeOfMyTerm of a primary: the maximal OpTime from the election until
\* the primary has logged its no-op, which is its first entry of the term.
FirstOpTimeOfMyTerm(n) ==
    IF role[n] # "primary" THEN Never
    ELSE OpTimeAt(log[n], CHOOSE i \in 1 .. Len(log[n]) :
                             /\ log[n][i] = term[n]
                             /\ \A j \in 1 .. i - 1 : log[n][j] # term[n])

\* _setLastCommittedOpTime_inlock: the commit point of n once it is told c.
Advanced(n, c) ==
    IF \/ AtLeast(commit[n], c)
       \/ role[n] # "secondary" /\ Less(c, FirstOpTimeOfMyTerm(n))
    THEN commit[n]
    ELSE c

\* The commit point n derives from the optime c of a majority.
CommitFrom(n, c) ==
    IF role[n] = "secondary" \/ pending[n] THEN commit[n] ELSE Advanced(n, c)

\* n sets its commit point to c, which commits what c covers of its oplog.
SetCommit(n, c) ==
    /\ commit' = [commit EXCEPT ![n] = c]
    /\ history' = IF c = commit[n] \/ Begins(Covered(log[n], c), history)
                  THEN history
                  ELSE Covered(log[n], c)

\* A restart, or a step down without a higher term, within the bounds.
Incident ==
    /\ incidents < MaxIncidents
    /\ \A n \in Node : term[n] + incidents < MaxTerm
    /\ incidents' = incidents + 1

-----------------------------------------------------------------------------
(***************************************************************************)
(* Writing, journaling and positions                                       *)
(***************************************************************************)

\* A write on a primary: logOp, then setMyLastAppliedOpTimeForward.
Write(n) ==
    /\ role[n] = "primary"
    /\ Len(log[n]) < MaxLen
    /\ log' = [log EXCEPT ![n] = Append(@, term[n])]
    /\ UNCHANGED <<durable, role, pending, term, vote, commit, reported,
                   history, strayed, incidents>>

\* JournalListener::onDurable: the journal reaches the end of the oplog, and a
\* primary looks again at what a majority has.
Journal(n) ==
    LET d == Len(log[n])
    IN /\ durable[n] < d
       /\ durable' = [durable EXCEPT ![n] = d]
       /\ reported' = Send(reported, n, OpTimeAt(log[n], d), term[n])
       /\ \E c \in {CommitFrom(n, op) : op \in MajorityOpTimes(n, LastOp(log[n]))} :
             SetCommit(n, c)
       /\ UNCHANGED <<log, role, pending, term, vote, strayed, incidents>>

\* processReplSetUpdatePosition and _updateOpTimesFromHeartbeat: positions
\* arrive, late, twice, out of order or not at all.
UpdatePosition(n) ==
    \E c \in MajorityOpTimes(n, OpTimeAt(log[n], durable[n])) :
       /\ CommitFrom(n, c) # commit[n]
       /\ SetCommit(n, CommitFrom(n, c))
       /\ UNCHANGED <<log, durable, role, pending, term, vote, reported,
                      strayed, incidents>>

-----------------------------------------------------------------------------
(***************************************************************************)
(* Terms and stepping down                                                 *)
(***************************************************************************)

\* _updateTerm_incallback: a member adopts a higher term; a primary keeps its
\* own and begins to step down.
NewTerm(n, t) == IF t > term[n] /\ role[n] = "secondary" THEN t ELSE term[n]

UpdateTerm(n, t) ==
    /\ term' = [term EXCEPT ![n] = NewTerm(n, t)]
    /\ pending' = [pending EXCEPT
                      ![n] = @ \/ (t > term[n] /\ role[n] # "secondary")]

\* n learns the term of m from a command or an answer.
HearTerm(n, m) ==
    /\ term[m] > term[n]
    /\ UpdateTerm(n, term[m])
    /\ reported' = Send(reported, n, OpTimeAt(log[n], durable[n]),
                        NewTerm(n, term[m]))
    /\ UNCHANGED <<log, durable, role, vote, commit, history, strayed,
                   incidents>>

\* HeartbeatResponseAction::StepDownSelf: a primary that no longer sees a majority
\* begins to step down, in its term.
StepDownStart(n) ==
    /\ role[n] # "secondary"
    /\ ~pending[n]
    /\ Incident
    /\ pending' = [pending EXCEPT ![n] = TRUE]
    /\ UNCHANGED <<log, durable, role, term, vote, commit, reported, history,
                   strayed>>

\* Mutant: _stepDownPending survives the step down.
StepDownFinishStaysPending(n) ==
    /\ pending[n]
    /\ role[n] # "draining"
    /\ role' = [role EXCEPT ![n] = "secondary"]
    /\ UNCHANGED <<log, durable, pending, term, vote, commit, reported, history,
                   strayed, incidents>>

\* _stepDownFinish: the primary, under the global lock, leaves its state.
StepDownFinish(n) ==
    /\ pending[n]
    /\ role[n] # "draining"
    /\ role' = [role EXCEPT ![n] = "secondary"]
    /\ pending' = [pending EXCEPT ![n] = FALSE]
    /\ UNCHANGED <<log, durable, term, vote, commit, reported, history,
                   strayed, incidents>>

\* replSetStepDown: a primary leaves its state at once, under the global lock.
\* (With force it looks at nothing; without, at what it knows of the others.)
StepDown(n) ==
    /\ role[n] \in {"catchup", "primary"}
    /\ Incident
    /\ role' = [role EXCEPT ![n] = "secondary"]
    /\ pending' = [pending EXCEPT ![n] = FALSE]
    /\ UNCHANGED <<log, durable, term, vote, commit, reported, history,
                   strayed>>

-----------------------------------------------------------------------------
(***************************************************************************)
(* Syncing and rolling back                                                *)
(***************************************************************************)

\* Whether n may sync from m.  chooseNewSyncSource takes a member that was ahead
\* at its last heartbeat and may be behind by now; where chaining is not allowed,
\* it takes the primary, and after replSetSyncFrom the given member, without
\* looking.  None asks for the term of m or for its commit point.
MaySync(n, m) == n # m /\ role[n] \in {"secondary", "catchup"}

\* How n goes astray when it syncs from m and its oplog becomes s: it rolls back
\* to a source that is behind it (lagging), takes as a primary an operation of a
\* later term than its own (late), or moves, while its commit point is ahead of
\* its oplog, with a source that knows less to be committed (ahead).
Strays(n, m, s) ==
    {w \in Astray :
       \/ /\ w = "lagging"
          /\ ~Begins(log[n], log[m])
          /\ ~Less(LastOp(log[n]), LastOp(log[m]))
       \/ /\ w = "late"
          /\ role[n] # "secondary"
          /\ LastOp(s)[1] > term[n]
       \/ /\ w = "ahead"
          /\ s # log[n]
          /\ Less(LastOp(log[n]), commit[n])
          /\ Less(commit[m], commit[n])}

\* What the metadata of a batch from m tell n, after the entries are enqueued.
LearnFrom(n, m) ==
    /\ commit' = [commit EXCEPT ![n] = Advanced(n, commit[m])]
    /\ UpdateTerm(n, term[m])
    /\ reported' = Send(reported, n, OpTimeAt(log[n], durable[n]),
                        NewTerm(n, term[m]))

\* Mutant: the metadata are processed before the first batch is validated.
SyncBeforeValidating(n, m) ==
    /\ MaySync(n, m)
    /\ \E k \in {0, 1} :
          /\ Len(log[n]) + k <= Len(log[m])
          /\ k = 1 => Begins(log[n], log[m])
          /\ log' = [log EXCEPT
                        ![n] = @ \o SubSeq(log[m], Len(@) + 1, Len(@) + k)]
    /\ strayed' = strayed \cup Strays(n, m, log'[n])
    /\ LearnFrom(n, m)
    /\ UNCHANGED <<durable, role, vote, history, incidents>>

\* OplogFetcher::_callback: the first batch of m holds the last entry of n, so
\* the oplogs agree up to it.  n takes at most one entry, and what the metadata
\* say of the commit point and of the term.
Sync(n, m) ==
    /\ MaySync(n, m)
    /\ Begins(log[n], log[m])
    /\ \E k \in {0, 1} :
          /\ Len(log[n]) + k <= Len(log[m])
          /\ log' = [log EXCEPT
                        ![n] = @ \o SubSeq(log[m], Len(@) + 1, Len(@) + k)]
    /\ strayed' = strayed \cup Strays(n, m, log'[n])
    /\ LearnFrom(n, m)
    /\ UNCHANGED <<durable, role, vote, history, incidents>>

\* The last place at which two oplogs have the same operation.
CommonPoint(s, t) ==
    Cardinality({i \in 1 .. Len(s) : i <= Len(t) /\ s[i] = t[i]})

\* BackgroundSync::_rollback: the source does not have the last entry of n
\* (OplogStartMissing), or nothing that late (RemoteOplogStale).  The oplog is
\* cut at the common point and the optimes are read back from it.
Rollback(n, m) ==
    LET s == SubSeq(log[n], 1, CommonPoint(log[n], log[m]))
    IN /\ role[n] = "secondary"
       /\ MaySync(n, m)
       /\ ~Begins(log[n], log[m])
       /\ log' = [log EXCEPT ![n] = s]
       /\ strayed' = strayed \cup Strays(n, m, s)
       /\ durable' = [durable EXCEPT ![n] = Len(s)]
       /\ reported' = Send(reported, n, OpTimeAt(s, Len(s)), term[n])
       /\ UNCHANGED <<role, pending, term, vote, commit, history, incidents>>

-----------------------------------------------------------------------------
(***************************************************************************)
(* Elections                                                               *)
(***************************************************************************)

\* processReplSetRequestVotes: whether m votes for n in term t.
GrantsVote(m, n, t) ==
    /\ role[m] = "secondary"
    /\ term[m] <= t
    /\ vote[m] # t
    /\ AtLeast(LastOp(log[n]), LastOp(log[m]))

\* n is elected by itself and the voters Q, which adopt its term.  Until n has
\* drained, nothing may be committed.
WinElection(n, Q) ==
    LET t == term[n] + 1
        All == Q \cup {n}
    IN /\ role[n] = "secondary"
       /\ t + incidents <= MaxTerm
       /\ n \notin Q
       /\ 2 * Cardinality(All) > Cardinality(Node)
       /\ \A m \in Q : GrantsVote(m, n, t)
       /\ term' = [m \in Node |-> IF m \in All THEN t ELSE term[m]]
       /\ vote' = [m \in Node |-> IF m \in All THEN t ELSE vote[m]]
       /\ role' = [role EXCEPT ![n] = "catchup"]
       /\ reported' = [m \in Node |->
                         IF m \in All
                         THEN Send(reported, m, OpTimeAt(log[m], durable[m]), t)[m]
                         ELSE reported[m]]
       /\ UNCHANGED <<log, durable, pending, commit, history, strayed,
                      incidents>>

\* signalDrainComplete, and onTransitionToPrimary with it: the new primary logs
\* a no-op of its term ...
LogTransitionToPrimary(n) ==
    /\ role[n] = "catchup"
    /\ Len(log[n]) < MaxLen
    /\ log' = [log EXCEPT ![n] = Append(@, term[n])]
    /\ role' = [role EXCEPT ![n] = "draining"]
    /\ UNCHANGED <<durable, pending, term, vote, commit, reported, history,
                   strayed, incidents>>

\* ... and then makes it the first optime it may commit, and looks again at what
\* a majority has.
DrainComplete(n) ==
    LET op == LastOp(log[n])
    IN /\ role[n] = "draining"
       /\ role' = [role EXCEPT ![n] = "primary"]
       /\ \E c \in MajorityOpTimes(n, OpTimeAt(log[n], durable[n])) :
             SetCommit(n, IF \/ pending[n]
                             \/ AtLeast(commit[n], c)
                             \/ Less(c, op)
                          THEN commit[n]
                          ELSE c)
       /\ UNCHANGED <<log, durable, pending, term, vote, reported, strayed,
                      incidents>>

\* A process ends and starts again with what is on disk (_finishLoadLocalConfig):
\* the journaled oplog, and the later of its last term and of the stored vote.
Restart(n) ==
    LET s == SubSeq(log[n], 1, durable[n])
        t == IF LastOp(s)[1] > vote[n] THEN LastOp(s)[1] ELSE vote[n]
    IN /\ Incident
       /\ log' = [log EXCEPT ![n] = s]
       /\ role' = [role EXCEPT ![n] = "secondary"]
       /\ pending' = [pending EXCEPT ![n] = FALSE]
       /\ term' = [term EXCEPT ![n] = t]
       /\ commit' = [commit EXCEPT ![n] = Null]
       /\ reported' = Send(reported, n, OpTimeAt(s, Len(s)), t)
       /\ UNCHANGED <<durable, vote, history, strayed>>

-----------------------------------------------------------------------------
\* A set with one journaled and committed operation, whose primary is one of
\* its members.
Init ==
    /\ log = [n \in Node |-> <<1>>]
    /\ durable = [n \in Node |-> 1]
    /\ \E p \in Node :
          role = [n \in Node |-> IF n = p THEN "primary" ELSE "secondary"]
    /\ pending = [n \in Node |-> FALSE]
    /\ term = [n \in Node |-> 1]
    /\ vote = [n \in Node |-> 1]
    /\ commit = [n \in Node |-> <<1, 1>>]
    /\ reported = [n \in Node |-> [t \in Terms |-> <<1, 1>>]]
    /\ history = <<1>>
    /\ strayed = {}
    /\ incidents = 0

Next ==
    \E n \in Node :
       \/ Write(n)
       \/ Journal(n)
       \/ UpdatePosition(n)
       \/ StepDownStart(n)
       \/ StepDownFinish(n)
       \/ StepDown(n)
       \/ LogTransitionToPrimary(n)
       \/ DrainComplete(n)
       \/ Restart(n)
       \/ \E m \in Node : HearTerm(n, m) \/ Sync(n, m) \/ Rollback(n, m)
       \/ \E Q \in SUBSET Node : WinElection(n, Q)

Spec == Init /\ [][Next]_vars

-----------------------------------------------------------------------------
(***************************************************************************)
(* Properties                                                              *)
(***************************************************************************)

\* The variables have the types of the code's, the journal is not ahead of the
\* oplog, and only a primary has _stepDownPending set.
TypeOK ==
    /\ log \in [Node -> Seq(Terms)]
    /\ \A n \in Node : durable[n] <= Len(log[n]) /\ Len(log[n]) <= MaxLen
    /\ durable \in [Node -> 0 .. MaxLen]
    /\ role \in [Node -> Roles]
    /\ pending \in [Node -> BOOLEAN]
    /\ \A n \in Node : pending[n] => role[n] # "secondary"
    /\ term \in [Node -> Terms]
    /\ vote \in [Node -> Terms]
    /\ commit \in [Node -> OpTimes]
    /\ reported \in [Node -> [Terms -> OpTimes]]
    /\ history \in Seq(Terms)
    /\ strayed \in SUBSET Astray
    /\ incidents \in 0 .. MaxIncidents

\* What a primary has committed is in the journals of a majority of the members:
\* it is never rolled back everywhere, and every later majority of voters meets
\* it.
CommittedOnMajority ==
    2 * Cardinality({n \in Node :
                        Begins(history, SubSeq(log[n], 1, durable[n]))})
        > Cardinality(Node)

\* A primary of the term of the last committed operation, or of a later term, has
\* all that is committed in its oplog.
LeaderHasCommitted ==
    \A n \in Node :
       role[n] # "secondary" /\ history # << >> /\ term[n] >= LastOp(history)[1]
          => Begins(history, log[n])

\* Nobody has rolled back to a source behind it, and no primary has caught up with
\* operations of a later term than its own.
Straight == strayed \subseteq {"ahead"}

\* What is committed stays in the journals of a majority, through every election,
\* rollback, step down and restart and whatever sources the members have, until a
\* member rolls back to a source behind it or a primary catches up with a later
\* term.
CommittedUnlessStrayed == Straight => CommittedOnMajority

\* Until then, whoever is elected has all that is committed: the votes on applied
\* optimes keep others out, although the candidate may not have journaled what it
\* is voted in for, and the floor _firstOpTimeOfMyTerm keeps a primary from
\* committing what a rival with a later last term lacks.
LeaderUnlessStrayed == Straight => LeaderHasCommitted
=============================================================================
