------------------------------ MODULE Election ------------------------------
(***************************************************************************)
(* Elections of a replica set under protocol version 1: how the members    *)
(* of a set stand, vote, persist their votes, win, step down and restart.  *)
(* Every member runs the topology coordinator (role, _term, _lastVote,     *)
(* _stepDownPending) under _topoMutex; a candidate runs two rounds of vote *)
(* requests (a dry run in its current term, then the election in the next  *)
(* one); a replSetRequestVotes command first adopts the candidate's term,  *)
(* which makes a primary step down, then votes, then stores the vote.  A   *)
(* step of the model is one stretch of code under _topoMutex or one write  *)
(* of the LastVote document.                                               *)
(*                                                                         *)
(* An OpTime is abstracted to its term: applied[n] is the term of the last *)
(* operation n has applied.  The configuration does not change; timeouts   *)
(* and judgements on who is up are nondeterministic.                       *)
(***************************************************************************)
EXTENDS Naturals, FiniteSets

CONSTANTS Node,         \* the members of the set, all of them voters
          Electable,    \* the members with a priority above zero
          Fragile,      \* the members that may crash and restart
          MaxTerm       \* bound on the terms an election may reach

\* The members are finitely many and the bound on terms is a number.
ASSUME ElectionAssumption ==
    /\ IsFiniteSet(Node)
    /\ Electable \subseteq Node
    /\ Fragile \subseteq Node
    /\ MaxTerm \in Nat

VARIABLES
    role,               \* _role of the topology coordinator
    term,               \* _term
    lastVote,           \* the term of _lastVote, in memory
    diskVote,           \* the term of the stored LastVote document, 0: none
    stepDownPending,    \* _stepDownPending of the topology coordinator
    stepDownScheduled,  \* a _stepDownFinish is scheduled and not yet run
    applied,            \* the term of the last applied operation
    poll,               \* the _voteRequester of a candidate and its callbacks
    calls,              \* replSetRequestVotes commands sent, handled, answered
    announced,          \* terms that heartbeats and metadata may carry
    ballots,            \* history: votes that were made durable
    elected,            \* history: elections won
    ahead               \* history: a vote was cast in a term the voter had
                        \* not adopted

vars == <<role, term, lastVote, diskVote, stepDownPending, stepDownScheduled,
          applied, poll, calls, announced, ballots, elected, ahead>>

Terms == 0 .. MaxTerm

Larger(a, b) == IF a < b THEN b ELSE a

\* A poll: the phase of the election, the term bound into its completion
\* callback, the term its requests carry, and the state of the gathering.
Poll == [phase : {"none", "dryRun", "store", "vote"}, term : Terms,
         asked : Terms, yes : SUBSET Node, waiting : SUBSET Node,
         stale : BOOLEAN]

NoPoll == [phase |-> "none", term |-> 0, asked |-> 0,
           yes |-> {}, waiting |-> {}, stale |-> FALSE]

\* A command: live while the candidate still listens for its answer.
Call == [from : Node, to : Node, term : Terms, dryRun : BOOLEAN,
         applied : Terms, live : BOOLEAN,
         stage : {"sent", "stepDown", "vote", "store", "replied"},
         granted : BOOLEAN, replyTerm : Terms]

Init ==
    /\ role = [n \in Node |-> "follower"]
    /\ term = [n \in Node |-> 0]
    /\ lastVote = [n \in Node |-> 0]
    /\ diskVote = [n \in Node |-> 0]
    /\ stepDownPending = [n \in Node |-> FALSE]
    /\ stepDownScheduled = [n \in Node |-> FALSE]
    /\ applied = [n \in Node |-> 0]
    /\ poll = [n \in Node |-> NoPoll]
    /\ calls = {}
    /\ announced = {0}
    /\ ballots = {}
    /\ elected = {}
    /\ ahead = FALSE

-----------------------------------------------------------------------------
(* The topology coordinator. *)

\* Mutants: the term has to be two ahead; a primary adopts the term at once; the
\* term is taken to be the next one.
MustStepDownLate(n, t) == t > term[n] + 1 /\ role[n] = "leader"

NewTermAtLeader(n, t) == IF t > term[n] THEN t ELSE term[n]

NewTermOffByOne(n, t) ==
    IF t > term[n] /\ role[n] # "leader" THEN t + 1 ELSE term[n]

\* updateTerm: a primary does not adopt the term, it has to step down first.
MustStepDown(n, t) == t > term[n] /\ role[n] = "leader"

NewTerm(n, t) == IF t > term[n] /\ role[n] # "leader" THEN t ELSE term[n]

\* _updateTerm_incallback: prepareForStepDown and _stepDownStart at a primary.
UpdateTerm(n, t) ==
    /\ term' = [term EXCEPT ![n] = NewTerm(n, t)]
    /\ announced' = announced \cup {NewTerm(n, t)}
    /\ stepDownPending' = [stepDownPending EXCEPT
                             ![n] = @ \/ MustStepDown(n, t)]
    /\ stepDownScheduled' = [stepDownScheduled EXCEPT
                               ![n] = @ \/ MustStepDown(n, t)]

\* Mutant: the candidate is forgotten, its role is not.
LoseElectionKeepsRole(n) ==
    /\ poll' = [poll EXCEPT ![n] = NoPoll]
    /\ UNCHANGED role

\* processLoseElection, and _voteRequester.reset() of LoseElectionGuardV1.
LoseElection(n) ==
    /\ role' = [role EXCEPT ![n] = "follower"]
    /\ poll' = [poll EXCEPT ![n] = NoPoll]

\* Mutant: the last vote is not looked at.
RefusesWithoutLastVote(n, c) == c.term < term[n] \/ c.applied < applied[n]

\* The reasons for which processReplSetRequestVotes denies a vote.
Refuses(n, c) ==
    \/ c.term < term[n]
    \/ c.applied < applied[n]
    \/ ~c.dryRun /\ lastVote[n] = c.term

\* Mutant: the document is written after the answer, not at all before it.
StoredLater(n, t) == diskVote[n]

\* storeLocalLastVoteDocument: only a higher term replaces the document.
Stored(n, t) == Larger(diskVote[n], t)

-----------------------------------------------------------------------------
(* Gathering votes: VoteRequester and ScatterGatherRunner. *)

Majority == Cardinality(Node) \div 2 + 1

\* VoteRequester::Algorithm::getRequests
Requests(n, t, dry) ==
    {[from |-> n, to |-> m, term |-> t, dryRun |-> dry, applied |-> applied[n],
      live |-> TRUE, stage |-> "sent", granted |-> FALSE, replyTerm |-> 0] :
        m \in Node \ {n}}

\* The candidate itself is counted from the start.
Votes(p) == Cardinality(p.yes) + 1

HasReceivedSufficientResponses(p) ==
    \/ p.stale
    \/ Votes(p) = Majority
    \/ p.waiting = {}

\* Mutant: one vote short.
SuccessfullyElectedShort(p) == ~p.stale /\ Votes(p) + 1 >= Majority

SuccessfullyElected(p) == ~p.stale /\ Votes(p) >= Majority

\* The candidate n stops listening to its commands to S: answers are dropped,
\* votes that are asked for or being handled go on.  (All that is left of a
\* dry run is its term, and HearTerm brings that.)
Forget(n, S) ==
    {c \in calls : ~(c.from = n /\ c.to \in S)}
    \cup {[c EXCEPT !.live = FALSE] :
            c \in {d \in calls : /\ d.from = n /\ d.to \in S
                                 /\ ~d.dryRun /\ d.stage # "replied"}}

\* RunnerImpl::processResponse, with the poll after the algorithm has seen the
\* response: once the responses suffice the other callbacks are cancelled.
Gather(n, p) ==
    IF HasReceivedSufficientResponses(p)
      THEN /\ poll' = [poll EXCEPT ![n] = [p EXCEPT !.waiting = {}]]
           /\ calls' = Forget(n, poll[n].waiting)
      ELSE /\ poll' = [poll EXCEPT ![n] = p]
           /\ calls' = Forget(n, poll[n].waiting \ p.waiting)

-----------------------------------------------------------------------------
(* The candidate. *)

\* _startElectSelfIfEligibleV1: the election timeout or a priority takeover.
StartElection(n) ==
    /\ n \in Electable
    /\ role[n] = "follower"
    /\ term[n] < MaxTerm
    /\ role' = [role EXCEPT ![n] = "candidate"]
    /\ poll' = [poll EXCEPT ![n] =
                  [phase |-> "dryRun", term |-> term[n], asked |-> term[n],
                   yes |-> {}, waiting |-> Node \ {n}, stale |-> FALSE]]
    /\ calls' = calls \cup Requests(n, term[n], TRUE)
    /\ UNCHANGED <<term, lastVote, diskVote, stepDownPending,
                   stepDownScheduled, applied, announced, ballots, elected,
                   ahead>>

\* VoteRequester::Algorithm::processResponse of an answer.
ProcessResponse(c) ==
    LET n == c.from
        p == poll[n]
    IN  /\ c.stage = "replied"
        /\ Gather(n, [p EXCEPT !.yes = IF c.granted THEN @ \cup {c.to} ELSE @,
                               !.waiting = @ \ {c.to},
                               !.stale = @ \/ c.replyTerm > p.asked])
        /\ UNCHANGED <<role, term, lastVote, diskVote, stepDownPending,
                       stepDownScheduled, applied, announced, ballots,
                       elected, ahead>>

\* The same of a command that failed or timed out.
FailedResponse(n, m) ==
    /\ m \in poll[n].waiting
    /\ Gather(n, [poll[n] EXCEPT !.waiting = @ \ {m}])
    /\ UNCHANGED <<role, term, lastVote, diskVote, stepDownPending,
                   stepDownScheduled, applied, announced, ballots, elected,
                   ahead>>

\* The checks that end the dry run and the election alike.
MayGoOn(n) == term[n] = poll[n].term /\ SuccessfullyElected(poll[n])

OnDryRunComplete(n) ==
    /\ poll[n].phase = "dryRun"
    /\ poll[n].waiting = {}
    /\ IF MayGoOn(n)
         THEN /\ term' = [term EXCEPT ![n] = @ + 1]
              /\ announced' = announced \cup {term[n] + 1}
              /\ lastVote' = [lastVote EXCEPT ![n] = term[n] + 1]
              /\ poll' = [poll EXCEPT ![n] =
                            [NoPoll EXCEPT !.phase = "store",
                                           !.term = term[n] + 1]]
              /\ UNCHANGED role
         ELSE LoseElection(n) /\ UNCHANGED <<term, announced, lastVote>>
    /\ UNCHANGED <<diskVote, stepDownPending, stepDownScheduled, applied,
                   calls, ballots, elected, ahead>>

\* _writeLastVoteForMyElection and _startVoteRequester, which asks for votes
\* in the term the member has by then.
WriteLastVoteForMyElection(n) ==
    /\ poll[n].phase = "store"
    /\ diskVote' = [diskVote EXCEPT ![n] = Stored(n, poll[n].term)]
    /\ ballots' = ballots \cup
         {[voter |-> n, candidate |-> n, term |-> poll[n].term]}
    /\ poll' = [poll EXCEPT ![n] =
                  [@ EXCEPT !.phase = "vote", !.asked = term[n],
                            !.waiting = Node \ {n}]]
    /\ calls' = calls \cup Requests(n, term[n], FALSE)
    /\ UNCHANGED <<role, term, lastVote, stepDownPending, stepDownScheduled,
                   applied, announced, elected, ahead>>

WriteLastVoteFails(n) ==
    /\ poll[n].phase = "store"
    /\ LoseElection(n)
    /\ UNCHANGED <<term, lastVote, diskVote, stepDownPending,
                   stepDownScheduled, applied, calls, announced, ballots,
                   elected, ahead>>

OnVoteRequestComplete(n) ==
    /\ poll[n].phase = "vote"
    /\ poll[n].waiting = {}
    /\ IF MayGoOn(n)
         THEN /\ role' = [role EXCEPT ![n] = "leader"]
              /\ poll' = [poll EXCEPT ![n] = NoPoll]
              /\ elected' = elected \cup {[node |-> n, term |-> term[n]]}
         ELSE LoseElection(n) /\ UNCHANGED elected
    /\ UNCHANGED <<term, lastVote, diskVote, stepDownPending,
                   stepDownScheduled, applied, calls, announced, ballots,
                   ahead>>

-----------------------------------------------------------------------------
(* The voter: processReplSetRequestVotes. *)

\* Command c goes on as d.
Advance(c, d) == calls' = (calls \ {c}) \cup {d}

\* The answer to c, if its candidate still listens.
Reply(c, yes, t) ==
    calls' = (calls \ {c}) \cup
        {d \in {[c EXCEPT !.stage = "replied", !.granted = yes,
                          !.replyTerm = t]} : c.live}

\* The command adopts the candidate's term; at a primary it starts a step
\* down and waits for it.
ReceiveRequest(c) ==
    /\ c.stage = "sent"
    /\ UpdateTerm(c.to, c.term)
    /\ Advance(c, [c EXCEPT !.stage = IF MustStepDown(c.to, c.term)
                                        THEN "stepDown" ELSE "vote"])
    /\ UNCHANGED <<role, lastVote, diskVote, applied, poll, ballots, elected,
                   ahead>>

\* The step down the command waits for has finished.
StepDownAwaited(c) ==
    /\ c.stage = "stepDown"
    /\ ~stepDownScheduled[c.to]
    /\ Advance(c, [c EXCEPT !.stage = "vote"])
    /\ UNCHANGED <<role, term, lastVote, diskVote, stepDownPending,
                   stepDownScheduled, applied, poll, announced, ballots,
                   elected, ahead>>

\* TopologyCoordinatorImpl::processReplSetRequestVotes
DenyVote(c) ==
    /\ c.stage = "vote"
    /\ Refuses(c.to, c)
    /\ Reply(c, FALSE, term[c.to])
    /\ UNCHANGED <<role, term, lastVote, diskVote, stepDownPending,
                   stepDownScheduled, applied, poll, announced, ballots,
                   elected, ahead>>

GrantDryRun(c) ==
    /\ c.stage = "vote"
    /\ c.dryRun
    /\ ~Refuses(c.to, c)
    /\ Reply(c, TRUE, term[c.to])
    /\ UNCHANGED <<role, term, lastVote, diskVote, stepDownPending,
                   stepDownScheduled, applied, poll, announced, ballots,
                   elected, ahead>>

GrantVote(c) ==
    /\ c.stage = "vote"
    /\ ~c.dryRun
    /\ ~Refuses(c.to, c)
    /\ lastVote' = [lastVote EXCEPT ![c.to] = c.term]
    /\ ahead' = (ahead \/ c.term > term[c.to])
    /\ Advance(c, [c EXCEPT !.stage = "store", !.replyTerm = term[c.to]])
    /\ UNCHANGED <<role, term, diskVote, stepDownPending, stepDownScheduled,
                   applied, poll, announced, ballots, elected>>

\* The vote is answered only after it has been made durable.
StoreVote(c) ==
    /\ c.stage = "store"
    /\ diskVote' = [diskVote EXCEPT ![c.to] = Stored(c.to, c.term)]
    /\ ballots' = ballots \cup
         {[voter |-> c.to, candidate |-> c.from, term |-> c.term]}
    /\ Reply(c, TRUE, c.replyTerm)
    /\ UNCHANGED <<role, term, lastVote, stepDownPending, stepDownScheduled,
                   applied, poll, announced, elected, ahead>>

\* The command fails: the candidate reads its error as a vote denied.
StoreVoteFails(c) ==
    /\ c.stage = "store"
    /\ Reply(c, FALSE, 0)
    /\ UNCHANGED <<role, term, lastVote, diskVote, stepDownPending,
                   stepDownScheduled, applied, poll, announced, ballots,
                   elected, ahead>>

-----------------------------------------------------------------------------
(* Heartbeats, step down, data and restarts. *)

\* _handleHeartbeatResponse and _processReplSetMetadata_incallback: a term
\* some member has had arrives.
HearTerm(n, t) ==
    /\ t \in announced
    /\ t > term[n]
    /\ UpdateTerm(n, t)
    /\ UNCHANGED <<role, lastVote, diskVote, applied, poll, calls, ballots,
                   elected, ahead>>

\* HeartbeatResponseAction::StepDownSelf: the primary sees no majority.
LoseMajority(n) ==
    /\ role[n] = "leader"
    /\ stepDownPending' = [stepDownPending EXCEPT ![n] = TRUE]
    /\ stepDownScheduled' = [stepDownScheduled EXCEPT ![n] = TRUE]
    /\ UNCHANGED <<role, term, lastVote, diskVote, applied, poll, calls,
                   announced, ballots, elected, ahead>>

\* _stepDownFinish, under the global lock: the term that caused the step down
\* is not adopted.
StepDownFinish(n) ==
    /\ stepDownScheduled[n]
    /\ role' = [role EXCEPT ![n] = IF stepDownPending[n] THEN "follower" ELSE @]
    /\ stepDownPending' = [stepDownPending EXCEPT ![n] = FALSE]
    /\ stepDownScheduled' = [stepDownScheduled EXCEPT ![n] = FALSE]
    /\ UNCHANGED <<term, lastVote, diskVote, applied, poll, calls, announced,
                   ballots, elected, ahead>>

\* Mutant: the pending step down is left for later.
StepDownStaysPending(n) ==
    /\ role[n] = "leader"
    /\ role' = [role EXCEPT ![n] = "follower"]
    /\ UNCHANGED <<term, lastVote, diskVote, stepDownPending,
                   stepDownScheduled, applied, poll, calls, announced,
                   ballots, elected, ahead>>

\* The replSetStepDown command, when _tryToStepDown succeeds.
StepDown(n) ==
    /\ role[n] = "leader"
    /\ role' = [role EXCEPT ![n] = "follower"]
    /\ stepDownPending' = [stepDownPending EXCEPT ![n] = FALSE]
    /\ UNCHANGED <<term, lastVote, diskVote, stepDownScheduled, applied, poll,
                   calls, announced, ballots, elected, ahead>>

\* onTransitionToPrimary logs the first operation of the new term.
LogTransitionToPrimary(n) ==
    /\ role[n] = "leader"
    /\ applied[n] < term[n]
    /\ applied' = [applied EXCEPT ![n] = term[n]]
    /\ UNCHANGED <<role, term, lastVote, diskVote, stepDownPending,
                   stepDownScheduled, poll, calls, announced, ballots,
                   elected, ahead>>

\* A member applies the operations of another one.
SetMyLastApplied(n, m) ==
    /\ role[n] # "leader"
    /\ applied[n] < applied[m]
    /\ applied' = [applied EXCEPT ![n] = applied[m]]
    /\ UNCHANGED <<role, term, lastVote, diskVote, stepDownPending,
                   stepDownScheduled, poll, calls, announced, ballots,
                   elected, ahead>>

\* Mutant: the term comes from the oplog alone.
StartupTermOfOplog(n) == applied[n]

\* The process dies and starts again: _startLoadLocalConfig loads the stored
\* vote, _finishLoadLocalConfig takes the term from the vote and the oplog.
StartupTerm(n) == Larger(applied[n], diskVote[n])

Restart(n) ==
    /\ n \in Fragile
    /\ role' = [role EXCEPT ![n] = "follower"]
    /\ lastVote' = [lastVote EXCEPT ![n] = diskVote[n]]
    /\ term' = [term EXCEPT ![n] = StartupTerm(n)]
    /\ announced' = announced \cup {StartupTerm(n)}
    /\ stepDownPending' = [stepDownPending EXCEPT ![n] = FALSE]
    /\ stepDownScheduled' = [stepDownScheduled EXCEPT ![n] = FALSE]
    /\ poll' = [poll EXCEPT ![n] = NoPoll]
    /\ calls' = {c \in Forget(n, Node) :
                   c.to = n => c.stage \in {"sent", "replied"}}
    /\ UNCHANGED <<diskVote, applied, ballots, elected, ahead>>

-----------------------------------------------------------------------------
Candidate(n) ==
    \/ StartElection(n)
    \/ OnDryRunComplete(n)
    \/ WriteLastVoteForMyElection(n)
    \/ WriteLastVoteFails(n)
    \/ OnVoteRequestComplete(n)

Voter(c) ==
    \/ ReceiveRequest(c)
    \/ StepDownAwaited(c)
    \/ DenyVote(c)
    \/ GrantDryRun(c)
    \/ GrantVote(c)
    \/ StoreVote(c)
    \/ StoreVoteFails(c)

Member(n) ==
    \/ LoseMajority(n)
    \/ StepDownFinish(n)
    \/ StepDown(n)
    \/ LogTransitionToPrimary(n)
    \/ Restart(n)

Next ==
    \/ \E n \in Node : Candidate(n) \/ Member(n)
    \/ \E n, m \in Node : FailedResponse(n, m) \/ SetMyLastApplied(n, m)
    \/ \E n \in Node, t \in Terms : HearTerm(n, t)
    \/ \E c \in calls : Voter(c) \/ ProcessResponse(c)

Spec == Init /\ [][Next]_vars

\* What the executor of member n has scheduled: the callback of the stage its
\* election is in, the answer or the time-out of a remote command it sent, the
\* end of a step-down.
Scheduled(n) ==
    \/ OnDryRunComplete(n)
    \/ WriteLastVoteForMyElection(n)
    \/ WriteLastVoteFails(n)
    \/ OnVoteRequestComplete(n)
    \/ StepDownFinish(n)
    \/ \E m \in Node : FailedResponse(n, m)

\* The executor of a member does not stop while something is scheduled, and
\* heartbeats are repeated until they get through.
Fairness ==
    \A n \in Node :
        /\ WF_vars(Scheduled(n))
        /\ WF_vars(\E t \in Terms : HearTerm(n, t))

-----------------------------------------------------------------------------
(* Properties. *)

TypeOK ==
    /\ role \in [Node -> {"follower", "candidate", "leader"}]
    /\ term \in [Node -> Terms]
    /\ lastVote \in [Node -> Terms]
    /\ diskVote \in [Node -> Terms]
    /\ stepDownPending \in [Node -> BOOLEAN]
    /\ stepDownScheduled \in [Node -> BOOLEAN]
    /\ applied \in [Node -> Terms]
    /\ poll \in [Node -> Poll]
    /\ calls \subseteq Call
    /\ announced \subseteq Terms
    /\ ballots \subseteq [voter : Node, candidate : Node, term : Terms]
    /\ elected \subseteq [node : Node, term : Terms]
    /\ ahead \in BOOLEAN

\* Those who voted for n in term t, durably.
Electorate(n, t) ==
    {v \in Node : [voter |-> v, candidate |-> n, term |-> t] \in ballots}

\* At most one member is elected in a term.
OnePrimaryPerTerm ==
    \A e, f \in elected : e.term = f.term => e.node = f.node

\* At most one member is elected in a term, through crashes, lost requests and
\* late answers, as long as no member has voted in a term it had not adopted
\* (updateTerm leaves _term alone when it makes a primary step down).
OnePrimaryUnlessAhead == ~ahead => OnePrimaryPerTerm

\* Of two primaries one has the higher term, by which the other will be made
\* to step down.
RivalHasHigherTerm ==
    \A n, m \in Node :
        n # m /\ role[n] = "leader" /\ role[m] = "leader" => term[n] # term[m]

\* Whoever becomes primary in a term has the durable votes of a majority in
\* that very term, its own included, although _startVoteRequester asks in the
\* term of the moment and not in the one the candidate voted for itself in.
ElectedByMajority ==
    \A e \in elected : Cardinality(Electorate(e.node, e.term)) >= Majority

\* A vote a candidate may have counted survives a crash of the voter: the
\* stored document has that term or a later one.
VotesDurable == \A b \in ballots : b.term <= diskVote[b.voter]

\* A primary reports the term it was elected in: the term that makes it step
\* down is not adopted while it is primary.
LeaderInItsTerm ==
    \A n \in Node :
        role[n] = "leader" => [node |-> n, term |-> term[n]] \in elected

\* Only a primary has a step down pending, as _stepDownSelfAndReplaceWith
\* asserts when it carries it out.
PendingAtLeader ==
    \A n \in Node : stepDownPending[n] => role[n] = "leader"

\* The term of a member never decreases, except by a restart, and then not
\* below a term in which a vote of it may have been counted.
TermsNeverForgotten ==
    [][\A n \in Node :
         term'[n] >= term[n]
         \/ \A b \in ballots : b.voter = n => b.term <= term'[n]]_vars

\* An election ends, won or lost, whatever becomes of the requests.  (Only an
\* electable member starts one.)
ElectionEnds ==
    \A n \in Electable : role[n] = "candidate" ~> role[n] # "candidate"

\* A primary that was passed over by an election becomes aware of the new term
\* and steps down.
StalePrimaryStepsDown ==
    \A n \in Electable :
        (role[n] = "leader" /\ \E t \in announced : t > term[n])
            ~> role[n] # "leader"

=============================================================================
