--------------------------- MODULE ElectionProofs ---------------------------
(***************************************************************************)
(* Proofs about Election: the type invariant, that a primary has the       *)
(* durable votes of a majority in its own term, that counted votes survive *)
(* a crash, and that a term has one primary unless some member has voted   *)
(* in a term it had not adopted.                                           *)
(***************************************************************************)
EXTENDS Election, FiniteSetTheorems, TLAPS

Ballot(v, n, t) == [voter |-> v, candidate |-> n, term |-> t]

\* What holds of a command: who is asked, what an answer stands for, and that
\* its candidate is in the round of requests it belongs to as long as it
\* listens.
CallOK(c) ==
    /\ c.from # c.to
    /\ c.stage = "store" => ~c.dryRun
    /\ c.stage = "replied" => c.live
    /\ c.stage = "replied" /\ c.granted /\ ~c.dryRun =>
         Ballot(c.to, c.from, c.term) \in ballots
    /\ c.live => /\ c.to \in poll[c.from].waiting
                 /\ c.term = poll[c.from].asked
                 /\ c.dryRun => poll[c.from].phase = "dryRun"
                 /\ ~c.dryRun => poll[c.from].phase = "vote"

\* What holds of a poll: its phase agrees with the role, its terms are not
\* ahead of the candidate's, the votes counted in the election are on disk.
PollOK(n) ==
    /\ poll[n].yes \subseteq Node \ {n}
    /\ poll[n].waiting \subseteq Node \ {n}
    /\ role[n] = "candidate" <=> poll[n].phase # "none"
    /\ poll[n].phase \in {"none", "store"} =>
         poll[n].waiting = {} /\ poll[n].yes = {}
    /\ poll[n].phase = "dryRun" => poll[n].term < MaxTerm
    /\ poll[n].phase = "store" => poll[n].term <= term[n]
    /\ poll[n].phase = "vote" =>
         /\ poll[n].term <= poll[n].asked
         /\ poll[n].asked <= term[n]
         /\ Ballot(n, n, poll[n].term) \in ballots
         /\ \A v \in poll[n].yes : Ballot(v, n, poll[n].asked) \in ballots

\* Member v has voted for n in term t, in memory or on disk.
Cast(v, n, t) ==
    \/ Ballot(v, n, t) \in ballots
    \/ \E c \in calls : c.stage = "store" /\ c.to = v /\ c.from = n /\ c.term = t
    \/ v = n /\ poll[n].phase = "store" /\ poll[n].term = t

\* What holds of the votes while none was cast ahead of its voter's term.
VotesOK ==
    /\ \A v \in Node : diskVote[v] <= lastVote[v] /\ lastVote[v] <= term[v]
    /\ \A v, n \in Node, t \in Terms : Cast(v, n, t) => t <= lastVote[v]
    /\ \A v, n, m \in Node, t \in Terms :
         Cast(v, n, t) /\ Cast(v, m, t) => n = m

IInv ==
    /\ TypeOK
    /\ \A c \in calls : CallOK(c)
    /\ \A n \in Node : PollOK(n)
    /\ VotesDurable
    /\ ~ahead => VotesOK
    /\ ElectedByMajority
    /\ LeaderInItsTerm
    /\ PendingAtLeader

-----------------------------------------------------------------------------
(* Majorities. *)

\* Two majorities of the members have a member in common.
LEMMA MajoritiesMeet ==
    ASSUME NEW S \in SUBSET Node, NEW T \in SUBSET Node,
           Cardinality(S) >= Majority, Cardinality(T) >= Majority
    PROVE  \E v \in Node : v \in S /\ v \in T
<1>1. /\ IsFiniteSet(Node) /\ IsFiniteSet(S) /\ IsFiniteSet(T)
      /\ IsFiniteSet(S \cup T)
  BY Zenon, ElectionAssumption, FS_Subset, FS_Union
<1>2. /\ Cardinality(Node) \in Nat /\ Cardinality(S) \in Nat
      /\ Cardinality(T) \in Nat /\ Cardinality(S \cap T) \in Nat
  BY Zenon, <1>1, FS_CardinalityType, FS_Intersection
<1>3. Cardinality(S \cup T)
        = Cardinality(S) + Cardinality(T) - Cardinality(S \cap T)
  BY Zenon, <1>1, FS_Union
<1>4. Cardinality(S \cup T) <= Cardinality(Node)
  BY Zenon, <1>1, FS_Subset
<1>5. Cardinality(S \cap T) # 0
  BY <1>2, <1>3, <1>4 DEF Majority
<1>6. S \cap T # {}
  BY Zenon, <1>5, FS_EmptySet
<1> QED
  BY Zenon, <1>6

\* A candidate and those that said yes are one more than those.
LEMMA VotesCounted ==
    ASSUME NEW n \in Node, NEW S \in SUBSET (Node \ {n})
    PROVE  Cardinality(S \cup {n}) = Cardinality(S) + 1
<1>1. IsFiniteSet(S)
  BY Zenon, ElectionAssumption, FS_Subset
<1> QED
  BY Zenon, <1>1, FS_AddElement

\* A set with at least a majority of members keeps it when it grows.
LEMMA MajorityGrows ==
    ASSUME NEW S \in SUBSET Node, NEW T \in SUBSET Node, S \subseteq T,
           Cardinality(S) >= Majority
    PROVE  Cardinality(T) >= Majority
<1>1. IsFiniteSet(T) /\ IsFiniteSet(Node)
  BY Zenon, ElectionAssumption, FS_Subset
<1>2. Cardinality(S) <= Cardinality(T) /\ IsFiniteSet(S)
  BY Zenon, <1>1, FS_Subset
<1>3. Cardinality(S) \in Nat /\ Cardinality(T) \in Nat /\ Cardinality(Node) \in Nat
  BY Zenon, <1>1, <1>2, FS_CardinalityType
<1> QED
  BY <1>2, <1>3 DEF Majority

-----------------------------------------------------------------------------
(* Types. *)

\* The commands a candidate forgets are still commands.
LEMMA ForgetType ==
    ASSUME NEW n \in Node, NEW S, calls \subseteq Call
    PROVE  /\ Forget(n, S) \subseteq Call
           /\ \A c \in Forget(n, S) :
                \/ c \in calls /\ ~(c.from = n /\ c.to \in S)
                \/ \E d \in calls : /\ c = [d EXCEPT !.live = FALSE]
                                    /\ d.from = n /\ d.to \in S
                                    /\ ~d.dryRun /\ d.stage # "replied"
<1>1. ASSUME NEW d \in calls PROVE [d EXCEPT !.live = FALSE] \in Call
  BY Zenon DEF Call
<1> QED
  BY Zenon, <1>1 DEF Forget

\* The requests of a round are commands to the other members.
LEMMA RequestsType ==
    ASSUME NEW n \in Node, NEW t \in Terms, NEW dry \in BOOLEAN, TypeOK
    PROVE  \A c \in Requests(n, t, dry) :
             /\ c \in Call /\ c.from = n /\ c.to # n /\ c.term = t
             /\ c.dryRun = dry /\ c.live /\ c.stage = "sent" /\ ~c.granted
<1>1. 0 \in Terms /\ applied[n] \in Terms
  BY ElectionAssumption DEF Terms, TypeOK
<1> SUFFICES ASSUME NEW m \in Node \ {n},
                    NEW c, c = [from |-> n, to |-> m, term |-> t,
                                dryRun |-> dry, applied |-> applied[n],
                                live |-> TRUE, stage |-> "sent",
                                granted |-> FALSE, replyTerm |-> 0]
             PROVE  /\ c \in Call /\ c.from = n /\ c.to # n /\ c.term = t
                    /\ c.dryRun = dry /\ c.live /\ c.stage = "sent"
                    /\ ~c.granted
  BY Zenon DEF Requests
<1>2. c \in Call
  BY Zenon, <1>1 DEF Call
<1> QED
  BY Zenon, <1>2

\* A poll that has not started has the type of a poll.
LEMMA NoPollType == NoPoll \in Poll
  BY ElectionAssumption DEF NoPoll, Poll, Terms

\* Every term compared and stored is one of Terms.
LEMMA LargerType ==
    ASSUME NEW a \in Terms, NEW b \in Terms
    PROVE  Larger(a, b) \in Terms /\ Larger(a, b) >= a /\ Larger(a, b) >= b
  BY ElectionAssumption DEF Larger, Terms

\* The state of a command after a step of its handler.
LEMMA CallType ==
    ASSUME NEW c \in Call, NEW st \in {"stepDown", "vote", "store", "replied"},
           NEW g \in BOOLEAN, NEW t \in Terms
    PROVE  /\ [c EXCEPT !.stage = st] \in Call
           /\ [c EXCEPT !.stage = st, !.replyTerm = t] \in Call
           /\ [c EXCEPT !.stage = st, !.granted = g, !.replyTerm = t] \in Call
  BY Zenon DEF Call

\* What a round of requests leaves after a response.
LEMMA GatherType ==
    ASSUME TypeOK, NEW n \in Node, NEW p \in Poll, Gather(n, p)
    PROVE  poll' \in [Node -> Poll] /\ calls' \subseteq Call
<1>1. [p EXCEPT !.waiting = {}] \in Poll
  BY Zenon DEF Poll
<1>2. /\ Forget(n, poll[n].waiting) \subseteq Call
      /\ Forget(n, poll[n].waiting \ p.waiting) \subseteq Call
  BY ForgetType DEF TypeOK
<1> QED
  BY Zenon, <1>1, <1>2 DEF Gather, TypeOK

\* An answer is a command.
LEMMA ReplyType ==
    ASSUME NEW c \in calls, calls \subseteq Call, NEW yes \in BOOLEAN,
           NEW t \in Terms, Reply(c, yes, t)
    PROVE  /\ calls' \subseteq Call
           /\ \A d \in calls' : \/ d \in calls
                                \/ /\ c.live
                                   /\ d = [c EXCEPT !.stage = "replied",
                                             !.granted = yes, !.replyTerm = t]
<1> DEFINE r == [c EXCEPT !.stage = "replied", !.granted = yes, !.replyTerm = t]
<1>1. r \in Call
  BY Zenon, CallType
<1> HIDE DEF r
<1>2. calls' = (calls \ {c}) \cup {d \in {r} : c.live}
  BY Zenon DEF Reply, r
<1>3. calls' \subseteq Call /\ \A d \in calls' : d \in calls \/ (c.live /\ d = r)
  BY Zenon, <1>1, <1>2
<1> QED
  BY <1>3, Zenon DEF r

\* updateTerm keeps the types and never lowers a term.
LEMMA UpdateTermType ==
    ASSUME TypeOK, NEW n \in Node, NEW t \in Terms, UpdateTerm(n, t)
    PROVE  /\ term' \in [Node -> Terms]
           /\ announced' \subseteq Terms
           /\ stepDownPending' \in [Node -> BOOLEAN]
           /\ stepDownScheduled' \in [Node -> BOOLEAN]
           /\ \A m \in Node : term[m] <= term'[m]
           /\ \A m \in Node : role[m] = "leader" => term'[m] = term[m]
<1>1. NewTerm(n, t) \in Terms /\ term[n] <= NewTerm(n, t)
  BY ElectionAssumption DEF NewTerm, TypeOK, Terms
<1>2. term' \in [Node -> Terms] /\ announced' \subseteq Terms
  BY Zenon, <1>1 DEF UpdateTerm, TypeOK
<1>3. stepDownPending' \in [Node -> BOOLEAN]
  BY Zenon DEF UpdateTerm, TypeOK
<1>4. stepDownScheduled' \in [Node -> BOOLEAN]
  BY Zenon DEF UpdateTerm, TypeOK
<1>5. \A m \in Node : term[m] <= term'[m]
  BY <1>1, ElectionAssumption DEF UpdateTerm, TypeOK, Terms
<1>6. \A m \in Node : role[m] = "leader" => term'[m] = term[m]
  BY Zenon DEF UpdateTerm, NewTerm, TypeOK
<1> QED
  BY Zenon, <1>2, <1>3, <1>4, <1>5, <1>6

\* A step of a candidate keeps the types.
LEMMA CandidateType ==
    ASSUME IInv, NEW n \in Node, Candidate(n)
    PROVE  TypeOK'
<1> USE DEF IInv
<1>1. /\ TypeOK /\ PollOK(n) /\ poll[n] \in Poll /\ term[n] \in Terms
      /\ poll[n].term \in Terms
  BY Zenon DEF TypeOK, Poll
<1>2. CASE StartElection(n)
  <2>1. [phase |-> "dryRun", term |-> term[n], asked |-> term[n],
         yes |-> {}, waiting |-> Node \ {n}, stale |-> FALSE] \in Poll
    BY Zenon, <1>1 DEF Poll
  <2>2. Requests(n, term[n], TRUE) \subseteq Call
    BY Zenon, <1>1, RequestsType
  <2> QED
    BY Zenon, <1>1, <1>2, <2>1, <2>2 DEF StartElection, TypeOK
<1>3. CASE OnDryRunComplete(n)
  <2>1. CASE MayGoOn(n)
    <3>1. term[n] + 1 \in Terms
      BY <1>1, <1>3, <2>1, ElectionAssumption
         DEF OnDryRunComplete, MayGoOn, PollOK, Terms
    <3>2. [NoPoll EXCEPT !.phase = "store", !.term = term[n] + 1] \in Poll
      BY Zenon, <3>1, NoPollType DEF Poll
    <3> QED
      BY <1>1, <1>3, <2>1, <3>1, <3>2 DEF OnDryRunComplete, TypeOK
  <2>2. CASE ~MayGoOn(n)
    BY Zenon, <1>1, <1>3, <2>2, NoPollType DEF OnDryRunComplete, LoseElection, TypeOK
  <2> QED
    BY Zenon, <2>1, <2>2
<1>4. CASE WriteLastVoteForMyElection(n)
  <2>1. [poll[n] EXCEPT !.phase = "vote", !.asked = term[n],
                        !.waiting = Node \ {n}] \in Poll
    BY Zenon, <1>1 DEF Poll
  <2>2. Requests(n, term[n], FALSE) \subseteq Call
    BY Zenon, <1>1, RequestsType
  <2>3. Stored(n, poll[n].term) \in Terms
    BY Zenon, <1>1, LargerType DEF Stored, TypeOK
  <2>4. ballots' \subseteq [voter : Node, candidate : Node, term : Terms]
    BY <1>1, <1>4 DEF WriteLastVoteForMyElection, TypeOK
  <2>5. poll' \in [Node -> Poll]
    BY Zenon, <1>1, <1>4, <2>1 DEF WriteLastVoteForMyElection, TypeOK
  <2> QED
    BY Zenon, <1>1, <1>4, <2>2, <2>3, <2>4, <2>5 DEF WriteLastVoteForMyElection, TypeOK
<1>5. CASE WriteLastVoteFails(n)
  BY Zenon, <1>1, <1>5, NoPollType DEF WriteLastVoteFails, LoseElection, TypeOK
<1>6. CASE OnVoteRequestComplete(n)
  BY <1>1, <1>6, NoPollType DEF OnVoteRequestComplete, LoseElection, TypeOK
<1> QED
  BY Zenon, <1>2, <1>3, <1>4, <1>5, <1>6 DEF Candidate

\* A step of a voter keeps the types.
LEMMA VoterType ==
    ASSUME IInv, NEW c \in calls, Voter(c)
    PROVE  TypeOK'
<1> USE DEF IInv
<1>1. /\ TypeOK /\ c \in Call /\ c.to \in Node /\ c.from \in Node
      /\ c.term \in Terms /\ term[c.to] \in Terms /\ c.replyTerm \in Terms
      /\ 0 \in Terms
  BY ElectionAssumption DEF TypeOK, Call, Terms
<1>2. CASE ReceiveRequest(c)
  <2>1. calls' \subseteq Call
    BY Zenon, <1>1, <1>2, CallType DEF ReceiveRequest, Advance, TypeOK
  <2> QED
    BY Zenon, <1>1, <1>2, <2>1, UpdateTermType DEF ReceiveRequest, TypeOK
<1>3. CASE StepDownAwaited(c)
  <2>1. calls' \subseteq Call
    BY Zenon, <1>1, <1>3, CallType DEF StepDownAwaited, Advance, TypeOK
  <2> QED
    BY Zenon, <1>1, <1>3, <2>1 DEF StepDownAwaited, TypeOK
<1>4. CASE DenyVote(c)
  BY Zenon, <1>1, <1>4, ReplyType DEF DenyVote, TypeOK
<1>5. CASE GrantDryRun(c)
  BY Zenon, <1>1, <1>5, ReplyType DEF GrantDryRun, TypeOK
<1>6. CASE GrantVote(c)
  <2>1. calls' \subseteq Call
    BY Zenon, <1>1, <1>6, CallType DEF GrantVote, Advance, TypeOK
  <2>2. ahead' \in BOOLEAN
    BY <1>6, Zenon DEF GrantVote
  <2> QED
    BY Zenon, <1>1, <1>6, <2>1, <2>2 DEF GrantVote, TypeOK
<1>7. CASE StoreVote(c)
  <2>1. Stored(c.to, c.term) \in Terms
    BY Zenon, <1>1, LargerType DEF Stored, TypeOK
  <2>2. ballots' \subseteq [voter : Node, candidate : Node, term : Terms]
    BY <1>1, <1>7 DEF StoreVote, TypeOK
  <2>3. calls' \subseteq Call
    BY Zenon, <1>1, <1>7, ReplyType DEF StoreVote, TypeOK
  <2> QED
    BY Zenon, <1>1, <1>7, <2>1, <2>2, <2>3 DEF StoreVote, TypeOK
<1>8. CASE StoreVoteFails(c)
  BY Zenon, <1>1, <1>8, ReplyType DEF StoreVoteFails, TypeOK
<1> QED
  BY Zenon, <1>2, <1>3, <1>4, <1>5, <1>6, <1>7, <1>8 DEF Voter

\* A step of a member that neither stands nor votes keeps the types.
LEMMA MemberType ==
    ASSUME IInv, NEW n \in Node, Member(n)
    PROVE  TypeOK'
<1> USE DEF IInv
<1>1. /\ TypeOK /\ diskVote[n] \in Terms /\ applied[n] \in Terms
      /\ term[n] \in Terms
  BY Zenon DEF TypeOK
<1>2. CASE LoseMajority(n)
  BY Zenon, <1>1, <1>2 DEF LoseMajority, TypeOK
<1>3. CASE StepDownFinish(n)
  BY Zenon, <1>1, <1>3 DEF StepDownFinish, TypeOK
<1>4. CASE StepDown(n)
  BY Zenon, <1>1, <1>4 DEF StepDown, TypeOK
<1>5. CASE LogTransitionToPrimary(n)
  BY Zenon, <1>1, <1>5 DEF LogTransitionToPrimary, TypeOK
<1>6. CASE Restart(n)
  <2>1. StartupTerm(n) \in Terms
    BY Zenon, <1>1, LargerType DEF StartupTerm
  <2>2. calls' \subseteq Call
    BY Zenon, <1>1, <1>6, ForgetType DEF Restart, TypeOK
  <2> QED
    BY Zenon, <1>1, <1>6, <2>1, <2>2, NoPollType DEF Restart, TypeOK
<1> QED
  BY Zenon, <1>2, <1>3, <1>4, <1>5, <1>6 DEF Member

\* The poll after a response is a poll.
LEMMA ResponseType ==
    ASSUME TypeOK, NEW n \in Node, NEW m \in Node, NEW yes \in BOOLEAN,
           NEW late \in BOOLEAN
    PROVE  /\ [poll[n] EXCEPT !.yes = IF yes THEN @ \cup {m} ELSE @,
                              !.waiting = @ \ {m},
                              !.stale = @ \/ late] \in Poll
           /\ [poll[n] EXCEPT !.waiting = @ \ {m}] \in Poll
<1>1. poll[n] \in Poll
  BY Zenon DEF TypeOK
<1>2. (poll[n].stale \/ late) \in BOOLEAN
  BY Zenon
<1> QED
  BY Zenon, <1>1, <1>2 DEF Poll

\* Every step keeps the types.
LEMMA NextType ==
    ASSUME IInv, [Next]_vars
    PROVE  TypeOK'
<1>1. ASSUME NEW n \in Node, NEW m \in Node, FailedResponse(n, m)
      PROVE  TypeOK'
  BY <1>1, ResponseType, GatherType, Zenon DEF FailedResponse, TypeOK, IInv
<1>2. ASSUME NEW n \in Node, NEW m \in Node, SetMyLastApplied(n, m)
      PROVE  TypeOK'
  BY Zenon, <1>2 DEF SetMyLastApplied, TypeOK, IInv
<1>3. ASSUME NEW n \in Node, NEW t \in Terms, HearTerm(n, t)
      PROVE  TypeOK'
  <2>1. TypeOK /\ UpdateTerm(n, t)
    BY Zenon, <1>3 DEF HearTerm, IInv
  <2> QED
    BY Zenon, <1>3, <2>1, UpdateTermType DEF HearTerm, TypeOK
<1>4. ASSUME NEW c \in calls, ProcessResponse(c)
      PROVE  TypeOK'
  <2>1. c.from \in Node /\ c.to \in Node /\ c.granted \in BOOLEAN /\ TypeOK
    BY Zenon DEF IInv, TypeOK, Call
  <2> DEFINE late == c.replyTerm > poll[c.from].asked
  <2>2. late \in BOOLEAN
    BY <2>1 DEF TypeOK, Call, Poll, Terms
  <2>3. Gather(c.from, [poll[c.from] EXCEPT
                          !.yes = IF c.granted THEN @ \cup {c.to} ELSE @,
                          !.waiting = @ \ {c.to}, !.stale = @ \/ late])
    BY <1>4, Zenon DEF ProcessResponse
  <2>4. poll' \in [Node -> Poll] /\ calls' \subseteq Call
    <3> HIDE DEF late
    <3> QED
      BY <2>1, <2>2, <2>3, ResponseType, GatherType, ZenonT(60)
  <2> QED
    BY Zenon, <1>4, <2>1, <2>4 DEF ProcessResponse, TypeOK
<1>5. ASSUME UNCHANGED vars PROVE TypeOK'
  BY Zenon, <1>5 DEF vars, TypeOK, IInv
<1> QED
  BY Zenon, <1>1, <1>2, <1>3, <1>4, <1>5, CandidateType, VoterType, MemberType
     DEF Next

-----------------------------------------------------------------------------
(* Commands. *)

\* The next value of CallOK is CallOK of the next values.
LEMMA CallOKNext ==
    ASSUME NEW c,
           c.from # c.to,
           c.stage = "store" => ~c.dryRun,
           c.stage = "replied" => c.live,
           c.stage = "replied" /\ c.granted /\ ~c.dryRun =>
             Ballot(c.to, c.from, c.term) \in ballots',
           c.live => /\ c.to \in poll'[c.from].waiting
                     /\ c.term = poll'[c.from].asked
                     /\ c.dryRun => poll'[c.from].phase = "dryRun"
                     /\ ~c.dryRun => poll'[c.from].phase = "vote"
    PROVE  CallOK(c)'
  BY Zenon DEF CallOK, Ballot

\* A command is not disturbed while the polls stay and ballots are added.
LEMMA CallKept ==
    ASSUME NEW c, CallOK(c), ballots \subseteq ballots',
           c.live => poll'[c.from] = poll[c.from]
    PROVE  CallOK(c)'
  BY Zenon, CallOKNext DEF CallOK

\* No one listens for a candidate that waits for no answer.
LEMMA NoneLive ==
    ASSUME IInv, NEW n \in Node, poll[n].waiting = {}
    PROVE  \A c \in calls : c.from = n => ~c.live
  BY Zenon DEF IInv, CallOK

\* The poll of n is replaced when no command of n is live.
LEMMA CallsOfOthers ==
    ASSUME IInv, NEW n \in Node, NEW q, poll[n].waiting = {},
           poll' = [poll EXCEPT ![n] = q], ballots \subseteq ballots',
           NEW c \in calls
    PROVE  CallOK(c)'
<1>1. CallOK(c) /\ poll \in [Node -> Poll] /\ c.from \in Node
  BY Zenon DEF IInv, TypeOK, Call
<1>2. c.live => c.from # n
  BY Zenon, NoneLive
<1>3. c.live => poll'[c.from] = poll[c.from]
  BY Zenon, <1>1, <1>2
<1> QED
  BY Zenon, <1>1, <1>3, CallKept

\* New requests of n agree with its new poll.
LEMMA CallsStart ==
    ASSUME IInv, NEW n \in Node, NEW t \in Terms, NEW dry \in BOOLEAN, NEW q,
           q.waiting = Node \ {n}, q.asked = t,
           dry => q.phase = "dryRun", ~dry => q.phase = "vote",
           poll[n].waiting = {}, poll' = [poll EXCEPT ![n] = q],
           ballots \subseteq ballots',
           calls' = calls \cup Requests(n, t, dry)
    PROVE  \A c \in calls' : CallOK(c)'
<1>1. \A c \in calls : CallOK(c)'
  BY Zenon, CallsOfOthers
<1>2. ASSUME NEW c \in Requests(n, t, dry) PROVE CallOK(c)'
  <2>1. /\ c \in Call /\ c.from = n /\ c.to # n /\ c.term = t
        /\ c.dryRun = dry /\ c.live /\ c.stage = "sent" /\ ~c.granted
    BY RequestsType DEF IInv
  <2>2. poll'[n] = q /\ c.to \in Node
    BY Zenon, <2>1 DEF IInv, TypeOK, Call
  <2> QED
    BY Zenon, <2>1, <2>2, CallOKNext
<1> QED
  BY Zenon, <1>1, <1>2

\* The commands after a step of a candidate.
LEMMA CandidateCalls ==
    ASSUME IInv, NEW n \in Node, Candidate(n)
    PROVE  \A c \in calls' : CallOK(c)'
<1>1. /\ TypeOK /\ PollOK(n) /\ term[n] \in Terms
      /\ poll[n] \in Poll
  BY Zenon DEF IInv, TypeOK
<1>2. CASE StartElection(n)
  <2> DEFINE q == [phase |-> "dryRun", term |-> term[n], asked |-> term[n],
                   yes |-> {}, waiting |-> Node \ {n}, stale |-> FALSE]
  <2>1. poll[n].waiting = {}
    BY Zenon, <1>1, <1>2 DEF StartElection, PollOK, TypeOK, Poll
  <2>2. poll' = [poll EXCEPT ![n] = q] /\ ballots' = ballots
        /\ calls' = calls \cup Requests(n, term[n], TRUE)
    BY Zenon, <1>2 DEF StartElection
  <2>3. q.waiting = Node \ {n} /\ q.asked = term[n] /\ q.phase = "dryRun"
    OBVIOUS
  <2> HIDE DEF q
  <2> QED
    BY Zenon, <1>1, <2>1, <2>2, <2>3, CallsStart
<1>3. CASE OnDryRunComplete(n)
  <2>1. poll[n].waiting = {} /\ calls' = calls /\ ballots' = ballots
        /\ \E q : poll' = [poll EXCEPT ![n] = q]
    BY Zenon, <1>3 DEF OnDryRunComplete, LoseElection
  <2> QED
    BY Zenon, <2>1, CallsOfOthers
<1>4. CASE WriteLastVoteForMyElection(n)
  <2> DEFINE q == [poll[n] EXCEPT !.phase = "vote", !.asked = term[n],
                                  !.waiting = Node \ {n}]
  <2>1. poll[n].waiting = {}
    BY Zenon, <1>1, <1>4 DEF WriteLastVoteForMyElection, PollOK
  <2>2. poll' = [poll EXCEPT ![n] = q] /\ ballots \subseteq ballots'
        /\ calls' = calls \cup Requests(n, term[n], FALSE)
    BY Zenon, <1>1, <1>4 DEF WriteLastVoteForMyElection, TypeOK
  <2>3. q.waiting = Node \ {n} /\ q.asked = term[n] /\ q.phase = "vote"
    BY Zenon, <1>1 DEF Poll
  <2> HIDE DEF q
  <2> QED
    BY Zenon, <1>1, <2>1, <2>2, <2>3, CallsStart
<1>5. CASE WriteLastVoteFails(n)
  <2>1. poll[n].waiting = {} /\ calls' = calls /\ ballots' = ballots
        /\ \E q : poll' = [poll EXCEPT ![n] = q]
    BY Zenon, <1>1, <1>5 DEF WriteLastVoteFails, LoseElection, PollOK
  <2> QED
    BY Zenon, <2>1, CallsOfOthers
<1>6. CASE OnVoteRequestComplete(n)
  <2>1. poll[n].waiting = {} /\ calls' = calls /\ ballots' = ballots
        /\ \E q : poll' = [poll EXCEPT ![n] = q]
    BY Zenon, <1>6 DEF OnVoteRequestComplete, LoseElection
  <2> QED
    BY Zenon, <2>1, CallsOfOthers
<1> QED
  BY Zenon, <1>2, <1>3, <1>4, <1>5, <1>6 DEF Candidate

\* A handler moves its command on, or answers it; the others stay as they are.
LEMMA VoterCalls ==
    ASSUME IInv, NEW c \in calls, Voter(c)
    PROVE  \A d \in calls' : CallOK(d)'
<1>1. /\ TypeOK /\ CallOK(c) /\ c \in Call /\ c.to \in Node /\ c.from \in Node
      /\ c.term \in Terms /\ term[c.to] \in Terms /\ c.replyTerm \in Terms
      /\ 0 \in Terms /\ calls \subseteq Call
  BY ElectionAssumption DEF IInv, TypeOK, Call, Terms
<1>2. poll' = poll /\ ballots \subseteq ballots'
  BY Zenon DEF Voter, ReceiveRequest, StepDownAwaited, DenyVote, GrantDryRun,
         GrantVote, StoreVote, StoreVoteFails
<1>3. \A d \in calls : CallOK(d)'
  BY Zenon, <1>2, CallKept DEF IInv
<1>4. ASSUME NEW st \in {"stepDown", "vote"},
             Advance(c, [c EXCEPT !.stage = st])
      PROVE  \A d \in calls' : CallOK(d)'
  <2> DEFINE e == [c EXCEPT !.stage = st]
  <2>1. /\ e.from = c.from /\ e.to = c.to /\ e.term = c.term
        /\ e.dryRun = c.dryRun /\ e.live = c.live /\ e.stage = st
    BY Zenon, <1>1 DEF Call
  <2>2. calls' \subseteq calls \cup {e}
    BY Zenon, <1>4 DEF Advance
  <2> HIDE DEF e
  <2>3. CallOK(e)'
    BY Zenon, <1>1, <1>2, <2>1, CallOKNext DEF CallOK
  <2> QED
    BY Zenon, <1>3, <2>2, <2>3
<1>5. ASSUME NEW yes \in BOOLEAN, NEW t \in Terms, Reply(c, yes, t),
             yes /\ ~c.dryRun => Ballot(c.to, c.from, c.term) \in ballots'
      PROVE  \A d \in calls' : CallOK(d)'
  <2>0. \A d \in calls' : \/ d \in calls
                          \/ /\ c.live
                             /\ d = [c EXCEPT !.stage = "replied",
                                       !.granted = yes, !.replyTerm = t]
    BY <1>5, Zenon DEF Reply
  <2> SUFFICES ASSUME NEW d, c.live,
                      d = [c EXCEPT !.stage = "replied", !.granted = yes,
                                    !.replyTerm = t]
               PROVE  CallOK(d)'
    BY Zenon, <1>3, <2>0
  <2>1. /\ d.from = c.from /\ d.to = c.to /\ d.term = c.term
        /\ d.dryRun = c.dryRun /\ d.live = c.live /\ d.stage = "replied"
        /\ d.granted = yes
    BY Zenon, <1>1 DEF Call
  <2> QED
    BY Zenon, <1>1, <1>2, <1>5, <2>1, CallOKNext DEF CallOK
<1>6. CASE ReceiveRequest(c)
  BY Zenon, <1>4, <1>6 DEF ReceiveRequest
<1>7. CASE StepDownAwaited(c)
  BY Zenon, <1>4, <1>7 DEF StepDownAwaited
<1>8. CASE DenyVote(c)
  BY Zenon, <1>1, <1>5, <1>8 DEF DenyVote
<1>9. CASE GrantDryRun(c)
  BY Zenon, <1>1, <1>5, <1>9 DEF GrantDryRun
<1>10. CASE GrantVote(c)
  <2>0. PICK e : e = [c EXCEPT !.stage = "store", !.replyTerm = term[c.to]]
    OBVIOUS
  <2>1. /\ e.from = c.from /\ e.to = c.to /\ e.term = c.term
        /\ e.dryRun = c.dryRun /\ e.live = c.live /\ e.stage = "store"
    BY Zenon, <1>1, <2>0 DEF Call
  <2>2. calls' \subseteq calls \cup {e} /\ ~c.dryRun
    BY Zenon, <1>10, <2>0 DEF GrantVote, Advance
  <2>3. CallOK(e)'
    BY Zenon, <1>1, <1>2, <2>1, <2>2, CallOKNext DEF CallOK
  <2> QED
    BY Zenon, <1>3, <2>2, <2>3
<1>11. CASE StoreVote(c)
  <2>1. Ballot(c.to, c.from, c.term) \in ballots'
    BY Zenon, <1>11 DEF StoreVote, Ballot
  <2> QED
    BY Zenon, <1>1, <1>5, <1>11, <2>1 DEF StoreVote
<1>12. CASE StoreVoteFails(c)
  BY Zenon, <1>1, <1>5, <1>12 DEF StoreVoteFails
<1> QED
  BY Zenon, <1>6, <1>7, <1>8, <1>9, <1>10, <1>11, <1>12 DEF Voter

\* Commands that are forgotten are no longer live, the others stay.
LEMMA ForgetCalls ==
    ASSUME IInv, NEW n \in Node, NEW S, NEW q,
           poll' = [poll EXCEPT ![n] = q], ballots' = ballots,
           poll[n].waiting \ S \subseteq q.waiting,
           poll[n].waiting \subseteq S \/
             (q.asked = poll[n].asked /\ q.phase = poll[n].phase),
           NEW c \in Forget(n, S)
    PROVE  CallOK(c)'
<1>1. calls \subseteq Call /\ poll \in [Node -> Poll]
  BY Zenon DEF IInv, TypeOK
<1>2. CASE c \in calls /\ ~(c.from = n /\ c.to \in S)
  <2>1. CallOK(c) /\ c.from \in Node
    BY Zenon, <1>1, <1>2 DEF IInv, Call
  <2>2. CASE c.from # n
    BY Zenon, <1>1, <2>1, <2>2, CallKept
  <2>3. CASE c.from = n
    BY Zenon, <1>1, <1>2, <2>1, <2>3, CallOKNext DEF CallOK
  <2> QED
    BY Zenon, <2>2, <2>3
<1>3. ASSUME NEW d \in calls, c = [d EXCEPT !.live = FALSE], ~d.dryRun,
             d.stage # "replied"
      PROVE  CallOK(c)'
  <2>1. CallOK(d) /\ d \in Call
    BY Zenon, <1>1 DEF IInv
  <2>2. /\ c.from = d.from /\ c.to = d.to /\ ~c.live /\ c.stage = d.stage
        /\ c.dryRun = d.dryRun
    BY Zenon, <1>3, <2>1 DEF Call
  <2> QED
    BY Zenon, <1>3, <2>1, <2>2, CallOKNext DEF CallOK
<1> QED
  BY <1>1, <1>2, <1>3, ForgetType

\* The commands after a response has been gathered.
LEMMA GatherCalls ==
    ASSUME IInv, NEW n \in Node, NEW p \in Poll, Gather(n, p),
           ballots' = ballots, p.asked = poll[n].asked,
           p.phase = poll[n].phase, p.waiting \subseteq poll[n].waiting
    PROVE  \A c \in calls' : CallOK(c)'
<1>1. CASE HasReceivedSufficientResponses(p)
  <2> DEFINE q == [p EXCEPT !.waiting = {}]
  <2>1. poll' = [poll EXCEPT ![n] = q] /\ calls' = Forget(n, poll[n].waiting)
    BY Zenon, <1>1 DEF Gather
  <2> HIDE DEF q
  <2> QED
    BY Zenon, <2>1, ForgetCalls
<1>2. CASE ~HasReceivedSufficientResponses(p)
  <2>1. /\ poll' = [poll EXCEPT ![n] = p]
        /\ calls' = Forget(n, poll[n].waiting \ p.waiting)
    BY Zenon, <1>2 DEF Gather
  <2> QED
    BY Zenon, <2>1, ForgetCalls
<1> QED
  BY Zenon, <1>1, <1>2

\* Every step keeps CallOK.
LEMMA NextCalls ==
    ASSUME IInv, [Next]_vars
    PROVE  \A c \in calls' : CallOK(c)'
<1>1. ASSUME poll' = poll, calls' = calls, ballots' = ballots
      PROVE  \A c \in calls' : CallOK(c)'
  BY Zenon, <1>1, CallKept DEF IInv
<1>2. ASSUME NEW n \in Node, NEW m \in Node, FailedResponse(n, m)
      PROVE  \A c \in calls' : CallOK(c)'
  <2> DEFINE p == [poll[n] EXCEPT !.waiting = @ \ {m}]
  <2>1. p \in Poll /\ poll[n] \in Poll
    BY Zenon, ResponseType DEF IInv, TypeOK
  <2>2. /\ p.asked = poll[n].asked /\ p.phase = poll[n].phase
        /\ p.waiting \subseteq poll[n].waiting
    BY Zenon, <2>1 DEF Poll
  <2>3. Gather(n, p) /\ ballots' = ballots
    BY <1>2, Zenon DEF FailedResponse
  <2> HIDE DEF p
  <2> QED
    BY Zenon, <2>1, <2>2, <2>3, GatherCalls
<1>3. ASSUME NEW c \in calls, ProcessResponse(c)
      PROVE  \A d \in calls' : CallOK(d)'
  <2>1. /\ c.from \in Node /\ c.to \in Node /\ c.granted \in BOOLEAN /\ TypeOK
        /\ (c.replyTerm > poll[c.from].asked) \in BOOLEAN
        /\ poll[c.from] \in Poll
    BY DEF IInv, TypeOK, Call, Poll, Terms
  <2> DEFINE late == c.replyTerm > poll[c.from].asked
             p == [poll[c.from] EXCEPT
                     !.yes = IF c.granted THEN @ \cup {c.to} ELSE @,
                     !.waiting = @ \ {c.to}, !.stale = @ \/ late]
  <2>2. Gather(c.from, p) /\ ballots' = ballots
    BY <1>3, Zenon DEF ProcessResponse
  <2>3. p \in Poll
    <3> HIDE DEF late
    <3> QED
      BY <2>1, ResponseType, ZenonT(60) DEF late
  <2>4. /\ p.asked = poll[c.from].asked /\ p.phase = poll[c.from].phase
        /\ p.waiting \subseteq poll[c.from].waiting
    BY Zenon, <2>1 DEF Poll
  <2> HIDE DEF p
  <2> QED
    BY Zenon, <2>1, <2>2, <2>3, <2>4, GatherCalls
<1>4. ASSUME NEW n \in Node, Restart(n)
      PROVE  \A c \in calls' : CallOK(c)'
  <2>1. /\ poll' = [poll EXCEPT ![n] = NoPoll] /\ ballots' = ballots
        /\ calls' \subseteq Forget(n, Node)
    BY Zenon, <1>4 DEF Restart
  <2>2. poll[n].waiting \subseteq Node
    BY Zenon DEF IInv, TypeOK, Poll
  <2> QED
    BY Zenon, <2>1, <2>2, ForgetCalls
<1>5. ASSUME NEW n \in Node, Member(n)
      PROVE  \A c \in calls' : CallOK(c)'
  BY Zenon, <1>1, <1>4, <1>5
     DEF Member, LoseMajority, StepDownFinish, StepDown, LogTransitionToPrimary
<1>6. ASSUME NEW n \in Node, NEW m \in Node, SetMyLastApplied(n, m)
      PROVE  \A c \in calls' : CallOK(c)'
  BY Zenon, <1>1, <1>6 DEF SetMyLastApplied
<1>7. ASSUME NEW n \in Node, NEW t \in Terms, HearTerm(n, t)
      PROVE  \A c \in calls' : CallOK(c)'
  BY Zenon, <1>1, <1>7 DEF HearTerm
<1>8. ASSUME UNCHANGED vars PROVE \A c \in calls' : CallOK(c)'
  BY Zenon, <1>1, <1>8 DEF vars
<1> QED
  BY Zenon, <1>2, <1>3, <1>5, <1>6, <1>7, <1>8, CandidateCalls, VoterCalls DEF Next

-----------------------------------------------------------------------------
(* Polls. *)

\* A poll is not disturbed while role and poll stay, the term does not fall
\* and ballots are added.
LEMMA PollKept ==
    ASSUME IInv, NEW n \in Node, poll'[n] = poll[n],
           role'[n] = "candidate" <=> role[n] = "candidate",
           term'[n] \in Terms, term[n] <= term'[n], ballots \subseteq ballots'
    PROVE  PollOK(n)'
<1>1. PollOK(n) /\ term[n] \in Nat /\ term'[n] \in Nat
      /\ poll[n].term \in Nat /\ poll[n].asked \in Nat
  BY DEF IInv, TypeOK, Poll, Terms
<1> QED
  BY <1>1 DEF PollOK, Ballot

\* A member without a poll.
LEMMA NoPollOK ==
    ASSUME NEW n \in Node, poll'[n] = NoPoll, role'[n] # "candidate"
    PROVE  PollOK(n)'
<1>1. /\ NoPoll.phase = "none" /\ NoPoll.yes = {} /\ NoPoll.waiting = {}
  BY Zenon DEF NoPoll
<1> QED
  BY Zenon, <1>1 DEF PollOK

\* The polls after a step of a candidate.
LEMMA CandidatePolls ==
    ASSUME IInv, NEW n \in Node, Candidate(n), NEW m \in Node
    PROVE  PollOK(m)'
<1>1. /\ TypeOK /\ PollOK(n) /\ term[n] \in Terms /\ poll[n] \in Poll
      /\ poll \in [Node -> Poll] /\ role \in [Node -> {"follower", "candidate", "leader"}]
      /\ term \in [Node -> Terms]
  BY Zenon DEF IInv, TypeOK
<1>2. /\ \A k \in Node : k # n => /\ poll'[k] = poll[k] /\ role'[k] = role[k]
                                  /\ term'[k] = term[k]
      /\ ballots \subseteq ballots'
  BY Zenon, <1>1 DEF Candidate, StartElection, OnDryRunComplete, LoseElection,
        WriteLastVoteForMyElection, WriteLastVoteFails, OnVoteRequestComplete
<1>3. CASE m # n
  BY <1>1, <1>2, <1>3, PollKept DEF Terms
<1> SUFFICES ASSUME m = n PROVE PollOK(n)'
  BY Zenon, <1>3
<1>4. CASE StartElection(n)
  <2>1. PICK q : q = [phase |-> "dryRun", term |-> term[n], asked |-> term[n],
                      yes |-> {}, waiting |-> Node \ {n}, stale |-> FALSE]
    OBVIOUS
  <2>2. poll'[n] = q /\ role'[n] = "candidate" /\ q.term < MaxTerm
    BY Zenon, <1>1, <1>4, <2>1 DEF StartElection
  <2>3. q.phase = "dryRun" /\ q.yes = {} /\ q.waiting = Node \ {n}
    BY Zenon, <2>1
  <2> QED
    BY Zenon, <2>2, <2>3 DEF PollOK
<1>5. CASE OnDryRunComplete(n)
  <2>1. CASE MayGoOn(n)
    <3>1. PICK q : q = [NoPoll EXCEPT !.phase = "store", !.term = term[n] + 1]
      OBVIOUS
    <3>2. /\ poll'[n] = q /\ role'[n] = role[n] /\ term'[n] = term[n] + 1
          /\ role[n] = "candidate"
      BY Zenon, <1>1, <1>5, <2>1, <3>1 DEF OnDryRunComplete, PollOK
    <3>3. /\ q.phase = "store" /\ q.yes = {} /\ q.waiting = {}
          /\ q.term = term[n] + 1 /\ term[n] + 1 <= term[n] + 1
      BY <1>1, <3>1 DEF NoPoll, Terms
    <3> QED
      BY Zenon, <3>2, <3>3 DEF PollOK
  <2>2. CASE ~MayGoOn(n)
    BY Zenon, <1>1, <1>5, <2>2, NoPollOK DEF OnDryRunComplete, LoseElection
  <2> QED
    BY Zenon, <2>1, <2>2
<1>6. CASE WriteLastVoteForMyElection(n)
  <2>1. PICK q : q = [poll[n] EXCEPT !.phase = "vote", !.asked = term[n],
                                     !.waiting = Node \ {n}]
    OBVIOUS
  <2>2. /\ poll'[n] = q /\ role'[n] = role[n] /\ term' = term
        /\ role[n] = "candidate" /\ poll[n].yes = {} /\ poll[n].term <= term[n]
        /\ Ballot(n, n, poll[n].term) \in ballots'
    BY Zenon, <1>1, <1>6, <2>1 DEF WriteLastVoteForMyElection, PollOK, Ballot
  <2>3. /\ q.phase = "vote" /\ q.yes = {} /\ q.waiting = Node \ {n}
        /\ q.term = poll[n].term /\ q.asked = term[n] /\ term[n] <= term[n]
    BY <1>1, <2>1, <2>2 DEF Poll, Terms
  <2> QED
    BY Zenon, <2>2, <2>3 DEF PollOK, Ballot
<1>7. CASE WriteLastVoteFails(n)
  BY Zenon, <1>1, <1>7, NoPollOK DEF WriteLastVoteFails, LoseElection
<1>8. CASE OnVoteRequestComplete(n)
  BY Zenon, <1>1, <1>8, NoPollOK DEF OnVoteRequestComplete, LoseElection
<1> QED
  BY Zenon, <1>4, <1>5, <1>6, <1>7, <1>8 DEF Candidate

\* The poll after a response: a counted vote is a durable one.
LEMMA GatherPolls ==
    ASSUME IInv, NEW n \in Node, NEW p \in Poll, Gather(n, p),
           ballots' = ballots, role' = role, term' = term,
           p.asked = poll[n].asked, p.phase = poll[n].phase,
           p.term = poll[n].term, p.waiting \subseteq poll[n].waiting,
           p.phase \in {"none", "store"} => p.yes = {},
           p.yes \subseteq Node \ {n},
           p.phase = "vote" =>
             \A v \in p.yes : Ballot(v, n, p.asked) \in ballots,
           NEW m \in Node
    PROVE  PollOK(m)'
<1>1. TypeOK /\ PollOK(n) /\ poll \in [Node -> Poll] /\ term[m] \in Terms
  BY Zenon DEF IInv, TypeOK
<1>2. PICK q : /\ poll' = [poll EXCEPT ![n] = q]
               /\ q = p \/ q = [p EXCEPT !.waiting = {}]
  BY Zenon DEF Gather
<1>3. CASE m # n
  BY <1>1, <1>2, <1>3, PollKept DEF Terms
<1>4. CASE m = n
  <2>1. /\ q.asked = p.asked /\ q.phase = p.phase /\ q.term = p.term
        /\ q.waiting \subseteq p.waiting /\ q.yes = p.yes
    BY Zenon, <1>2 DEF Poll
  <2>2. poll'[n] = q
    BY Zenon, <1>1, <1>2
  <2> QED
    BY Zenon, <1>1, <1>4, <2>1, <2>2 DEF PollOK, Ballot
<1> QED
  BY Zenon, <1>3, <1>4

\* Every step keeps PollOK.
LEMMA NextPolls ==
    ASSUME IInv, [Next]_vars, NEW k \in Node
    PROVE  PollOK(k)'
<1>1. /\ TypeOK /\ TypeOK' /\ term[k] \in Terms /\ term'[k] \in Terms
      /\ role \in [Node -> {"follower", "candidate", "leader"}]
      /\ poll \in [Node -> Poll]
  BY Zenon, NextType DEF IInv, TypeOK
<1>2. ASSUME poll' = poll, term' = term, ballots \subseteq ballots',
             role'[k] = "candidate" <=> role[k] = "candidate"
      PROVE  PollOK(k)'
  BY <1>1, <1>2, PollKept DEF Terms
<1>3. ASSUME NEW n \in Node, NEW m \in Node, FailedResponse(n, m)
      PROVE  PollOK(k)'
  <2> DEFINE p == [poll[n] EXCEPT !.waiting = @ \ {m}]
  <2>1. p \in Poll /\ poll[n] \in Poll /\ PollOK(n)
    BY Zenon, ResponseType DEF IInv, TypeOK
  <2>2. /\ p.asked = poll[n].asked /\ p.phase = poll[n].phase
        /\ p.term = poll[n].term /\ p.yes = poll[n].yes
        /\ p.waiting \subseteq poll[n].waiting
    BY Zenon, <2>1 DEF Poll
  <2>3. Gather(n, p) /\ ballots' = ballots /\ role' = role /\ term' = term
    BY <1>3, Zenon DEF FailedResponse
  <2> HIDE DEF p
  <2>4. /\ p.phase \in {"none", "store"} => p.yes = {}
        /\ p.yes \subseteq Node \ {n}
        /\ p.phase = "vote" => \A v \in p.yes : Ballot(v, n, p.asked) \in ballots
    BY Zenon, <2>1, <2>2 DEF PollOK
  <2> QED
    BY Zenon, <2>1, <2>2, <2>3, <2>4, GatherPolls
<1>4. ASSUME NEW c \in calls, ProcessResponse(c)
      PROVE  PollOK(k)'
  <2>1. /\ c.from \in Node /\ c.to \in Node /\ c.granted \in BOOLEAN /\ TypeOK
        /\ (c.replyTerm > poll[c.from].asked) \in BOOLEAN
        /\ poll[c.from] \in Poll /\ CallOK(c) /\ PollOK(c.from)
        /\ c.dryRun \in BOOLEAN
    BY DEF IInv, TypeOK, Call, Poll, Terms
  <2> DEFINE late == c.replyTerm > poll[c.from].asked
             p == [poll[c.from] EXCEPT
                     !.yes = IF c.granted THEN @ \cup {c.to} ELSE @,
                     !.waiting = @ \ {c.to}, !.stale = @ \/ late]
  <2>2. /\ Gather(c.from, p) /\ ballots' = ballots /\ role' = role
        /\ term' = term /\ c.stage = "replied"
    BY <1>4, Zenon DEF ProcessResponse
  <2>3. p \in Poll
    <3> HIDE DEF late
    <3> QED
      BY <2>1, ResponseType, ZenonT(60) DEF late
  <2>4. /\ p.asked = poll[c.from].asked /\ p.phase = poll[c.from].phase
        /\ p.term = poll[c.from].term
        /\ p.waiting \subseteq poll[c.from].waiting
        /\ p.yes = IF c.granted THEN poll[c.from].yes \cup {c.to}
                                ELSE poll[c.from].yes
    BY Zenon, <2>1 DEF Poll
  <2> HIDE DEF p
  <2>5. /\ p.phase \notin {"none", "store"}
        /\ p.yes \subseteq Node \ {c.from}
        /\ p.phase = "vote" =>
             \A v \in p.yes : Ballot(v, c.from, p.asked) \in ballots
    BY Zenon, <2>1, <2>2, <2>4 DEF PollOK, CallOK
  <2> QED
    BY Zenon, <2>1, <2>2, <2>3, <2>4, <2>5, GatherPolls
<1>5. ASSUME NEW n \in Node, Restart(n) PROVE PollOK(k)'
  <2>1. CASE k = n
    BY Zenon, <1>1, <1>5, <2>1, NoPollOK DEF Restart
  <2>2. CASE k # n
    BY <1>1, <1>5, <2>2, PollKept DEF Restart, TypeOK, Terms
  <2> QED
    BY Zenon, <2>1, <2>2
<1>6. ASSUME NEW n \in Node, StepDownFinish(n) PROVE PollOK(k)'
  <2>1. role[n] # "candidate" \/ ~stepDownPending[n]
    BY Zenon DEF IInv, PendingAtLeader
  <2> QED
    BY Zenon, <1>1, <1>2, <1>6, <2>1 DEF StepDownFinish
<1>7. ASSUME NEW n \in Node, Member(n) PROVE PollOK(k)'
  BY Zenon, <1>1, <1>2, <1>5, <1>6, <1>7
     DEF Member, LoseMajority, StepDown, LogTransitionToPrimary
<1>8. ASSUME NEW n \in Node, NEW m \in Node, SetMyLastApplied(n, m)
      PROVE  PollOK(k)'
  BY Zenon, <1>1, <1>2, <1>8 DEF SetMyLastApplied
<1>9. ASSUME NEW n \in Node, NEW t \in Terms, HearTerm(n, t)
      PROVE  PollOK(k)'
  BY Zenon, <1>1, <1>9, PollKept, UpdateTermType DEF HearTerm
<1>10. ASSUME NEW c \in calls, Voter(c) PROVE PollOK(k)'
  <2>1. CASE ReceiveRequest(c)
    <3>1. c.to \in Node /\ c.term \in Terms
      BY Zenon DEF IInv, TypeOK, Call
    <3> QED
      BY Zenon, <1>1, <2>1, <3>1, PollKept, UpdateTermType DEF ReceiveRequest
  <2>2. CASE ~ReceiveRequest(c)
    <3>1. poll' = poll /\ term' = term /\ ballots \subseteq ballots' /\ role' = role
      BY Zenon, <1>10, <2>2 DEF Voter, StepDownAwaited, DenyVote, GrantDryRun,
         GrantVote, StoreVote, StoreVoteFails
    <3> QED
      BY Zenon, <1>2, <3>1
  <2> QED
    BY Zenon, <2>1, <2>2
<1>11. ASSUME UNCHANGED vars PROVE PollOK(k)'
  BY Zenon, <1>1, <1>2, <1>11 DEF vars
<1> QED
  BY Zenon, <1>3, <1>4, <1>7, <1>8, <1>9, <1>10, <1>11, CandidatePolls DEF Next

-----------------------------------------------------------------------------
(* Step downs and primaries. *)

\* What a step of a candidate changes: itself, and it is not primary before.
LEMMA CandidateFrame ==
    ASSUME IInv, NEW n \in Node, Candidate(n)
    PROVE  /\ stepDownPending' = stepDownPending
           /\ \A k \in Node : k # n => /\ role'[k] = role[k]
                                       /\ term'[k] = term[k]
           /\ role[n] # "leader"
           /\ \/ OnVoteRequestComplete(n) /\ MayGoOn(n)
              \/ elected' = elected /\ role'[n] # "leader"
<1>1. /\ PollOK(n) /\ poll[n] \in Poll
      /\ role \in [Node -> {"follower", "candidate", "leader"}]
      /\ term \in [Node -> Terms]
  BY Zenon DEF IInv, TypeOK
<1>2. role[n] = "follower" \/ poll[n].phase # "none"
  BY Zenon DEF Candidate, StartElection, OnDryRunComplete,
     WriteLastVoteForMyElection, WriteLastVoteFails, OnVoteRequestComplete
<1>3. role[n] # "leader"
  BY Zenon, <1>1, <1>2 DEF PollOK
<1> QED
  BY Zenon, <1>1, <1>3 DEF Candidate, StartElection, OnDryRunComplete, LoseElection,
     WriteLastVoteForMyElection, WriteLastVoteFails, OnVoteRequestComplete

\* Every step leaves pending step downs only at primaries.
LEMMA NextPending ==
    ASSUME IInv, [Next]_vars
    PROVE  PendingAtLeader'
<1>1. /\ TypeOK /\ PendingAtLeader /\ \A n \in Node : PollOK(n)
      /\ role \in [Node -> {"follower", "candidate", "leader"}]
      /\ stepDownPending \in [Node -> BOOLEAN]
  BY Zenon DEF IInv, TypeOK
<1>2. ASSUME role' = role, stepDownPending' = stepDownPending
      PROVE  PendingAtLeader'
  BY Zenon, <1>1, <1>2 DEF PendingAtLeader
<1>3. ASSUME role' = role, NEW n \in Node, NEW t \in Terms, UpdateTerm(n, t)
      PROVE  PendingAtLeader'
  BY Zenon, <1>1, <1>3 DEF PendingAtLeader, UpdateTerm, MustStepDown
<1>4. ASSUME NEW n \in Node, Candidate(n) PROVE PendingAtLeader'
  <2>1. /\ stepDownPending' = stepDownPending
        /\ \A k \in Node : k # n => role'[k] = role[k]
        /\ role[n] # "leader"
    BY Zenon, <1>4, CandidateFrame
  <2> QED
    BY Zenon, <1>1, <2>1 DEF PendingAtLeader
<1>5. ASSUME NEW n \in Node, Member(n) PROVE PendingAtLeader'
  BY Zenon, <1>1, <1>5 DEF PendingAtLeader, Member, LoseMajority, StepDownFinish,
       StepDown, LogTransitionToPrimary, Restart
<1>6. ASSUME NEW c \in calls, Voter(c) PROVE PendingAtLeader'
  <2>1. CASE ReceiveRequest(c)
    <3>1. c.to \in Node /\ c.term \in Terms
      BY Zenon DEF IInv, TypeOK, Call
    <3> QED
      BY Zenon, <1>3, <2>1, <3>1 DEF ReceiveRequest
  <2>2. CASE ~ReceiveRequest(c)
    BY Zenon, <1>2, <1>6, <2>2 DEF Voter, StepDownAwaited, DenyVote, GrantDryRun,
         GrantVote, StoreVote, StoreVoteFails
  <2> QED
    BY Zenon, <2>1, <2>2
<1> QED
  BY Zenon, <1>2, <1>3, <1>4, <1>5, <1>6
     DEF Next, FailedResponse, SetMyLastApplied, HearTerm, ProcessResponse, vars

\* A primary keeps the term it was elected in.
LEMMA NextLeader ==
    ASSUME IInv, [Next]_vars
    PROVE  LeaderInItsTerm'
<1>1. /\ TypeOK /\ LeaderInItsTerm /\ \A n \in Node : PollOK(n)
      /\ role \in [Node -> {"follower", "candidate", "leader"}]
      /\ term \in [Node -> Terms]
  BY Zenon DEF IInv, TypeOK
<1>2. ASSUME elected \subseteq elected',
             \A n \in Node : role'[n] = "leader" =>
               role[n] = "leader" /\ term'[n] = term[n]
      PROVE  LeaderInItsTerm'
  BY Zenon, <1>1, <1>2 DEF LeaderInItsTerm
<1>3. ASSUME NEW n \in Node, Candidate(n) PROVE LeaderInItsTerm'
  <2>1. CASE OnVoteRequestComplete(n) /\ MayGoOn(n)
    <3>1. /\ term' = term /\ elected \subseteq elected'
          /\ [node |-> n, term |-> term[n]] \in elected'
          /\ \A k \in Node : k # n => role'[k] = role[k]
      BY Zenon, <1>1, <2>1 DEF OnVoteRequestComplete
    <3> QED
      BY Zenon, <1>1, <3>1 DEF LeaderInItsTerm
  <2>2. CASE ~(OnVoteRequestComplete(n) /\ MayGoOn(n))
    <3>1. /\ elected' = elected /\ role'[n] # "leader"
          /\ \A k \in Node : k # n => role'[k] = role[k] /\ term'[k] = term[k]
      BY Zenon, <1>3, <2>2, CandidateFrame
    <3> QED
      BY Zenon, <1>2, <3>1
  <2> QED
    BY Zenon, <2>1, <2>2
<1>4. ASSUME NEW n \in Node, Member(n) PROVE LeaderInItsTerm'
  BY Zenon, <1>1, <1>2, <1>4 DEF Member, LoseMajority, StepDownFinish,
       StepDown, LogTransitionToPrimary, Restart
<1>5. ASSUME role' = role, elected' = elected, NEW n \in Node,
             NEW t \in Terms, UpdateTerm(n, t)
      PROVE  LeaderInItsTerm'
  BY Zenon, <1>1, <1>2, <1>5, UpdateTermType
<1>6. ASSUME NEW c \in calls, Voter(c) PROVE LeaderInItsTerm'
  <2>1. CASE ReceiveRequest(c)
    <3>1. c.to \in Node /\ c.term \in Terms
      BY Zenon DEF IInv, TypeOK, Call
    <3> QED
      BY Zenon, <1>5, <2>1, <3>1 DEF ReceiveRequest
  <2>2. CASE ~ReceiveRequest(c)
    BY Zenon, <1>2, <1>6, <2>2 DEF Voter, StepDownAwaited, DenyVote, GrantDryRun,
         GrantVote, StoreVote, StoreVoteFails
  <2> QED
    BY Zenon, <2>1, <2>2
<1>7. ASSUME NEW n \in Node, NEW t \in Terms, HearTerm(n, t)
      PROVE  LeaderInItsTerm'
  BY Zenon, <1>5, <1>7 DEF HearTerm
<1> QED
  BY Zenon, <1>2, <1>3, <1>4, <1>6, <1>7
     DEF Next, FailedResponse, SetMyLastApplied, ProcessResponse, vars

-----------------------------------------------------------------------------
(* Elections and votes. *)

\* Ballots are never taken back, and only a winner enters elected.
LEMMA BallotsGrow ==
    ASSUME IInv, [Next]_vars
    PROVE  /\ ballots \subseteq ballots'
           /\ \/ elected' = elected
              \/ \E n \in Node : OnVoteRequestComplete(n) /\ MayGoOn(n)
  BY ZenonT(60) DEF Next, vars, Candidate, StartElection, OnDryRunComplete, LoseElection,
    WriteLastVoteForMyElection, WriteLastVoteFails, OnVoteRequestComplete,
    Member, LoseMajority, StepDownFinish, StepDown, LogTransitionToPrimary,
    Restart, FailedResponse, SetMyLastApplied, HearTerm, ProcessResponse, Voter,
    ReceiveRequest, StepDownAwaited, DenyVote, GrantDryRun, GrantVote,
    StoreVote, StoreVoteFails

\* Every step keeps the majority behind each election won.
LEMMA NextElected ==
    ASSUME IInv, [Next]_vars
    PROVE  ElectedByMajority'
<1>1. ballots \subseteq ballots'
  BY Zenon, BallotsGrow
<1>2. ASSUME NEW n \in Node, NEW t \in Terms,
             Cardinality(Electorate(n, t)) >= Majority
      PROVE  Cardinality(Electorate(n, t)') >= Majority
  <2>1. /\ Electorate(n, t) \subseteq Electorate(n, t)'
        /\ Electorate(n, t) \subseteq Node /\ Electorate(n, t)' \subseteq Node
    BY Zenon, <1>1 DEF Electorate
  <2> QED
    BY Zenon, <1>2, <2>1, MajorityGrows
<1>3. ASSUME NEW e \in elected
      PROVE  Cardinality(Electorate(e.node, e.term)') >= Majority
  BY Zenon, <1>2 DEF IInv, TypeOK, ElectedByMajority
<1>4. CASE elected' = elected
  BY Zenon, <1>3, <1>4 DEF ElectedByMajority, Electorate, Majority
<1>5. ASSUME NEW n \in Node, OnVoteRequestComplete(n), MayGoOn(n)
      PROVE  ElectedByMajority'
  <2>1. /\ elected' = elected \cup {[node |-> n, term |-> term[n]]}
        /\ ballots' = ballots
    BY Zenon, <1>5 DEF OnVoteRequestComplete
  <2>2. /\ PollOK(n) /\ poll[n] \in Poll /\ poll[n].yes \subseteq Node \ {n}
        /\ term[n] \in Terms
    BY Zenon DEF IInv, TypeOK, PollOK
  <2>3. /\ poll[n].term = term[n] /\ poll[n].asked = term[n]
        /\ Cardinality(poll[n].yes) + 1 >= Majority
    BY <1>5, <2>2
       DEF OnVoteRequestComplete, MayGoOn, SuccessfullyElected, Votes, PollOK,
           Poll, Terms
  <2>4. poll[n].yes \cup {n} \subseteq Electorate(n, term[n])
    BY Zenon, <1>5, <2>2, <2>3 DEF OnVoteRequestComplete, PollOK, Ballot, Electorate
  <2>5. Cardinality(poll[n].yes \cup {n}) >= Majority
    BY Zenon, <2>2, <2>3, VotesCounted
  <2>6. Cardinality(Electorate(n, term[n])) >= Majority
    BY Zenon, <2>2, <2>4, <2>5, MajorityGrows DEF Electorate
  <2>7. PICK t \in Terms : t = term[n]
    BY Zenon, <2>2
  <2>8. Electorate(n, t)' = Electorate(n, t)
    BY Zenon, <2>1 DEF Electorate
  <2>9. \A e \in elected' : e \in elected \/ (e.node = n /\ e.term = t)
    BY <2>1, <2>7
  <2>10. ASSUME NEW e \in elected'
         PROVE  Cardinality(Electorate(e.node, e.term)') >= Majority
    BY Zenon, <1>3, <2>6, <2>7, <2>8, <2>9
  <2> QED
    BY Zenon, <2>10 DEF ElectedByMajority, Electorate, Majority
<1> QED
  BY Zenon, <1>4, <1>5, BallotsGrow

\* Every step keeps the votes that may have been counted on disk.
LEMMA NextDurable ==
    ASSUME IInv, [Next]_vars
    PROVE  VotesDurable'
<1>1. /\ TypeOK /\ VotesDurable /\ diskVote \in [Node -> Terms]
      /\ ballots \subseteq [voter : Node, candidate : Node, term : Terms]
  BY Zenon DEF IInv, TypeOK
<1>2. ASSUME NEW v \in Node, NEW k \in Node, NEW t \in Terms,
             diskVote' = [diskVote EXCEPT ![v] = Stored(v, t)],
             ballots' = ballots \cup {[voter |-> v, candidate |-> k, term |-> t]}
      PROVE  VotesDurable'
  <2>1. /\ Stored(v, t) \in Terms /\ diskVote[v] <= Stored(v, t)
        /\ t <= Stored(v, t)
    BY Zenon, <1>1, LargerType DEF Stored, Terms
  <2>2. ASSUME NEW b \in ballots' PROVE b.term <= diskVote'[b.voter]
    <3>1. CASE b \in ballots
      BY <1>1, <1>2, <2>1, <3>1 DEF VotesDurable, Terms
    <3>2. CASE b = [voter |-> v, candidate |-> k, term |-> t]
      BY Zenon, <1>1, <1>2, <2>1, <3>2
    <3> QED
      BY Zenon, <1>2, <3>1, <3>2
  <2> QED
    BY Zenon, <2>2 DEF VotesDurable
<1>3. CASE diskVote' = diskVote /\ ballots' = ballots
  BY Zenon, <1>1, <1>3 DEF VotesDurable
<1>4. ASSUME NEW n \in Node, WriteLastVoteForMyElection(n) PROVE VotesDurable'
  BY Zenon, <1>2, <1>4 DEF WriteLastVoteForMyElection, IInv, TypeOK, Poll
<1>5. ASSUME NEW c \in calls, StoreVote(c) PROVE VotesDurable'
  BY Zenon, <1>2, <1>5 DEF StoreVote, IInv, TypeOK, Call
<1> QED
  BY ZenonT(60), <1>3, <1>4, <1>5 DEF Next, vars, Candidate, StartElection,
    OnDryRunComplete, LoseElection, WriteLastVoteFails, OnVoteRequestComplete,
    Member, LoseMajority, StepDownFinish, StepDown, LogTransitionToPrimary,
    Restart, FailedResponse, SetMyLastApplied, HearTerm, ProcessResponse, Voter,
    ReceiveRequest, StepDownAwaited, DenyVote, GrantDryRun, GrantVote,
    StoreVoteFails

\* Votes are not disturbed when nothing is cast and no term falls.
LEMMA VotesFrame ==
    ASSUME IInv, VotesOK, TypeOK', lastVote' = lastVote, diskVote' = diskVote,
           \A v \in Node : term[v] <= term'[v],
           \A v, n \in Node, t \in Terms : Cast(v, n, t)' => Cast(v, n, t)
    PROVE  VotesOK'
<1>1. \A v \in Node : /\ lastVote[v] \in Nat /\ term[v] \in Nat
                      /\ term'[v] \in Nat
  BY DEF IInv, TypeOK, Terms
<1>2. \A v \in Node : diskVote'[v] <= lastVote'[v] /\ lastVote'[v] <= term'[v]
  BY <1>1 DEF VotesOK
<1>3. \A v, n \in Node, t \in Terms : Cast(v, n, t)' => t <= lastVote'[v]
  BY Zenon DEF VotesOK
<1>4. \A v, n, m \in Node, t \in Terms :
        Cast(v, n, t)' /\ Cast(v, m, t)' => n = m
  BY Zenon DEF VotesOK
<1> QED
  BY Zenon, <1>2, <1>3, <1>4 DEF VotesOK

\* The step in which v votes for n in term t.
NewVote(v, n, t) ==
    /\ lastVote[v] < t
    /\ t <= term'[v]
    /\ lastVote' = [lastVote EXCEPT ![v] = t]
    /\ diskVote' = diskVote
    /\ \A u \in Node : term[u] <= term'[u]
    /\ \A u, m \in Node, s \in Terms :
         Cast(u, m, s)' => Cast(u, m, s) \/ (u = v /\ m = n /\ s = t)

\* Votes after v has cast one, in a term after that of its last vote.
LEMMA VotesCast ==
    ASSUME IInv, VotesOK, TypeOK', NEW v \in Node, NEW n \in Node,
           NEW t \in Terms, NewVote(v, n, t)
    PROVE  VotesOK'
<1> USE DEF NewVote
<1>1. /\ \A u \in Node : /\ lastVote[u] \in Nat /\ term[u] \in Nat
                         /\ term'[u] \in Nat /\ diskVote[u] \in Nat
      /\ lastVote \in [Node -> Terms] /\ Terms \subseteq Nat
  BY DEF IInv, TypeOK, Terms
<1>2. \A u \in Node : diskVote'[u] <= lastVote'[u] /\ lastVote'[u] <= term'[u]
  BY <1>1 DEF VotesOK
<1>3. \A u, m \in Node, s \in Terms : Cast(u, m, s)' => s <= lastVote'[u]
  BY <1>1 DEF VotesOK
<1>4. \A u, m, k \in Node, s \in Terms :
        Cast(u, m, s)' /\ Cast(u, k, s)' => m = k
  BY <1>1 DEF VotesOK
<1> QED
  BY Zenon, <1>2, <1>3, <1>4 DEF VotesOK

\* Votes after one that was cast has been stored.
LEMMA VotesStored ==
    ASSUME IInv, VotesOK, TypeOK', NEW v \in Node, NEW n \in Node,
           NEW t \in Terms, Cast(v, n, t),
           diskVote' = [diskVote EXCEPT ![v] = Stored(v, t)],
           lastVote' = lastVote, term' = term,
           \A u, m \in Node, s \in Terms : Cast(u, m, s)' => Cast(u, m, s)
    PROVE  VotesOK'
<1>1. /\ \A u \in Node : lastVote[u] \in Nat /\ diskVote[u] \in Nat
      /\ diskVote \in [Node -> Terms] /\ Terms \subseteq Nat
  BY DEF IInv, TypeOK, Terms
<1>2. t <= lastVote[v] /\ diskVote[v] <= lastVote[v]
  BY Zenon DEF VotesOK
<1>3. Stored(v, t) <= lastVote[v]
  BY Zenon, <1>1, <1>2 DEF Stored, Larger
<1>4. \A u \in Node : diskVote'[u] <= lastVote'[u] /\ lastVote'[u] <= term'[u]
  BY Zenon, <1>1, <1>3 DEF VotesOK
<1>5. \A u, m \in Node, s \in Terms : Cast(u, m, s)' => s <= lastVote'[u]
  BY Zenon DEF VotesOK
<1>6. \A u, m, k \in Node, s \in Terms :
        Cast(u, m, s)' /\ Cast(u, k, s)' => m = k
  BY DEF VotesOK
<1> QED
  BY Zenon, <1>4, <1>5, <1>6 DEF VotesOK

\* No vote is cast by a step that adds no ballot, no stored command and no poll
\* in its storing phase.
LEMMA NoneCast ==
    ASSUME ballots' = ballots,
           \A c \in calls' : c.stage = "store" =>
             \E d \in calls : /\ d.stage = "store" /\ d.to = c.to
                              /\ d.from = c.from /\ d.term = c.term,
           \A n \in Node : poll'[n].phase = "store" =>
             poll[n].phase = "store" /\ poll'[n].term = poll[n].term
    PROVE  \A v, n \in Node, t \in Terms : Cast(v, n, t)' => Cast(v, n, t)
  BY DEF Cast, Ballot

\* Forgetting commands casts no vote.
LEMMA ForgetCasts ==
    ASSUME IInv, NEW n \in Node, NEW S, NEW c \in Forget(n, S),
           c.stage = "store"
    PROVE  \E d \in calls : /\ d.stage = "store" /\ d.to = c.to
                            /\ d.from = c.from /\ d.term = c.term
<1>1. calls \subseteq Call
  BY Zenon DEF IInv, TypeOK
<1>2. ASSUME NEW d \in calls, c = [d EXCEPT !.live = FALSE]
      PROVE  /\ d.stage = c.stage /\ d.to = c.to
             /\ d.from = c.from /\ d.term = c.term
  BY Zenon, <1>1, <1>2 DEF Call
<1> QED
  BY <1>1, <1>2, ForgetType

\* The votes after a step of a candidate.
LEMMA CandidateVotes ==
    ASSUME IInv, VotesOK, TypeOK', NEW n \in Node, Candidate(n)
    PROVE  VotesOK'
<1>1. /\ TypeOK /\ term[n] \in Terms /\ poll[n] \in Poll
      /\ poll \in [Node -> Poll] /\ term \in [Node -> Terms]
      /\ \A k \in Node : term[k] \in Nat /\ lastVote[k] \in Nat
  BY DEF IInv, TypeOK, Terms
<1>2. ASSUME ballots' = ballots, lastVote' = lastVote, diskVote' = diskVote,
             term' = term, calls' = calls, NEW q,
             poll' = [poll EXCEPT ![n] = q], q.phase # "store"
      PROVE  VotesOK'
  <2>1. \A v, m \in Node, t \in Terms : Cast(v, m, t)' => Cast(v, m, t)
    <3>1. \A m \in Node : poll'[m].phase = "store" => poll'[m] = poll[m]
      BY Zenon, <1>1, <1>2
    <3> QED
      BY Zenon, <1>2, <3>1, NoneCast
  <2> QED
    BY <1>1, <1>2, <2>1, VotesFrame
<1>3. NoPoll.phase = "none"
  BY Zenon DEF NoPoll
<1>4. CASE StartElection(n)
  <2>1. \A c \in calls' : c.stage = "store" => c \in calls
    BY Zenon, <1>1, <1>4, RequestsType DEF StartElection
  <2>2. \A m \in Node : poll'[m].phase = "store" => poll'[m] = poll[m]
    BY Zenon, <1>1, <1>4 DEF StartElection
  <2>3. \A v, m \in Node, t \in Terms : Cast(v, m, t)' => Cast(v, m, t)
    BY Zenon, <1>4, <2>1, <2>2, NoneCast DEF StartElection
  <2> QED
    BY <1>1, <1>4, <2>3, VotesFrame DEF StartElection
<1>5. CASE OnDryRunComplete(n) /\ MayGoOn(n)
  <2>1. PICK t \in Terms : t = term[n] + 1
    BY Zenon, <1>1, <1>5 DEF OnDryRunComplete, TypeOK
  <2>2. PICK q : q = [NoPoll EXCEPT !.phase = "store", !.term = term[n] + 1]
    OBVIOUS
  <2>3. q.term = t /\ poll' = [poll EXCEPT ![n] = q] /\ ballots' = ballots
        /\ calls' = calls /\ lastVote' = [lastVote EXCEPT ![n] = t]
        /\ diskVote' = diskVote /\ term' = [term EXCEPT ![n] = t]
    BY Zenon, <1>1, <1>5, <2>1, <2>2 DEF OnDryRunComplete, NoPoll
  <2>4. \A u, m \in Node, s \in Terms :
          Cast(u, m, s)' => Cast(u, m, s) \/ (u = n /\ m = n /\ s = t)
    BY ZenonT(60), <1>1, <2>3 DEF Cast, Ballot
  <2>5. lastVote[n] < t /\ t <= term'[n] /\ \A u \in Node : term[u] <= term'[u]
    BY <1>1, <2>1, <2>3 DEF VotesOK
  <2> QED
    <3>1. NewVote(n, n, t)
      BY <2>3, <2>4, <2>5, Zenon DEF NewVote
    <3> QED
      BY Zenon, <3>1, VotesCast
<1>6. CASE OnDryRunComplete(n) /\ ~MayGoOn(n)
  BY Zenon, <1>2, <1>3, <1>6 DEF OnDryRunComplete, LoseElection
<1>7. CASE WriteLastVoteForMyElection(n)
  <2>1. PICK t \in Terms : t = poll[n].term
    BY Zenon, <1>1 DEF Poll
  <2>2. Cast(n, n, t)
    BY Zenon, <1>7, <2>1 DEF WriteLastVoteForMyElection, Cast
  <2>3. \A c \in calls' : c.stage = "store" => c \in calls
    BY Zenon, <1>1, <1>7, RequestsType DEF WriteLastVoteForMyElection
  <2>4. \A m \in Node : poll'[m].phase = "store" => poll'[m] = poll[m]
    BY Zenon, <1>1, <1>7 DEF WriteLastVoteForMyElection, Poll
  <2>5. ballots' = ballots \cup {Ballot(n, n, t)}
    BY Zenon, <1>7, <2>1 DEF WriteLastVoteForMyElection, Ballot
  <2>6. ASSUME NEW u \in Node, NEW m \in Node, NEW s \in Terms,
               Ballot(u, m, s) \in ballots'
        PROVE  Cast(u, m, s)
    <3>1. Ballot(u, m, s) \in ballots \/ (u = n /\ m = n /\ s = t)
      BY Zenon, <2>5, <2>6 DEF Ballot
    <3> QED
      BY Zenon, <2>2, <3>1 DEF Cast
  <2>7. \A u, m \in Node, s \in Terms : Cast(u, m, s)' => Cast(u, m, s)
    BY <2>3, <2>4, <2>6 DEF Cast, Ballot
  <2> QED
    BY Zenon, <1>7, <2>1, <2>2, <2>7, VotesStored DEF WriteLastVoteForMyElection
<1>8. CASE WriteLastVoteFails(n)
  BY Zenon, <1>2, <1>3, <1>8 DEF WriteLastVoteFails, LoseElection
<1>9. CASE OnVoteRequestComplete(n)
  BY Zenon, <1>2, <1>3, <1>9 DEF OnVoteRequestComplete, LoseElection
<1> QED
  BY Zenon, <1>4, <1>5, <1>6, <1>7, <1>8, <1>9 DEF Candidate

\* The votes after a step of a voter.
LEMMA VoterVotes ==
    ASSUME IInv, VotesOK, TypeOK', ~ahead', NEW c \in calls, Voter(c)
    PROVE  VotesOK'
<1>1. /\ TypeOK /\ CallOK(c) /\ c \in Call /\ c.to \in Node /\ c.from \in Node
      /\ c.term \in Terms /\ term[c.to] \in Terms /\ c.replyTerm \in Terms
      /\ 0 \in Terms /\ calls \subseteq Call
      /\ \A k \in Node : term[k] \in Nat /\ lastVote[k] \in Nat
      /\ Terms \subseteq Nat
  BY ElectionAssumption DEF IInv, TypeOK, Call, Terms
<1>2. poll' = poll
  BY Zenon DEF Voter, ReceiveRequest, StepDownAwaited, DenyVote, GrantDryRun,
         GrantVote, StoreVote, StoreVoteFails
<1>3. ASSUME ballots' = ballots, lastVote' = lastVote, diskVote' = diskVote,
             \A k \in Node : term[k] <= term'[k],
             \A d \in calls' : d.stage = "store" => d \in calls
      PROVE  VotesOK'
  <2>1. \A v, m \in Node, t \in Terms : Cast(v, m, t)' => Cast(v, m, t)
    BY Zenon, <1>2, <1>3, NoneCast
  <2> QED
    BY Zenon, <1>3, <2>1, VotesFrame
<1>4. ASSUME NEW st \in {"stepDown", "vote"}, Advance(c, [c EXCEPT !.stage = st])
      PROVE  \A d \in calls' : d.stage = "store" => d \in calls
  <2>1. [c EXCEPT !.stage = st].stage = st
    BY Zenon, <1>1 DEF Call
  <2> QED
    BY Zenon, <1>4, <2>1 DEF Advance
<1>5. ASSUME NEW yes \in BOOLEAN, NEW t \in Terms, Reply(c, yes, t)
      PROVE  \A d \in calls' : d.stage = "store" => d \in calls
  <2>1. PICK r : r = [c EXCEPT !.stage = "replied", !.granted = yes,
                               !.replyTerm = t]
    OBVIOUS
  <2>2. \A d \in calls' : d \in calls \/ d = r
    BY <1>5, <2>1, Zenon DEF Reply
  <2>3. r.stage = "replied"
    BY Zenon, <1>1, <2>1 DEF Call
  <2> QED
    BY Zenon, <2>2, <2>3
<1>6. CASE ReceiveRequest(c)
  <2>1. \A k \in Node : term[k] <= term'[k]
    BY Zenon, <1>1, <1>6, UpdateTermType DEF ReceiveRequest
  <2> QED
    BY Zenon, <1>3, <1>4, <1>6, <2>1 DEF ReceiveRequest
<1>7. CASE StepDownAwaited(c)
  BY SMTT(30), <1>1, <1>3, <1>4, <1>7 DEF StepDownAwaited
<1>8. CASE DenyVote(c)
  <2>1. \A d \in calls' : d.stage = "store" => d \in calls
    BY <1>1, <1>5, <1>8, Zenon DEF DenyVote
  <2> QED
    BY SMTT(30), <1>1, <1>3, <1>8, <2>1 DEF DenyVote
<1>9. CASE GrantDryRun(c)
  <2>1. \A d \in calls' : d.stage = "store" => d \in calls
    BY <1>1, <1>5, <1>9, Zenon DEF GrantDryRun
  <2> QED
    BY <1>1, <1>3, <1>9, <2>1 DEF GrantDryRun
<1>10. CASE GrantVote(c)
  <2>8. ~(c.term > term[c.to]) /\ ~c.dryRun
    BY <1>10, Zenon DEF GrantVote
  <2>9. lastVote[c.to] <= term[c.to]
    BY <1>1, Zenon DEF VotesOK
  <2>1. /\ lastVote' = [lastVote EXCEPT ![c.to] = c.term]
        /\ diskVote' = diskVote /\ term' = term /\ ballots' = ballots
        /\ c.term <= term[c.to] /\ term[c.to] <= c.term
        /\ lastVote[c.to] # c.term
    BY <1>1, <1>10, <2>8 DEF GrantVote, Refuses
  <2>2. lastVote[c.to] < c.term
    <3>1. lastVote[c.to] \in Nat /\ term[c.to] \in Nat /\ c.term \in Nat
      BY <1>1, Zenon
    <3> QED
      BY <2>1, <2>9, <3>1
  <2>3. PICK e : e = [c EXCEPT !.stage = "store", !.replyTerm = term[c.to]]
    OBVIOUS
  <2>4. e.from = c.from /\ e.to = c.to /\ e.term = c.term
    BY Zenon, <1>1, <2>3 DEF Call
  <2>5. calls' \subseteq calls \cup {e}
    BY Zenon, <1>10, <2>3 DEF GrantVote, Advance
  <2>6. \A u, m \in Node, s \in Terms :
          Cast(u, m, s)' =>
            Cast(u, m, s) \/ (u = c.to /\ m = c.from /\ s = c.term)
    BY SMTT(30), <1>2, <2>1, <2>4, <2>5 DEF Cast, Ballot
  <2>7. c.term <= term'[c.to] /\ \A u \in Node : term[u] <= term'[u]
    BY <1>1, <2>1
  <2> QED
    <3>1. NewVote(c.to, c.from, c.term)
      BY <2>1, <2>2, <2>6, <2>7, Zenon DEF NewVote
    <3> QED
      BY Zenon, <1>1, <3>1, VotesCast
<1>11. CASE StoreVote(c)
  <2>1. Cast(c.to, c.from, c.term)
    BY Zenon, <1>11 DEF StoreVote, Cast
  <2>2. ballots' = ballots \cup {Ballot(c.to, c.from, c.term)}
    BY Zenon, <1>11 DEF StoreVote, Ballot
  <2>3. \A d \in calls' : d.stage = "store" => d \in calls
    BY Zenon, <1>1, <1>5, <1>11 DEF StoreVote
  <2>4. ASSUME NEW u \in Node, NEW m \in Node, NEW s \in Terms,
               Ballot(u, m, s) \in ballots'
        PROVE  Cast(u, m, s)
    <3>1. \/ Ballot(u, m, s) \in ballots
          \/ u = c.to /\ m = c.from /\ s = c.term
      BY Zenon, <2>2, <2>4 DEF Ballot
    <3> QED
      BY Zenon, <2>1, <3>1 DEF Cast
  <2>5. \A u, m \in Node, s \in Terms : Cast(u, m, s)' => Cast(u, m, s)
    BY SMTT(30), <1>2, <2>3, <2>4 DEF Cast, Ballot
  <2> QED
    BY Zenon, <1>1, <1>11, <2>1, <2>5, VotesStored DEF StoreVote
<1>12. CASE StoreVoteFails(c)
  <2>1. \A d \in calls' : d.stage = "store" => d \in calls
    BY <1>1, <1>5, <1>12, Zenon DEF StoreVoteFails
  <2> QED
    BY SMTT(30), <1>1, <1>3, <1>12, <2>1 DEF StoreVoteFails
<1> QED
  BY ZenonT(60), <1>6, <1>7, <1>8, <1>9, <1>10, <1>11, <1>12 DEF Voter

\* The votes after a restart: what was only in memory is gone, and was not
\* answered; what was answered is on disk, and so in the startup term.
LEMMA RestartVotes ==
    ASSUME IInv, VotesOK, NEW n \in Node, Restart(n)
    PROVE  VotesOK'
<1>1. /\ TypeOK /\ VotesDurable /\ diskVote[n] \in Terms /\ applied[n] \in Terms
      /\ lastVote \in [Node -> Terms] /\ term \in [Node -> Terms]
      /\ poll \in [Node -> Poll] /\ Terms \subseteq Nat
      /\ \A k \in Node : diskVote[k] \in Nat
  BY DEF IInv, TypeOK, Terms
<1>2. /\ lastVote' = [lastVote EXCEPT ![n] = diskVote[n]]
      /\ term' = [term EXCEPT ![n] = StartupTerm(n)]
      /\ diskVote' = diskVote /\ ballots' = ballots
      /\ poll' = [poll EXCEPT ![n] = NoPoll] /\ calls' \subseteq Forget(n, Node)
      /\ \A c \in calls' : c.to = n => c.stage # "store"
  BY Zenon DEF Restart
<1>3. diskVote[n] <= StartupTerm(n)
  BY Zenon, <1>1, LargerType DEF StartupTerm
<1>4. NoPoll.phase = "none"
  BY Zenon DEF NoPoll
<1>5. \A v, m \in Node, t \in Terms : Cast(v, m, t)' => Cast(v, m, t)
  <2>1. \A m \in Node : poll'[m].phase = "store" => poll'[m] = poll[m]
    BY Zenon, <1>1, <1>2, <1>4
  <2> QED
    BY ZenonT(60), <1>2, <2>1, NoneCast, ForgetCasts
<1>6. ASSUME NEW m \in Node, NEW t \in Terms, Cast(n, m, t)'
      PROVE  t <= diskVote[n]
  <2>1. Ballot(n, m, t) \in ballots
    BY Zenon, <1>1, <1>2, <1>4, <1>6 DEF Cast, Ballot
  <2> QED
    BY Zenon, <1>1, <2>1 DEF VotesDurable, Ballot
<1>7. \A v \in Node : diskVote'[v] <= lastVote'[v] /\ lastVote'[v] <= term'[v]
  BY <1>1, <1>2, <1>3 DEF VotesOK
<1>8. ASSUME NEW v \in Node, NEW m \in Node, NEW t \in Terms, Cast(v, m, t)'
      PROVE  t <= lastVote'[v]
  <2>1. CASE v = n
    BY Zenon, <1>1, <1>2, <1>6, <1>8, <2>1
  <2>2. CASE v # n
    <3>1. t <= lastVote[v]
      BY <1>5, <1>8, Zenon DEF VotesOK
    <3> QED
      BY Zenon, <1>1, <1>2, <2>2, <3>1
  <2> QED
    BY Zenon, <2>1, <2>2
<1>9. \A v, m, k \in Node, t \in Terms :
        Cast(v, m, t)' /\ Cast(v, k, t)' => m = k
  BY Zenon, <1>5 DEF VotesOK
<1> QED
  BY Zenon, <1>7, <1>8, <1>9 DEF VotesOK

\* While no vote has been cast ahead, every step keeps the votes in order.
LEMMA NextVotes ==
    ASSUME IInv, [Next]_vars, ~ahead'
    PROVE  VotesOK'
<1>1. /\ TypeOK /\ TypeOK' /\ \A k \in Node : term[k] \in Nat
      /\ poll \in [Node -> Poll]
  BY SMTT(30), NextType DEF IInv, TypeOK, Terms
<1>2. ~ahead
  BY Zenon DEF Next, vars, Candidate, StartElection, OnDryRunComplete,
    WriteLastVoteForMyElection, WriteLastVoteFails, OnVoteRequestComplete,
    Member, LoseMajority, StepDownFinish, StepDown, LogTransitionToPrimary,
    Restart, FailedResponse, SetMyLastApplied, HearTerm, ProcessResponse, Voter,
    ReceiveRequest, StepDownAwaited, DenyVote, GrantDryRun, GrantVote,
    StoreVote, StoreVoteFails
<1>3. VotesOK
  BY Zenon, <1>2 DEF IInv
<1>4. ASSUME ballots' = ballots, lastVote' = lastVote, diskVote' = diskVote,
             calls' = calls, poll' = poll, \A k \in Node : term[k] <= term'[k]
      PROVE  VotesOK'
  <2>1. \A v, m \in Node, t \in Terms : Cast(v, m, t)' => Cast(v, m, t)
    BY Zenon, <1>4, NoneCast
  <2> QED
    BY Zenon, <1>1, <1>3, <1>4, <2>1, VotesFrame
<1>5. ASSUME NEW n \in Node, NEW p, Gather(n, p), p \in Poll,
             p.phase = "store" => poll[n].phase = "store",
             p.term = poll[n].term, ballots' = ballots, lastVote' = lastVote,
             diskVote' = diskVote, term' = term
      PROVE  VotesOK'
  <2>1. \A c \in calls' : c.stage = "store" =>
          \E d \in calls : /\ d.stage = "store" /\ d.to = c.to
                           /\ d.from = c.from /\ d.term = c.term
    BY <1>5, ForgetCasts DEF Gather
  <2>2. \A m \in Node : poll'[m].phase = "store" =>
          poll[m].phase = "store" /\ poll'[m].term = poll[m].term
    BY <1>1, <1>5 DEF Gather, Poll
  <2>3. \A v, m \in Node, t \in Terms : Cast(v, m, t)' => Cast(v, m, t)
    BY Zenon, <1>5, <2>1, <2>2, NoneCast
  <2> QED
    BY SMTT(30), <1>1, <1>3, <1>5, <2>3, VotesFrame
<1>6. ASSUME NEW n \in Node, NEW m \in Node, FailedResponse(n, m)
      PROVE  VotesOK'
  <2> DEFINE p == [poll[n] EXCEPT !.waiting = @ \ {m}]
  <2>1. p \in Poll /\ poll[n] \in Poll
    BY Zenon, ResponseType DEF IInv, TypeOK
  <2>2. p.phase = poll[n].phase /\ p.term = poll[n].term
    BY Zenon, <2>1 DEF Poll
  <2>3. Gather(n, p)
    BY <1>6, Zenon DEF FailedResponse
  <2> HIDE DEF p
  <2> QED
    BY Zenon, <1>5, <1>6, <2>1, <2>2, <2>3 DEF FailedResponse
<1>7. ASSUME NEW c \in calls, ProcessResponse(c)
      PROVE  VotesOK'
  <2>1. /\ c.from \in Node /\ c.to \in Node /\ c.granted \in BOOLEAN /\ TypeOK
        /\ (c.replyTerm > poll[c.from].asked) \in BOOLEAN
        /\ poll[c.from] \in Poll
    BY DEF IInv, TypeOK, Call, Poll, Terms
  <2> DEFINE late == c.replyTerm > poll[c.from].asked
             p == [poll[c.from] EXCEPT
                     !.yes = IF c.granted THEN @ \cup {c.to} ELSE @,
                     !.waiting = @ \ {c.to}, !.stale = @ \/ late]
  <2>2. Gather(c.from, p)
    BY <1>7, Zenon DEF ProcessResponse
  <2>3. p \in Poll
    <3> HIDE DEF late
    <3> QED
      BY <2>1, ResponseType, ZenonT(60) DEF late
  <2>4. p.phase = poll[c.from].phase /\ p.term = poll[c.from].term
    BY Zenon, <2>1 DEF Poll
  <2> HIDE DEF p
  <2> QED
    BY ZenonT(60), <1>5, <1>7, <2>1, <2>2, <2>3, <2>4 DEF ProcessResponse
<1>8. ASSUME NEW n \in Node, Member(n) PROVE VotesOK'
  <2>1. CASE Restart(n)
    BY Zenon, <1>3, <2>1, RestartVotes
  <2>2. CASE ~Restart(n)
    BY SMTT(30), <1>1, <1>4, <1>8, <2>2
       DEF Member, LoseMajority, StepDownFinish, StepDown, LogTransitionToPrimary
  <2> QED
    BY Zenon, <2>1, <2>2
<1>9. ASSUME NEW n \in Node, NEW m \in Node, SetMyLastApplied(n, m)
      PROVE  VotesOK'
  BY <1>1, <1>4, <1>9 DEF SetMyLastApplied
<1>10. ASSUME NEW n \in Node, NEW t \in Terms, HearTerm(n, t)
       PROVE  VotesOK'
  BY Zenon, <1>1, <1>4, <1>10, UpdateTermType DEF HearTerm
<1>11. ASSUME UNCHANGED vars PROVE VotesOK'
  BY <1>1, <1>4, <1>11 DEF vars
<1> QED
  BY ZenonT(60), <1>1, <1>3, <1>6, <1>7, <1>8, <1>9, <1>10, <1>11, CandidateVotes,
     VoterVotes DEF Next

-----------------------------------------------------------------------------
(* The theorems. *)

\* The initial states satisfy the invariant.
LEMMA InitInvariant == Init => IInv
<1> SUFFICES ASSUME Init PROVE IInv
  OBVIOUS
<1>1. TypeOK
  <2>1. 0 \in Terms
    BY ElectionAssumption DEF Terms
  <2> QED
    BY <2>1, NoPollType, Zenon DEF Init, TypeOK
<1>2. \A n \in Node : PollOK(n)
  BY Zenon DEF Init, PollOK, NoPoll
<1>3. VotesOK
  <2>1. \A v, n \in Node, t \in Terms : ~Cast(v, n, t)
    BY Zenon DEF Init, Cast, NoPoll
  <2>2. \A v \in Node : diskVote[v] <= lastVote[v] /\ lastVote[v] <= term[v]
    BY DEF Init
  <2> QED
    BY Zenon, <2>1, <2>2 DEF VotesOK
<1> QED
  BY Zenon, <1>1, <1>2, <1>3 DEF Init, IInv, VotesDurable, ElectedByMajority,
     LeaderInItsTerm, PendingAtLeader

\* Every step keeps the invariant.
LEMMA NextInvariant == IInv /\ [Next]_vars => IInv'
<1> SUFFICES ASSUME IInv, [Next]_vars PROVE IInv'
  OBVIOUS
<1>1. TypeOK' /\ VotesDurable' /\ ElectedByMajority' /\ LeaderInItsTerm'
      /\ PendingAtLeader'
  BY Zenon, NextType, NextDurable, NextElected, NextLeader, NextPending
<1>2. (\A c \in calls : CallOK(c))'
  BY Zenon, NextCalls
<1>3. (\A n \in Node : PollOK(n))'
  BY Zenon, NextPolls
<1>4. ~ahead' => VotesOK'
  BY Zenon, NextVotes
<1> QED
  BY Zenon, <1>1, <1>2, <1>3, <1>4 DEF IInv

\* While no vote has been cast ahead, two winners of a term share a voter, and
\* a voter votes for one candidate in a term.
LEMMA InvariantImplies == IInv => OnePrimaryUnlessAhead
<1> SUFFICES ASSUME IInv, ~ahead, NEW e \in elected, NEW f \in elected,
                    e.term = f.term
             PROVE  e.node = f.node
  BY Zenon DEF OnePrimaryUnlessAhead, OnePrimaryPerTerm
<1>1. e.node \in Node /\ f.node \in Node /\ e.term \in Terms
  BY Zenon DEF IInv, TypeOK
<1>2. PICK v \in Node : /\ v \in Electorate(e.node, e.term)
                        /\ v \in Electorate(f.node, f.term)
  BY Zenon, MajoritiesMeet DEF IInv, ElectedByMajority, Electorate
<1>3. Cast(v, e.node, e.term) /\ Cast(v, f.node, e.term)
  BY Zenon, <1>2 DEF Electorate, Cast, Ballot
<1> QED
  BY <1>1, <1>3, Zenon DEF IInv, VotesOK

\* The inductive invariant holds in every reachable state.
LEMMA Invariance == Spec => []IInv
  BY InitInvariant, NextInvariant, PTL DEF Spec

\* In every reachable state of a set of any size, with any number of elections
\* and restarts: a term has at most one primary as long as no member has voted
\* in a term it had not adopted.
THEOREM OnePrimary == Spec => []OnePrimaryUnlessAhead
  BY Invariance, InvariantImplies, PTL

\* Whoever was elected has the durable votes of a majority in that term
\* (processReplSetRequestVotes stores the LastVote before it answers).
THEOREM ElectionsDurable == Spec => []ElectedByMajority
<1>1. IInv => ElectedByMajority
  BY Zenon DEF IInv
<1> QED
  BY <1>1, Invariance, PTL

\* A vote that may have been counted is not forgotten by a restart.
THEOREM VotesOutliveRestarts == Spec => []VotesDurable
<1>1. IInv => VotesDurable
  BY Zenon DEF IInv
<1> QED
  BY <1>1, Invariance, PTL

\* A primary is in the term it was elected in.
THEOREM PrimaryInItsTerm == Spec => []LeaderInItsTerm
<1>1. IInv => LeaderInItsTerm
  BY Zenon DEF IInv
<1> QED
  BY <1>1, Invariance, PTL

\* Only a primary has a step down pending.
THEOREM StepDownsOfPrimaries == Spec => []PendingAtLeader
<1>1. IInv => PendingAtLeader
  BY Zenon DEF IInv
<1> QED
  BY <1>1, Invariance, PTL

\* A step lowers the term of no member, and a restart not below its votes.
TermOfVotesKept ==
    \A n \in Node : term'[n] >= term[n]
                    \/ \A b \in ballots : b.voter = n => b.term <= term'[n]

LEMMA TermsGrow ==
    ASSUME IInv, [Next]_vars
    PROVE  TermOfVotesKept
<1>1. /\ TypeOK /\ VotesDurable /\ term \in [Node -> Terms]
      /\ \A n \in Node : term[n] \in Nat /\ term[n] >= term[n] /\ term[n] + 1 >= term[n]
  BY ElectionAssumption DEF IInv, TypeOK, Terms
<1>2. ASSUME term' = term PROVE TermOfVotesKept
  BY Zenon, <1>1, <1>2 DEF TermOfVotesKept
<1>3. ASSUME NEW n \in Node, NEW t \in Terms, UpdateTerm(n, t)
      PROVE  TermOfVotesKept
  <2>1. term' \in [Node -> Terms] /\ \A m \in Node : term[m] <= term'[m]
    BY Zenon, <1>1, <1>3, UpdateTermType
  <2>2. \A m \in Node : term'[m] >= term[m]
    BY <1>1, <2>1, ElectionAssumption DEF Terms
  <2> QED BY Zenon, <2>2 DEF TermOfVotesKept
<1>4. ASSUME NEW n \in Node, Candidate(n) PROVE TermOfVotesKept
  <2>1. CASE OnDryRunComplete(n) /\ MayGoOn(n)
    <3>1. term' = [term EXCEPT ![n] = @ + 1]
      BY Zenon, <2>1 DEF OnDryRunComplete
    <3> QED BY Zenon, <1>1, <3>1 DEF TermOfVotesKept
  <2>2. CASE ~(OnDryRunComplete(n) /\ MayGoOn(n))
    BY Zenon, <1>2, <1>4, <2>2 DEF Candidate, StartElection, OnDryRunComplete,
       WriteLastVoteForMyElection, WriteLastVoteFails, OnVoteRequestComplete
  <2> QED BY Zenon, <2>1, <2>2
<1>5. ASSUME NEW n \in Node, Member(n) PROVE TermOfVotesKept
  <2>1. CASE Restart(n)
    <3>1. term' = [term EXCEPT ![n] = StartupTerm(n)]
      BY Zenon, <2>1 DEF Restart
    <3>2. term'[n] = StartupTerm(n) /\ \A k \in Node : k # n => term'[k] = term[k]
      BY Zenon, <1>1, <3>1
    <3>3. ASSUME NEW b \in ballots, b.voter = n PROVE b.term <= StartupTerm(n)
      <4>1. /\ b.term <= diskVote[n] /\ b.term \in Terms
            /\ applied[n] \in Terms /\ diskVote[n] \in Terms
        BY Zenon, <1>1, <3>3 DEF VotesDurable, TypeOK, Ballot
      <4> QED BY <4>1, ElectionAssumption DEF StartupTerm, Larger, Terms
    <3> QED BY Zenon, <1>1, <3>2, <3>3 DEF TermOfVotesKept
  <2>2. CASE ~Restart(n)
    BY Zenon, <1>2, <1>5, <2>2 DEF Member, LoseMajority, StepDownFinish, StepDown,
       LogTransitionToPrimary
  <2> QED BY Zenon, <2>1, <2>2
<1>6. ASSUME NEW c \in calls, Voter(c) PROVE TermOfVotesKept
  <2>1. CASE ReceiveRequest(c)
    <3>1. c.to \in Node /\ c.term \in Terms
      BY Zenon DEF IInv, TypeOK, Call
    <3> QED BY Zenon, <1>3, <2>1, <3>1 DEF ReceiveRequest
  <2>2. CASE ~ReceiveRequest(c)
    BY Zenon, <1>2, <1>6, <2>2 DEF Voter, StepDownAwaited, DenyVote, GrantDryRun,
       GrantVote, StoreVote, StoreVoteFails
  <2> QED BY Zenon, <2>1, <2>2
<1>7. ASSUME NEW n \in Node, NEW t \in Terms, HearTerm(n, t) PROVE TermOfVotesKept
  BY Zenon, <1>3, <1>7 DEF HearTerm
<1> QED
  BY ZenonT(60), <1>2, <1>4, <1>5, <1>6, <1>7
     DEF Next, FailedResponse, SetMyLastApplied, ProcessResponse, vars

\* The term of a member never decreases, except by a restart, and then not below
\* a term in which a vote of it may have been counted (StartupTerm).
THEOREM TermsKept == Spec => TermsNeverForgotten
<1>1. IInv /\ [Next]_vars => [TermOfVotesKept]_vars
  BY Zenon, TermsGrow
<1>2. TermsNeverForgotten <=> [][TermOfVotesKept]_vars
  BY Zenon DEF TermsNeverForgotten, TermOfVotesKept
<1> QED BY <1>1, <1>2, Invariance, PTL DEF Spec

\* Every variable keeps its type.
THEOREM TypeCorrect == Spec => []TypeOK
<1>1. IInv => TypeOK
  BY Zenon DEF IInv
<1> QED
  BY <1>1, Invariance, PTL

=============================================================================
