-------------------------- MODULE CommitPointProofs --------------------------
(***************************************************************************)
(* Proofs about CommitPoint, for any set of members, any number of terms   *)
(* and oplogs of any length: what is committed stays in the journals of a  *)
(* majority, every later primary has it, and the commit points implement   *)
(* CommittedHistory.                                                       *)
(***************************************************************************)
EXTENDS CommitPointInvariant, CommitRefinement

-----------------------------------------------------------------------------
\* An election: the voters send their positions in its term.
LEMMA WinElectionStep ==
    ASSUME IInv, TypeOK', NEW n \in Node, NEW Q \in SUBSET Node, WinElection(n, Q)
    PROVE  Step
<1>0. TypeOK
  BY Zenon DEF IInv
<1> DEFINE t == term[n] + 1
           All == Q \cup {n}
           op(v) == OpTimeAt(log[v], durable[v])
<1>1. /\ role[n] = "secondary" /\ n \notin Q
      /\ \A w \in Q : GrantsVote(w, n, t)
      /\ term' = [v \in Node |-> IF v \in All THEN t ELSE term[v]]
      /\ vote' = [v \in Node |-> IF v \in All THEN t ELSE vote[v]]
      /\ role' = [role EXCEPT ![n] = "catchup"]
      /\ UNCHANGED <<log, durable, history>>
  BY DEF WinElection
<1>2. reported' = [v \in Node |-> IF v \in All THEN Send(reported, v, op(v), t)[v]
                                  ELSE reported[v]]
  BY DEF WinElection
<1>3. /\ term[n] \in Nat /\ t \in Nat /\ n \in All
      /\ reported \in [Node -> [Terms -> OpTimes]]
  BY <1>0, Types DEF TypeOK
<1>4. /\ \A v \in All : term'[v] = t /\ vote'[v] = t
      /\ \A v \in Node : v \notin All => term'[v] = term[v] /\ vote'[v] = vote[v]
  BY Zenon, <1>1
<1>5. role'[n] = "catchup" /\ \A v \in Node : v # n => role'[v] = role[v]
  BY Zenon, <1>0, <1>1 DEF TypeOK
<1> HIDE DEF t, op, All
<1>6. ASSUME NEW v \in Node
      PROVE  Send(reported, v, op(v), t)[v] =
                [u \in Terms |-> IF u >= t /\ Less(reported[v][u], op(v))
                                 THEN op(v) ELSE reported[v][u]]
  BY Zenon, <1>3 DEF Send
<1>7. /\ \A v \in Node : v \notin All => reported'[v] = reported[v]
      /\ \A v \in Node : v \in All => Sends(v, op(v), t)
  BY Zenon, <1>2, <1>6 DEF Sends
<1>8. ASSUME NEW v \in Node, v \in All
      PROVE  StepAt(v)
  <2>1. /\ role[v] = "secondary" /\ vote[v] <= t /\ term[v] <= t
    <3>1. vote[v] <= term[n] /\ role[v] = "secondary"
      BY Zenon, <1>8, Voters DEF All
    <3>2. v # n => term[v] <= t
      BY <1>1, <1>8 DEF All, GrantsVote
    <3>3. vote[v] \in Nat
      BY Zenon, <1>0, Types
    <3> QED BY <1>3, <3>1, <3>2, <3>3 DEF t
  <2>2. /\ log[v] \in Seq(Terms) /\ durable[v] \in Nat /\ term'[v] = t /\ vote'[v] = t
    BY Zenon, <1>0, <1>4, <1>8, Types
  <2>3. VotesAt(v)
    BY <1>3, <2>1, <2>2 DEF VotesAt
  <2>4. LeadersAt(v)
    <3>1. Begins(log[v], log'[v])
      BY Zenon, <1>1, <2>2, BeginsRefl
    <3>2. v # n => role'[v] = "secondary"
      BY Zenon, <1>5, <2>1
    <3> QED BY Zenon, <3>1, <3>2 DEF LeadersAt
  <2>5. DrainedAt(v)
    BY Zenon, <1>5, <2>1 DEF DrainedAt
  <2>6. /\ log'[v] = log[v] /\ durable[v] <= durable'[v] /\ term[v] <= term'[v]
    BY <1>1, <2>1, <2>2
  <2>7. Sends(v, OpTimeAt(log'[v], durable'[v]), term'[v])
    <3>1. Sends(v, op(v), t)
      BY Zenon, <1>7, <1>8
    <3>2. op(v) = OpTimeAt(log'[v], durable'[v])
      BY Zenon, <1>1 DEF op
    <3> QED BY Zenon, <2>2, <3>1, <3>2
  <2> QED BY Zenon, <2>3, <2>4, <2>5, <2>6, <2>7, SendStep
<1>9. \A v \in Node : v \notin All => StepAt(v)
  BY Zenon, <1>1, <1>3, <1>4, <1>5, <1>7, KeptStep DEF Kept
<1>10. StepHistory
  BY Zenon, <1>1 DEF StepHistory
<1> QED BY Zenon, <1>8, <1>9, <1>10 DEF Step

\* A restart keeps the journal and the vote.
LEMMA RestartStep ==
    ASSUME IInv, TypeOK', NEW n \in Node, Restart(n)
    PROVE  Step
<1>0. TypeOK
  BY Zenon DEF IInv
<1> DEFINE s == SubSeq(log[n], 1, durable[n])
           t == IF LastOp(s)[1] > vote[n] THEN LastOp(s)[1] ELSE vote[n]
           op == OpTimeAt(s, Len(s))
<1>1. /\ log' = [log EXCEPT ![n] = s] /\ role' = [role EXCEPT ![n] = "secondary"]
      /\ term' = [term EXCEPT ![n] = t] /\ reported' = Send(reported, n, op, t)
      /\ UNCHANGED <<durable, vote, history>>
  BY Zenon DEF Restart
<1>2. /\ log[n] \in Seq(Terms) /\ Len(log[n]) \in Nat /\ Len(log[n]) <= MaxLen
      /\ durable[n] \in 0 .. Len(log[n]) /\ durable[n] \in Nat
      /\ vote[n] \in Terms /\ vote[n] \in Nat /\ Mono(log[n])
      /\ log \in [Node -> Seq(Terms)]
  BY Zenon, <1>0, Types DEF IInv, Shape, TypeOK
<1>3. /\ s \in Seq(Terms) /\ Len(s) = durable[n] /\ Begins(s, log[n])
      /\ \A k \in 1 .. durable[n] : s[k] = log[n][k]
  BY Zenon, <1>2, Beginning
<1> HIDE DEF s
<1>4. Mono(s) /\ Len(s) <= MaxLen /\ Len(s) \in 0 .. Len(s)
  BY <1>2, <1>3, BeginsMono, CommitPointAssumption
<1>5. /\ LastOp(s)[1] \in Nat /\ (LastOp(s)[1] # 0 => LastOp(s)[1] \in Terms)
      /\ \A i \in 1 .. Len(s) : s[i] <= LastOp(s)[1]
  <2>1. /\ LastOp(s) \in OpTimes
        /\ Len(s) = 0 => LastOp(s)[1] = 0
        /\ Len(s) > 0 => LastOp(s)[1] = s[Len(s)] /\ s[Len(s)] \in Terms
        /\ \A i \in 1 .. Len(s) : s[i] <= LastOp(s)[1]
    BY Zenon, <1>3, <1>4, LastOpParts
  <2> QED BY <1>2, <1>3, <2>1, OpTimeParts
<1>6. /\ t \in Terms /\ t \in Nat /\ LastOp(s)[1] <= t /\ vote[n] <= t
  <2> DEFINE l == LastOp(s)[1]
  <2>1. l \in Nat /\ (l # 0 => l \in Terms)
    BY <1>5
  <2>2. t = IF l > vote[n] THEN l ELSE vote[n]
    OBVIOUS
  <2> HIDE DEF l, t
  <2>3. /\ t \in Terms /\ t \in Nat /\ l <= t /\ vote[n] <= t
    BY <1>2, <2>1, <2>2
  <2> QED BY <2>3 DEF l
<1>7. op \in OpTimes
  BY Zenon, <1>3, <1>4, OpTimeAtParts
<1> HIDE DEF t
<1>8. log'[n] = s /\ \A v \in Node : v # n => log'[v] = log[v]
  BY Zenon, <1>1, <1>2, <1>3
<1>9. op = OpTimeAt(log'[n], durable'[n])
  BY Zenon, <1>1, <1>3, <1>8
<1> HIDE DEF op
<1>10. /\ \A v \in Node : v # n => reported'[v] = reported[v]
       /\ Sends(n, op, t)
  <2>1. reported' = Send(reported, n, op, t) /\ t \in Nat
    BY Zenon, <1>1, <1>6
  <2> QED BY Zenon, <1>0, <1>7, <2>1, Sending
<1>11. role'[n] = "secondary" /\ \A v \in Node : v # n => role'[v] = role[v]
  BY Zenon, <1>0, <1>1 DEF TypeOK
<1>12. term'[n] = t /\ \A v \in Node : v # n => term'[v] = term[v]
  BY Zenon, <1>0, <1>1 DEF TypeOK
<1>13. StepAt(n)
  <2>1. VotesAt(n)
    BY <1>1, <1>2, <1>6, <1>12 DEF VotesAt
  <2>2. ReportsAt(n)
    <3>1. term'[n] = t /\ Sends(n, op, t)
      BY Zenon, <1>10, <1>12
    <3> QED BY Zenon, <1>9, <3>1 DEF ReportsAt
  <2>3. LogsAt(n)
    BY Zenon, <1>3, <1>8 DEF LogsAt
  <2>4. TermsAt(n)
    <3>1. \A i \in 1 .. Len(s) : s[i] \in Nat /\ s[i] <= LastOp(s)[1]
      BY Zenon, <1>3, <1>5, Entry
    <3> DEFINE l == LastOp(s)[1]
    <3>2. l \in Nat /\ l <= t /\ t \in Nat
      BY Zenon, <1>5, <1>6
    <3> HIDE DEF l
    <3>3. \A i \in 1 .. Len(s) : s[i] <= t
      BY <3>1, <3>2 DEF l
    <3> QED BY Zenon, <1>8, <1>12, <3>3 DEF TermsAt
  <2>5. LeadersAt(n) /\ DrainedAt(n)
    BY <1>11 DEF LeadersAt, DrainedAt
  <2>6. JournalsAt(n)
    <3>1. durable[n] <= durable'[n] /\ \A k \in 1 .. durable[n] : log'[n][k] = log[n][k]
      BY <1>1, <1>2, <1>3, <1>8
    <3> QED BY Zenon, <3>1, JournalKept
  <2> QED BY Zenon, <2>1, <2>2, <2>3, <2>4, <2>5, <2>6 DEF StepAt
<1>14. \A v \in Node : v # n => StepAt(v)
  BY Zenon, <1>1, <1>8, <1>10, <1>11, <1>12, KeptStep DEF Kept
<1>15. StepHistory
  BY Zenon, <1>1 DEF StepHistory
<1> QED BY Zenon, <1>13, <1>14, <1>15 DEF Step

\* The set begins with one operation that all members have.
LEMMA InitInvariant ==
    ASSUME Counting, Init
    PROVE  IInv
<1>0. PICK p \in Node : role = [n \in Node |-> IF n = p THEN "primary" ELSE "secondary"]
  BY DEF Init
<1>1. /\ \A n \in Node : /\ log[n] = <<1>> /\ durable[n] = 1 /\ ~pending[n] /\ term[n] = 1
                         /\ vote[n] = 1 /\ commit[n] = <<1, 1>>
                         /\ \A t \in Terms : reported[n][t] = <<1, 1>>
      /\ \A n \in Node : role[n] = IF n = p THEN "primary" ELSE "secondary"
      /\ history = <<1>>
  BY <1>0 DEF Init
<1>2. 1 \in Terms /\ 1 \in Places /\ <<1>> \in Seq(Terms) /\ Len(<<1>>) = 1 /\ <<1>>[1] = 1
  BY CommitPointAssumption DEF Terms, Places
<1>3. \A t \in Terms : \A i \in Places : t \in Nat /\ i \in Nat /\ 0 < t /\ 0 < i
  BY Zenon, PlaceOpTime
<1>4. Maj(Node)
  BY AllAreMajority
<1>5. TypeOK
  <2>1. /\ log \in [Node -> Seq(Terms)] /\ term \in [Node -> Terms] /\ vote \in [Node -> Terms]
        /\ pending \in [Node -> BOOLEAN] /\ role \in [Node -> Roles] /\ history \in Seq(Terms)
    BY Zenon, <1>0, <1>2 DEF Init, Roles
  <2>2. <<1, 1>> \in OpTimes /\ 1 \in 0 .. MaxLen /\ 0 \in 0 .. MaxIncidents
    BY CommitPointAssumption DEF OpTimes
  <2>3. /\ commit \in [Node -> OpTimes] /\ reported \in [Node -> [Terms -> OpTimes]]
        /\ durable \in [Node -> 0 .. MaxLen] /\ incidents \in 0 .. MaxIncidents
        /\ strayed \in SUBSET Astray
    BY <2>2 DEF Init
  <2>a. 1 <= Len(<<1>>) /\ Len(<<1>>) <= MaxLen
    BY <1>2, CommitPointAssumption
  <2>4. \A n \in Node : durable[n] <= Len(log[n]) /\ Len(log[n]) <= MaxLen
    BY Zenon, <1>1, <2>a
  <2>5. \A n \in Node : pending[n] => role[n] # "secondary"
    BY Zenon, <1>1
  <2> QED BY Zenon, <2>1, <2>3, <2>4, <2>5 DEF TypeOK
<1>6. Mono(<<1>>) /\ Agree(<<1>>, <<1>>)
  BY DEF Mono, Agree
<1>7. Shape /\ Terming
  BY <1>1, <1>6 DEF Shape, Terming
<1>8. Voting
  <2>1. {v \in Node : vote[v] >= 1} = Node
    BY <1>1
  <2>2. Passed(1)
    BY Zenon, <1>4, <2>1 DEF Passed
  <2> QED BY <1>1, <2>2 DEF Voting
<1>9. Leading
  <2>1. \A n \in Node : Leader(n) => n = p /\ role[n] = "primary"
    BY <1>1 DEF Leader
  <2> QED BY <1>1, <2>1 DEF Leading
<1>10. Drained
  BY <1>1 DEF Drained
<1>11. Reporting
  <2>1. \A n \in Node : \A t \in Terms : reported[n][t][1] <= t
    BY <1>1, <1>3, <1>2
  <2>2. \A n \in Node : AtLeast(reported[n][term[n]], Position(n))
    BY <1>1, <1>2 DEF AtLeast, Less, Position, OpTimeAt
  <2>3. ASSUME NEW n \in Node, NEW t \in Terms, NEW i \in Places, n \in Reporters(t, i)
        PROVE  Has(log[n], durable[n], t, i)
    <3>1. AtLeast(<<1, 1>>, <<t, i>>)
      BY Zenon, <1>1, <2>3 DEF Reporters
    <3>2. t = 1 /\ i = 1
      BY <1>3, <3>1 DEF AtLeast, Less
    <3> QED BY <1>1, <3>2 DEF Has
  <2> QED BY Zenon, <2>1, <2>2, <2>3 DEF Reporting
<1>12. Surviving
  BY <1>1, <1>3 DEF Surviving
<1>13. Recorded
  <2>1. LastTerm = 1 /\ Len(history) = 1
    BY Zenon, <1>1 DEF LastTerm
  <2>2. Reporters(1, 1) = Node
    BY <1>1, <1>2 DEF Reporters, AtLeast, Less
  <2>3. Maj(Reporters(LastTerm, Len(history)))
    BY Zenon, <1>4, <2>1, <2>2
  <2> QED BY Zenon, <1>1, <1>2, <1>6, <2>1, <2>3 DEF Recorded
<1> QED BY Zenon, <1>5, <1>7, <1>8, <1>9, <1>10, <1>11, <1>12, <1>13 DEF IInv

\* Every step is of that kind, until a member rolls back to a source behind it or a
\* primary catches up with a later term; so it preserves the invariant.
LEMMA EveryStep ==
    ASSUME Counting, Straight', IInv, [Next]_vars
    PROVE  Step
<1>0. TypeOK' /\ "lagging" \notin strayed' /\ "late" \notin strayed'
  BY ZenonT(60), TypeStep DEF IInv, Straight
<1>1. CASE UNCHANGED vars
  <2>1. \A v \in Node : StepAt(v)
    BY Zenon, <1>1, KeptStep DEF vars, Kept
  <2>2. StepHistory
    BY <1>1 DEF vars, StepHistory
  <2> QED BY Zenon, <1>0, <2>1, <2>2 DEF Step
<1>2. ASSUME NEW n \in Node,
             \/ Write(n) \/ Journal(n) \/ UpdatePosition(n)
             \/ StepDownStart(n) \/ StepDownFinish(n) \/ StepDown(n)
             \/ LogTransitionToPrimary(n) \/ DrainComplete(n) \/ Restart(n)
      PROVE  Step
  BY Zenon, <1>0, <1>2, WriteStep, JournalStep, UpdatePositionStep, StepDownStartStep,
     StepDownStep, DrainCompleteStep, RestartStep
<1>3. ASSUME NEW n \in Node, NEW m \in Node,
             HearTerm(n, m) \/ Sync(n, m) \/ Rollback(n, m)
      PROVE  Step
  BY Zenon, <1>0, <1>3, HearTermStep, SyncStep, RollbackStep
<1>4. ASSUME NEW n \in Node, NEW Q \in SUBSET Node, WinElection(n, Q)
      PROVE  Step
  BY Zenon, <1>0, <1>4, WinElectionStep
<1> QED BY Zenon, <1>1, <1>2, <1>3, <1>4 DEF Next

\* Every such step keeps the invariant.
LEMMA InvariantStep ==
    ASSUME Counting, Straight', IInv, [Next]_vars
    PROVE  IInv'
  BY Zenon, EveryStep, NextInvariant DEF Step

\* strayed only grows.
LEMMA StrayedGrows ==
    ASSUME [Next]_vars
    PROVE  strayed \subseteq strayed'
  BY ZenonT(60) DEF Next, vars, Write, Journal, UpdatePosition, StepDownStart,
     StepDownFinish, StepDown, LogTransitionToPrimary, DrainComplete, Restart,
     HearTerm, Sync, Rollback, WinElection

\* A primary of the last committed term, or of a later one, has the history.
LEMMA LeaderHolds ==
    ASSUME Counting, IInv, NEW n \in Node, Leader(n), term[n] >= LastTerm
    PROVE  Begins(history, log[n])
<1> DEFINE L == Len(history)
<1>1. /\ history \in Seq(Terms) /\ L \in Nat /\ L \in Places /\ L \in 1 .. Len(history)
      /\ Agree(history, log[n]) /\ Maj(Reporters(LastTerm, L))
  BY DEF IInv, TypeOK, Recorded, Places
<1>2. LastTerm \in Terms /\ LastTerm \in Nat /\ history[L] = LastTerm
  BY Zenon, <1>1, Entry DEF LastTerm
<1>3. log[n] \in Seq(Terms) /\ Len(log[n]) \in Nat /\ term[n] \in Nat
  BY Zenon, Types DEF IInv
<1>4. \E k \in 1 .. Len(log[n]) : L <= k /\ log[n][k] = LastTerm
  <2>1. CASE term[n] = LastTerm
    <3>1. PICK v \in Node : Begins(history, log[v])
      BY Zenon, HistoryHolder
    <3>2. log[v] \in Seq(Terms)
      BY Types DEF IInv
    <3>3. L \in 1 .. Len(log[v]) /\ log[v][L] = LastTerm
      BY <1>1, <1>2, <3>1, <3>2 DEF Begins
    <3>4. L <= Len(log[n]) /\ log[n][L] = LastTerm
      BY Zenon, <2>1, <3>3 DEF IInv, Leading
    <3> QED BY <1>1, <1>3, <3>4
  <2>2. CASE term[n] > LastTerm
    <3>1. MayCommit(LastTerm, L)
      <4> DEFINE T == {v \in Node : vote[v] <= LastTerm} \cup Reporters(LastTerm, L)
      <4>1. /\ Reporters(LastTerm, L) \in SUBSET Node /\ T \in SUBSET Node
            /\ Reporters(LastTerm, L) \subseteq T
        BY DEF Reporters
      <4> HIDE DEF T
      <4>2. Maj(T)
        BY ZenonT(60), <1>1, <4>1, MajorityGrows
      <4> QED BY Zenon, <4>2 DEF MayCommit, T
    <3>2. Has(log[n], Len(log[n]), LastTerm, L)
      BY Zenon, <1>1, <1>2, <2>2, <3>1 DEF IInv, Surviving
    <3> QED BY Zenon, <3>2 DEF Has
  <2> QED BY <1>2, <1>3, <2>1, <2>2
<1>5. PICK k \in 1 .. Len(log[n]) : L <= k /\ log[n][k] = LastTerm
  BY <1>4
<1>6. \A x \in 1 .. L : history[x] = log[n][x]
  BY Zenon, <1>1, <1>2, <1>5 DEF Agree
<1> QED BY <1>1, <1>3, <1>5, <1>6 DEF Begins

-----------------------------------------------------------------------------
(***************************************************************************)
(* The commit points implement CommittedHistory                            *)
(***************************************************************************)

\* What a majority has reported, it may have reported.
LEMMA ReportedMay ==
    ASSUME Counting, NEW t, NEW i, Maj(Reporters(t, i))
    PROVE  MayCommit(t, i)
<1> DEFINE T == {v \in Node : vote[v] <= t} \cup Reporters(t, i)
<1>1. Reporters(t, i) \in SUBSET Node /\ T \in SUBSET Node /\ Reporters(t, i) \subseteq T
  BY DEF Reporters
<1> HIDE DEF T
<1>2. Maj(T)
  BY Zenon, <1>1, MajorityGrows
<1> QED BY <1>2 DEF MayCommit, T

\* An oplog that reaches a commit point has the history up to it.
LEMMA HistoryUpTo ==
    ASSUME Counting, IInv, NEW m \in Node, NEW c \in OpTimes, Known(c), c # Null,
           AtLeast(LastOp(log[m]), c)
    PROVE  /\ c[1] \in Terms /\ c[2] \in Places /\ c[2] <= Len(history)
           /\ history[c[2]] = c[1] /\ c[2] <= Len(log[m])
           /\ \A x \in 1 .. c[2] : log[m][x] = history[x]
<1> DEFINE t == c[1]
           i == c[2]
<1>1. /\ t \in Terms /\ t \in Nat /\ i \in Places /\ i \in Nat /\ 0 < i
  BY OpTimeParts, PlaceOpTime
<1>2. /\ i \in 1 .. Len(history) /\ history[i] = t /\ Maj(Reporters(t, i))
  BY Zenon DEF Known, InLog
<1>3. /\ log[m] \in Seq(Terms) /\ Len(log[m]) \in Nat /\ Len(log[m]) <= MaxLen
      /\ Mono(log[m]) /\ Agree(history, log[m]) /\ history \in Seq(Terms)
  BY Zenon, Types DEF IInv, Shape, Recorded, TypeOK
<1> DEFINE b == Len(log[m])
<1>4. b # 0 /\ b \in 1 .. Len(log[m]) /\ log[m][b] \in Nat
      /\ (log[m][b] > t \/ (log[m][b] = t /\ i <= b))
  <2>1. b # 0
    BY <1>1 DEF LastOp, OpTimeAt, Null, AtLeast, Less
  <2>2. b \in 1 .. Len(log[m]) /\ log[m][b] \in Nat
    BY <1>3, <2>1, Entry
  <2>3. LastOp(log[m]) = <<log[m][b], b>>
    BY Zenon, <2>1 DEF LastOp, OpTimeAt
  <2> QED BY <1>1, <1>3, <2>1, <2>2, <2>3 DEF AtLeast, Less
<1> HIDE DEF t, i
<1>5. \E k \in 1 .. Len(log[m]) : i <= k /\ log[m][k] = t
  <2>1. CASE log[m][b] > t
    <3>1. MayCommit(t, i)
      BY Zenon, <1>2, ReportedMay
    <3>2. \E k \in 1 .. Len(log[m]) : log[m][k] > t
      BY Zenon, <1>4, <2>1
    <3>3. Has(log[m], Len(log[m]), t, i)
      BY Zenon, <1>1, <3>1, <3>2 DEF IInv, Surviving
    <3> QED BY Zenon, <3>3 DEF Has
  <2>2. CASE log[m][b] = t /\ i <= b
    BY Zenon, <1>4, <2>2
  <2> QED BY Zenon, <1>4, <2>1, <2>2
<1>6. PICK k \in 1 .. Len(log[m]) : i <= k /\ log[m][k] = t
  BY <1>5
<1>7. \A x \in 1 .. i : history[x] = log[m][x]
  BY Zenon, <1>2, <1>3, <1>6 DEF Agree
<1>8. i <= Len(log[m]) /\ i <= Len(history)
  BY <1>1, <1>2, <1>3, <1>6
<1> QED BY Zenon, <1>1, <1>2, <1>7, <1>8 DEF t, i

\* What a commit point covers of the history is up to its place.
LEMMA CoveredWithin ==
    ASSUME IInv, NEW c \in OpTimes, Known(c), NEW x \in 1 .. Len(history),
           AtLeast(c, <<history[x], x>>)
    PROVE  c # Null /\ x \in 1 .. c[2] /\ c[2] <= Len(history)
<1>1. history \in Seq(Terms) /\ Len(history) \in Nat /\ Mono(history)
  BY DEF IInv, TypeOK, Recorded
<1>2. history[x] \in Nat /\ 1 <= history[x]
  BY Zenon, <1>1, Entry
<1>3. c[1] \in Nat /\ c[2] \in Nat
  BY OpTimeParts
<1>4. c # Null
  BY <1>2 DEF Null, AtLeast, Less
<1>5. c[2] \in 1 .. Len(history) /\ history[c[2]] = c[1]
  BY <1>4 DEF Known, InLog
<1>6. c[2] <= x => c[1] <= history[x]
  BY Zenon, <1>1, <1>5 DEF Mono
<1> QED BY <1>1, <1>2, <1>3, <1>4, <1>5, <1>6 DEF AtLeast, Less

\* What a commit point covers of an oplog that reaches it is in the history.
LEMMA CoveredReached ==
    ASSUME Counting, IInv, NEW m \in Node, NEW c \in OpTimes, Known(c),
           AtLeast(LastOp(log[m]), c), NEW x \in 1 .. Len(log[m]),
           AtLeast(c, <<log[m][x], x>>)
    PROVE  x <= Len(history) /\ log[m][x] = history[x]
<1>1. /\ log[m] \in Seq(Terms) /\ Len(log[m]) \in Nat /\ Mono(log[m])
      /\ history \in Seq(Terms) /\ Len(history) \in Nat
  BY SMTT(30), Types DEF IInv, Shape, TypeOK
<1>2. log[m][x] \in Nat /\ 1 <= log[m][x]
  BY Zenon, <1>1, Entry
<1>3. c # Null
  BY <1>2 DEF Null, AtLeast, Less
<1>4. /\ c[2] <= Len(history) /\ history[c[2]] = c[1] /\ c[2] <= Len(log[m])
      /\ \A y \in 1 .. c[2] : log[m][y] = history[y]
      /\ c[1] \in Terms /\ c[2] \in Places
  BY Zenon, <1>3, HistoryUpTo
<1>5. c[1] \in Nat /\ c[2] \in Nat /\ 0 < c[2]
  BY Zenon, <1>4, PlaceOpTime
<1>6. c[2] <= x => c[1] <= log[m][x]
  <2>1. c[2] \in 1 .. Len(log[m]) /\ c[2] \in 1 .. c[2]
    BY SMTT(30), <1>1, <1>4, <1>5
  <2>2. log[m][c[2]] = c[1]
    BY Zenon, <1>4, <2>1
  <2> QED BY Zenon, <1>1, <2>1, <2>2 DEF Mono
<1>7. x \in 1 .. c[2]
  BY Zenon, <1>1, <1>2, <1>6, CoveredBefore
<1>8. x <= Len(history)
  BY Zenon, <1>1, <1>4, <1>5, <1>7, PlacesUpTo
<1> QED BY Zenon, <1>4, <1>7, <1>8

\* Of the history and what a primary commits, one begins the other: a primary has
\* the history, or its term is so early that a later primary had what it commits.
LEMMA CommitComparable ==
    ASSUME Counting, IInv, IInv', NEW n \in Node, NEW i \in Places, CommitsAt(n, i)
    PROVE  \/ Begins(history, SubSeq(log[n], 1, i))
           \/ Begins(SubSeq(log[n], 1, i), history)
<1> DEFINE L == Len(history)
           t == term[n]
           s == SubSeq(log[n], 1, i)
<1>1. /\ log[n] \in Seq(Terms) /\ Len(log[n]) \in Nat /\ t \in Terms /\ t \in Nat
      /\ Leader(n) /\ i \in 1 .. Len(log[n]) /\ log[n][i] = t /\ log' = log
      /\ i \in 0 .. Len(log[n])
  <2>1. /\ log[n] \in Seq(Terms) /\ Len(log[n]) \in Nat /\ t \in Terms /\ t \in Nat
        /\ Leader(n) /\ i <= Len(log[n]) /\ log[n][i] = t /\ log' = log
    BY Zenon, Types DEF IInv, CommitsAt
  <2>2. i \in 1 .. Len(log[n])
    BY Zenon, <2>1, CommitPointAssumption, PlaceWithin DEF Places
  <2>3. i \in 0 .. Len(log[n])
    BY Zenon, <2>1, <2>2, Ordered, PlacesUpTo
  <2> QED BY Zenon, <2>1, <2>2, <2>3
<1>2. /\ history \in Seq(Terms) /\ L \in Nat /\ L \in 1 .. Len(history)
  BY DEF IInv, TypeOK, Recorded, Places
<1>3. LastTerm \in Nat /\ history[L] = LastTerm
  BY Zenon, <1>2, Entry DEF LastTerm
<1>4. /\ Len(s) = i /\ \A x \in 1 .. i : s[x] = log[n][x]
  BY Zenon, <1>1, Beginning
<1> HIDE DEF s
<1>5. CASE t >= LastTerm
  <2>1. Begins(history, log[n])
    BY Zenon, <1>1, <1>5, LeaderHolds
  <2> QED BY SMTT(30), <1>1, <1>2, <1>4, <2>1 DEF Begins, s
<1>6. CASE t < LastTerm
  <2>1. PICK w \in Node : Begins(history, log[w])
    BY Zenon, HistoryHolder
  <2>2. log[w] \in Seq(Terms) /\ Len(log[w]) \in Nat /\ Mono(log[w]) /\ Agree(log[n], log[w])
    BY Zenon, Types DEF IInv, Shape
  <2>3. L \in 1 .. Len(log[w]) /\ log[w][L] = LastTerm
    BY SMTT(30), <1>2, <1>3, <2>1, <2>2 DEF Begins
  <2>4. MayCommit(t, i)'
    <3> DEFINE R == {v \in Node : AtLeast(reported'[v][t], <<t, i>>)}
               T == {v \in Node : vote'[v] <= t} \cup R
    <3>1. Maj(R) /\ R \in SUBSET Node /\ T \in SUBSET Node /\ R \subseteq T
      BY DEF CommitsAt
    <3> HIDE DEF R, T
    <3>2. Maj(T)
      BY Zenon, <3>1, MajorityGrows
    <3>3. term' = term
      BY Zenon DEF CommitsAt
    <3> QED BY Zenon, <3>2, <3>3 DEF MayCommit, Reporters, Maj, T, R
  <2>5. Has(log[w], Len(log[w]), t, i)
    <3>1. Surviving'
      BY DEF IInv
    <3>2. \E k \in 1 .. Len(log'[w]) : log'[w][k] > t
      BY Zenon, <1>1, <1>3, <1>6, <2>3
    <3>3. \A a \in Terms : \A j \in Places :
             MayCommit(a, j)' /\ (\E k \in 1 .. Len(log'[w]) : log'[w][k] > a) =>
                Has(log'[w], Len(log'[w]), a, j)
      BY Zenon, <3>1 DEF Surviving
    <3>4. term' = term
      BY Zenon DEF CommitsAt
    <3>5. Has(log'[w], Len(log'[w]), t, i)
      BY Zenon, <1>1, <2>4, <3>2, <3>3, <3>4
    <3> QED BY ZenonT(60), <1>1, <3>5
  <2>6. PICK k \in 1 .. Len(log[w]) : i <= k /\ log[w][k] = t
    BY <2>5 DEF Has
  <2>7. \A x \in 1 .. i : log[n][x] = log[w][x]
    BY Zenon, <1>1, <2>2, <2>6 DEF Agree
  <2>8. i < L
    <3>1. L <= k => log[w][L] <= log[w][k]
      BY Zenon, <2>2, <2>3 DEF Mono
    <3> QED BY SMTT(30), <1>1, <1>2, <1>3, <1>6, <2>2, <2>3, <2>6, <3>1
  <2> QED BY SMTT(30), <1>1, <1>2, <1>4, <2>1, <2>7, <2>8 DEF Begins, s
<1> QED BY Zenon, <1>1, <1>3, <1>5, <1>6, Ordered

\* What a member takes to be committed only grows, or is nothing after a restart.
ViewAt(v) ==
    \/ commit'[v] = Null
    \/ \A x \in 1 .. Len(log[v]) :
          AtLeast(commit[v], <<log[v][x], x>>) =>
             /\ x <= Len(log'[v]) /\ log'[v][x] = log[v][x]
             /\ AtLeast(commit'[v], <<log[v][x], x>>)

\* The history only grows.
Grows == Begins(history, history')

\* The optime of an entry.
LEMMA EntryOpTime ==
    ASSUME NEW r \in Seq(Terms), Len(r) <= MaxLen, NEW x \in 1 .. Len(r)
    PROVE  <<r[x], x>> \in OpTimes
<1>1. r[x] \in Terms /\ x \in Places
  BY Entry, CommitPointAssumption DEF Places
<1> QED BY Zenon, <1>1, PlaceOpTime

\* An oplog that grows ends later.
LEMMA LastOpGrows ==
    ASSUME NEW r \in Seq(Terms), NEW s \in Seq(Terms), Len(s) <= MaxLen, Mono(s),
           Begins(r, s)
    PROVE  AtLeast(LastOp(s), LastOp(r))
<1>1. CASE Len(r) = 0
  <2>1. LastOp(r) = Null /\ LastOp(s) \in OpTimes
    BY Zenon, <1>1, LastOpParts DEF LastOp, OpTimeAt
  <2>2. LastOp(s)[1] \in Nat /\ LastOp(s)[2] \in Nat
    BY Zenon, <2>1, OpTimeParts
  <2> QED BY <2>1, <2>2 DEF AtLeast, Less, Null
<1>2. CASE Len(r) # 0
  <2>1. Len(r) \in 1 .. Len(s) /\ s[Len(r)] = r[Len(r)]
    BY <1>2 DEF Begins
  <2>2. LastOp(r) = <<r[Len(r)], Len(r)>>
    BY <1>2 DEF LastOp, OpTimeAt
  <2>3. AtLeast(LastOp(s), <<s[Len(r)], Len(r)>>)
    BY Zenon, <2>1, LastOpParts
  <2> QED BY Zenon, <2>1, <2>2, <2>3
<1> QED BY Zenon, <1>1, <1>2

\* A commit point stays one.
LEMMA KnownStays ==
    ASSUME Counting, IInv, Step, Grows, NEW c \in OpTimes, Known(c)
    PROVE  c = Null \/ (InLog(c, history') /\ Maj(Reporters(c[1], c[2])'))
<1>0. /\ TypeOK /\ TypeOK' /\ StepReports /\ history \in Seq(Terms) /\ history' \in Seq(Terms)
  BY DEF IInv, TypeOK, Step, StepAt, StepReports
<1> SUFFICES ASSUME c # Null PROVE InLog(c, history') /\ Maj(Reporters(c[1], c[2])')
  OBVIOUS
<1>1. InLog(c, history) /\ Maj(Reporters(c[1], c[2]))
  BY Zenon DEF Known
<1>2. InLog(c, history')
  BY <1>0, <1>1 DEF InLog, Grows, Begins
<1>3. c[1] \in Terms /\ c[2] \in Places
  BY OpTimeParts
<1>4. Reporters(c[1], c[2]) \subseteq Reporters(c[1], c[2])'
  BY Zenon, <1>0, <1>3, ReportersGrow
<1>5. Reporters(c[1], c[2]) \in SUBSET Node /\ Reporters(c[1], c[2])' \in SUBSET Node
  BY DEF Reporters
<1>6. Maj(Reporters(c[1], c[2])')
  BY Zenon, <1>1, <1>4, <1>5, MajorityGrows
<1> QED BY Zenon, <1>2, <1>6

\* A member that keeps its commit point, and of its oplog what that covers.
LEMMA KeptPoint ==
    ASSUME Counting, IInv, Commits, Step, Grows, NEW v \in Node,
           commit'[v] = commit[v],
           \A x \in 1 .. Len(log'[v]) :
              AtLeast(commit[v], <<log'[v][x], x>>) =>
                 x <= Len(log[v]) /\ log'[v][x] = log[v][x],
           role'[v] # "secondary" => AtLeast(LastOp(log'[v]), commit[v])
    PROVE  PointAt(v)'
<1>0. /\ commit[v] \in OpTimes /\ log[v] \in Seq(Terms) /\ log'[v] \in Seq(Terms)
      /\ history \in Seq(Terms) /\ history' \in Seq(Terms)
  BY Zenon, Types, TypesNext DEF IInv, TypeOK, Step
<1>1. PointAt(v)
  BY DEF Commits
<1>2. \/ commit[v] = Null
      \/ InLog(commit[v], history') /\ Maj(Reporters(commit[v][1], commit[v][2])')
  BY ZenonT(60), <1>0, <1>1, KnownStays DEF PointAt
<1>3. Known(commit[v])'
  BY Zenon, <1>2 DEF Known, Reporters, Maj
<1>4. ASSUME NEW x \in 1 .. Len(log'[v]), AtLeast(commit'[v], <<log'[v][x], x>>)
      PROVE  x <= Len(history') /\ log'[v][x] = history'[x]
  <2>1. x \in 1 .. Len(log[v]) /\ log'[v][x] = log[v][x]
    BY SMTT(30), <1>0, <1>4
  <2>2. x <= Len(history) /\ log[v][x] = history[x]
    BY Zenon, <1>1, <1>4, <2>1 DEF PointAt
  <2> QED BY SMTT(30), <1>0, <2>1, <2>2 DEF Grows, Begins
<1> QED BY Zenon, <1>3, <1>4 DEF PointAt, Leader

\* A member whose oplog only grows keeps what its commit point covers.
LEMMA KeptView ==
    ASSUME IInv, Step, NEW v \in Node, AtLeast(commit'[v], commit[v]),
           Begins(log[v], log'[v])
    PROVE  ViewAt(v)
<1>0. /\ commit[v] \in OpTimes /\ commit'[v] \in OpTimes /\ log[v] \in Seq(Terms)
      /\ log'[v] \in Seq(Terms) /\ Len(log[v]) <= MaxLen
  BY ZenonT(60), Types, TypesNext DEF IInv, Step
<1>1. ASSUME NEW x \in 1 .. Len(log[v]), AtLeast(commit[v], <<log[v][x], x>>)
      PROVE  /\ x <= Len(log'[v]) /\ log'[v][x] = log[v][x]
             /\ AtLeast(commit'[v], <<log[v][x], x>>)
  <2>1. <<log[v][x], x>> \in OpTimes
    BY ZenonT(60), <1>0, EntryOpTime
  <2>2. AtLeast(commit'[v], <<log[v][x], x>>)
    BY Zenon, <1>0, <1>1, <2>1, AtLeastTransitive
  <2> QED BY <1>0, <2>2 DEF Begins
<1> QED BY Zenon, <1>1 DEF ViewAt

\* A member that keeps its oplog and its commit point.
LEMMA CalmPoint ==
    ASSUME Counting, IInv, Commits, Step, Grows, NEW v \in Node,
           commit'[v] = commit[v], log'[v] = log[v], role'[v] # "secondary" => Leader(v)
    PROVE  PointAt(v)' /\ ViewAt(v)
<1>0. commit[v] \in OpTimes /\ log[v] \in Seq(Terms)
  BY Zenon, Types DEF IInv
<1>1. AtLeast(commit'[v], commit[v])
  <2>1. commit[v][1] \in Nat /\ commit[v][2] \in Nat
    BY Zenon, <1>0, OpTimeParts
  <2> QED BY <2>1 DEF AtLeast, Less
<1>2. ViewAt(v)
  BY Zenon, <1>0, <1>1, BeginsRefl, KeptView
<1>3. role'[v] # "secondary" => AtLeast(LastOp(log'[v]), commit[v])
  BY Zenon DEF Commits, PointAt
<1>4. \A x \in 1 .. Len(log'[v]) :
         AtLeast(commit[v], <<log'[v][x], x>>) => x <= Len(log[v]) /\ log'[v][x] = log[v][x]
  BY <1>0
<1> QED BY Zenon, <1>2, <1>3, <1>4, KeptPoint

\* A primary sets its commit point: the history grows.
LEMMA CommitPoints ==
    ASSUME Counting, IInv, IInv', Commits, Step, NEW n \in Node, CommitStep(n), log' = log,
           \A v \in Node : role'[v] # "secondary" => Leader(v)
    PROVE  Grows /\ \A v \in Node : PointAt(v)' /\ ViewAt(v)
<1>0. /\ history \in Seq(Terms) /\ commit \in [Node -> OpTimes] /\ commit' \in [Node -> OpTimes]
      /\ log[n] \in Seq(Terms) /\ Len(log[n]) <= MaxLen /\ Mono(log[n])
      /\ term[n] \in Terms /\ Len(log[n]) \in Nat
  BY Zenon, Types DEF IInv, TypeOK, Shape
<1>1. PICK c : SetCommit(n, c) /\ NewPoint(n, c)
  BY Zenon DEF CommitStep
<1>2. /\ commit' = [commit EXCEPT ![n] = c]
      /\ history' = IF c = commit[n] \/ Begins(Covered(log[n], c), history)
                    THEN history ELSE Covered(log[n], c)
  BY Zenon, <1>1 DEF SetCommit
<1>3. commit'[n] = c /\ \A v \in Node : v # n => commit'[v] = commit[v]
  BY Zenon, <1>0, <1>2
<1>4. CASE c = commit[n]
  <2>1. Grows
    BY Zenon, <1>0, <1>2, <1>4, BeginsRefl DEF Grows
  <2> QED BY Zenon, <1>3, <1>4, <2>1, CalmPoint
<1>5. ASSUME NEW i \in Places, CommitsAt(n, i), c = <<term[n], i>>, c # commit[n],
             Covered(log[n], c) = SubSeq(log[n], 1, i),
             AtLeast(c, commit[n]) \/ AtLeast(c, LastOp(log[n]))
      PROVE  Grows /\ \A v \in Node : PointAt(v)' /\ ViewAt(v)
  <2> DEFINE s == SubSeq(log[n], 1, i)
  <2>1. /\ i \in 1 .. Len(log[n]) /\ i \in 0 .. Len(log[n]) /\ log[n][i] = term[n]
        /\ term' = term /\ i \in Nat /\ term[n] \in Nat
        /\ Maj({v \in Node : AtLeast(reported'[v][term[n]], <<term[n], i>>)})
    BY SMTT(30), <1>0, <1>5, PlaceOpTime DEF CommitsAt
  <2>2. /\ s \in Seq(Terms) /\ Len(s) = i /\ \A x \in 1 .. i : s[x] = log[n][x]
    BY Zenon, <1>0, <2>1, Beginning
  <2>3. Begins(history, s) \/ Begins(s, history)
    BY Zenon, <1>5, CommitComparable
  <2>4. history' = IF Begins(s, history) THEN history ELSE s
    BY Zenon, <1>2, <1>5
  <2> HIDE DEF s
  <2>5. Grows
    BY Zenon, <1>0, <2>3, <2>4, BeginsRefl DEF Grows
  <2>6. Begins(s, history') /\ history' \in Seq(Terms)
    BY Zenon, <1>0, <2>2, <2>4, BeginsRefl
  <2>7. c \in OpTimes /\ c[1] = term[n] /\ c[2] = i
    BY Zenon, <1>0, <1>5, PlaceOpTime
  <2>8. PointAt(n)'
    <3>1. Known(commit[n])'
      <4>1. InLog(c, history')
        BY SMTT(60), <2>1, <2>2, <2>6, <2>7 DEF InLog, Begins
      <4>2. commit'[n][1] = term[n] /\ commit'[n][2] = i
        BY Zenon, <1>3, <2>7
      <4>3. Maj({v \in Node : AtLeast(reported'[v][commit'[n][1]],
                                      <<commit'[n][1], commit'[n][2]>>)})
        BY Zenon, <2>1, <4>2
      <4>4. InLog(commit'[n], history')
        BY Zenon, <1>3, <4>1
      <4> QED BY ZenonT(60), <4>3, <4>4 DEF Known, Reporters, Maj
    <3>2. ASSUME NEW x \in 1 .. Len(log'[n]), AtLeast(commit'[n], <<log'[n][x], x>>)
          PROVE  x <= Len(history') /\ log'[n][x] = history'[x]
      <4>1. x \in 1 .. Len(log[n]) /\ AtLeast(c, <<log[n][x], x>>) /\ log'[n][x] = log[n][x]
        BY Zenon, <1>3, <3>2
      <4>2. log[n][x] \in Nat /\ (i <= x => log[n][i] <= log[n][x])
        BY Zenon, <1>0, <2>1, <4>1, Entry DEF Mono
      <4>3. x \in 1 .. i
        <5>1. Len(log[n]) \in Nat /\ (c[2] <= x => c[1] <= log[n][x])
          BY Zenon, <1>0, <2>1, <2>7, <4>2
        <5> QED BY Zenon, <2>7, <4>1, <4>2, <5>1, CoveredBefore
      <4> QED BY SMTT(30), <2>2, <2>6, <4>1, <4>3 DEF Begins
    <3>3. AtLeast(LastOp(log'[n]), commit'[n])
      <4>1. AtLeast(LastOp(log[n]), <<log[n][i], i>>)
        BY ZenonT(60), <1>0, <2>1, LastOpParts
      <4> QED BY Zenon, <1>3, <1>5, <2>1, <4>1
    <3> QED BY Zenon, <3>1, <3>2, <3>3 DEF PointAt
  <2>9. ViewAt(n)
    <3>1. AtLeast(c, commit[n])
      <4>1. ASSUME AtLeast(c, LastOp(log[n])) PROVE AtLeast(c, commit[n])
        <5>1. AtLeast(LastOp(log[n]), commit[n])
          BY Zenon, <1>5 DEF Commits, PointAt, CommitsAt
        <5>2. LastOp(log[n]) \in OpTimes /\ commit[n] \in OpTimes
          BY Zenon, <1>0, LastOpParts
        <5> QED BY ZenonT(60), <2>7, <4>1, <5>1, <5>2, AtLeastTransitive
      <4> QED BY Zenon, <1>5, <4>1
    <3>2. Begins(log[n], log'[n])
      BY Zenon, <1>0, BeginsRefl
    <3> QED BY Zenon, <1>3, <3>1, <3>2, KeptView
  <2>10. \A v \in Node : v # n => PointAt(v)' /\ ViewAt(v)
    BY Zenon, <1>3, <2>5, CalmPoint
  <2> QED BY Zenon, <2>5, <2>8, <2>9, <2>10
<1> QED BY ZenonT(60), <1>1, <1>4, <1>5 DEF NewPoint

\* A write comes after the commit point of its primary.
LEMMA WritePoints ==
    ASSUME Counting, IInv, Commits, Step, NEW n \in Node, Write(n) \/ LogTransitionToPrimary(n)
    PROVE  Grows /\ \A v \in Node : PointAt(v)' /\ ViewAt(v)
<1>0. /\ history \in Seq(Terms) /\ log[n] \in Seq(Terms) /\ Len(log[n]) \in Nat
      /\ Len(log[n]) <= MaxLen /\ Mono(log[n]) /\ term[n] \in Terms /\ term[n] \in Nat
      /\ commit[n] \in OpTimes /\ log \in [Node -> Seq(Terms)]
      /\ log'[n] \in Seq(Terms) /\ Len(log'[n]) <= MaxLen
  <2>1. TypeOK /\ TypeOK' /\ Mono(log[n])
    BY Zenon DEF IInv, Shape, Step
  <2>2. history \in Seq(Terms) /\ log \in [Node -> Seq(Terms)]
    BY Zenon, <2>1 DEF TypeOK
  <2> QED BY Zenon, <2>1, <2>2, Types, TypesNext
<1>1. /\ log' = [log EXCEPT ![n] = Append(log[n], term[n])] /\ Leader(n)
      /\ \A v \in Node : v # n => role'[v] = role[v]
      /\ commit' = commit /\ history' = history
  BY ZenonT(60) DEF Write, LogTransitionToPrimary, IInv, TypeOK, Leader
<1>2. Grows
  BY Zenon, <1>0, <1>1, BeginsRefl DEF Grows
<1>3. log'[n] = Append(log[n], term[n]) /\ \A v \in Node : v # n => log'[v] = log[v]
  BY Zenon, <1>0, <1>1
<1>4. /\ Len(log'[n]) = Len(log[n]) + 1
      /\ \A k \in 1 .. Len(log[n]) : log'[n][k] = log[n][k]
      /\ log'[n][Len(log[n]) + 1] = term[n] /\ Begins(log[n], log'[n])
  BY <1>0, <1>3, Appended
<1>5. Mono(log'[n])
  <2>1. StepLogs
    BY Zenon DEF Step, StepAt, StepLogs
  <2> QED BY Zenon, <2>1, NextMono DEF Step
<1>6. AtLeast(LastOp(log[n]), commit[n])
  BY Zenon, <1>1 DEF Commits, PointAt
<1>7. AtLeast(LastOp(log'[n]), commit[n])
  <2>1. AtLeast(LastOp(log'[n]), LastOp(log[n]))
    BY Zenon, <1>0, <1>4, <1>5, LastOpGrows
  <2>2. LastOp(log'[n]) \in OpTimes /\ LastOp(log[n]) \in OpTimes
    BY Zenon, <1>0, <1>5, LastOpParts
  <2> QED BY ZenonT(60), <1>0, <1>6, <2>1, <2>2, AtLeastTransitive
<1>8. ASSUME NEW x \in 1 .. Len(log'[n]), AtLeast(commit[n], <<log'[n][x], x>>)
      PROVE  x <= Len(log[n]) /\ log'[n][x] = log[n][x]
  <2>1. ASSUME x = Len(log[n]) + 1 PROVE FALSE
    <3>1. /\ LastOp(log[n]) \in OpTimes /\ LastOp(log[n])[2] = Len(log[n])
          /\ LastOp(log[n])[1] <= term[n]
      <4>1. /\ LastOp(log[n]) \in OpTimes /\ LastOp(log[n])[2] = Len(log[n])
            /\ Len(log[n]) = 0 => LastOp(log[n])[1] = 0
            /\ Len(log[n]) > 0 => LastOp(log[n])[1] = log[n][Len(log[n])]
        BY Zenon, <1>0, LastOpParts
      <4>2. Len(log[n]) > 0 => log[n][Len(log[n])] <= term[n]
        BY SMTT(30), <1>0 DEF IInv, Terming
      <4> QED BY <1>0, <4>1, <4>2
    <3>2. AtLeast(commit[n], <<term[n], Len(log[n]) + 1>>)
      BY Zenon, <1>4, <1>8, <2>1
    <3>3. <<term[n], Len(log[n]) + 1>> \in OpTimes
      BY Zenon, <1>0, <1>4, <2>1, EntryOpTime
    <3>4. AtLeast(LastOp(log[n]), <<term[n], Len(log[n]) + 1>>)
      BY Zenon, <1>0, <1>6, <3>1, <3>2, <3>3, AtLeastTransitive
    <3> QED BY Zenon, <1>0, <3>1, <3>4, NotCovered
  <2>2. x \in 1 .. Len(log[n]) /\ x <= Len(log[n])
    BY Zenon, <1>0, <1>4, <2>1, PlaceBefore
  <2> QED BY Zenon, <1>4, <2>2
<1>9. PointAt(n)'
  BY Zenon, <1>1, <1>2, <1>7, <1>8, KeptPoint
<1>10. ViewAt(n)
  <2>1. AtLeast(commit'[n], commit[n])
    <3>1. commit[n][1] \in Nat /\ commit[n][2] \in Nat
      BY Zenon, <1>0, OpTimeParts
    <3> QED BY <1>1, <3>1 DEF AtLeast, Less
  <2> QED BY Zenon, <1>4, <2>1, KeptView
<1>11. \A v \in Node : v # n => PointAt(v)' /\ ViewAt(v)
  BY Zenon, <1>1, <1>2, <1>3, CalmPoint DEF Leader
<1> QED BY Zenon, <1>2, <1>9, <1>10, <1>11

\* A restart begins with no commit point.
LEMMA RestartPoints ==
    ASSUME Counting, IInv, Commits, Step, NEW n \in Node, Restart(n)
    PROVE  Grows /\ \A v \in Node : PointAt(v)' /\ ViewAt(v)
<1>0. /\ history \in Seq(Terms) /\ log \in [Node -> Seq(Terms)]
      /\ commit \in [Node -> OpTimes] /\ role \in [Node -> Roles]
      /\ log'[n] \in Seq(Terms)
  BY Zenon, TypesNext DEF IInv, TypeOK, Step
<1>1. /\ history' = history /\ commit'[n] = Null /\ role'[n] = "secondary"
      /\ \A v \in Node : v # n => commit'[v] = commit[v] /\ log'[v] = log[v]
                                  /\ role'[v] = role[v]
  BY Zenon, <1>0 DEF Restart
<1>2. Grows
  BY Zenon, <1>0, <1>1, BeginsRefl DEF Grows
<1>3. PointAt(n)'
  <2>1. \A x \in 1 .. Len(log'[n]) : ~AtLeast(commit'[n], <<log'[n][x], x>>)
    <3> SUFFICES ASSUME NEW x \in 1 .. Len(log'[n])
                 PROVE  ~AtLeast(commit'[n], <<log'[n][x], x>>)
      BY Zenon
    <3>1. log'[n][x] \in Nat /\ 1 <= log'[n][x]
      BY Zenon, <1>0, Entry
    <3> QED BY <1>1, <3>1 DEF AtLeast, Less, Null
  <2> QED BY Zenon, <1>1, <2>1 DEF PointAt, Known, Leader
<1>4. ViewAt(n)
  BY Zenon, <1>1 DEF ViewAt
<1>5. \A v \in Node : v # n => PointAt(v)' /\ ViewAt(v)
  BY Zenon, <1>1, <1>2, CalmPoint DEF Leader
<1> QED BY Zenon, <1>2, <1>3, <1>4, <1>5

\* A batch from the sync source: if the member moves and the source does not know
\* its commit point, the member's oplog, and so the source's, has reached it.
LEMMA SyncPoints ==
    ASSUME Counting, IInv, Commits, Step, NEW n \in Node, NEW m \in Node, Sync(n, m),
           "ahead" \notin strayed'
    PROVE  Grows /\ \A v \in Node : PointAt(v)' /\ ViewAt(v)
<1>0. /\ history \in Seq(Terms) /\ log[n] \in Seq(Terms) /\ log[m] \in Seq(Terms)
      /\ Len(log[n]) <= MaxLen /\ Len(log[m]) <= MaxLen /\ Mono(log[n]) /\ Mono(log[m])
      /\ commit[n] \in OpTimes /\ commit[m] \in OpTimes /\ commit \in [Node -> OpTimes]
      /\ Len(log'[n]) <= MaxLen
  <2>1. TypeOK /\ TypeOK' /\ Mono(log[n]) /\ Mono(log[m])
    BY Zenon DEF IInv, Shape, Step
  <2>2. history \in Seq(Terms) /\ commit \in [Node -> OpTimes]
    BY Zenon, <2>1 DEF TypeOK
  <2> QED BY Zenon, <2>1, <2>2, Types, TypesNext
<1>1. /\ history' = history /\ role' = role
      /\ commit' = [commit EXCEPT ![n] = Advanced(n, commit[m])]
      /\ role[n] \in {"secondary", "catchup"}
      /\ \/ log'[n] = log[n]
         \/ AtLeast(commit[m], commit[n])
         \/ AtLeast(LastOp(log[n]), commit[n])
  BY ZenonT(60) DEF Sync, LearnFrom, MaySync, Strays, Astray, AtLeast
<1>2. /\ log'[n] \in Seq(Terms) /\ \A v \in Node : v # n => log'[v] = log[v]
      /\ Begins(log[n], log'[n]) /\ Begins(log'[n], log[m])
  BY Zenon, SyncedLog DEF IInv
<1>3. Grows
  BY Zenon, <1>0, <1>1, BeginsRefl DEF Grows
<1>4. commit'[n] = Advanced(n, commit[m]) /\ \A v \in Node : v # n => commit'[v] = commit[v]
  BY Zenon, <1>0, <1>1
<1>5. /\ commit'[n] = commit[n] \/ (commit'[n] = commit[m] /\ role[n] = "secondary"
                                    /\ ~AtLeast(commit[n], commit[m]))
  <2>1. role[n] = "catchup" => Less(commit[m], FirstOpTimeOfMyTerm(n))
    <3>1. commit[m][1] \in Nat /\ commit[m][1] <= MaxTerm
      BY Zenon, <1>0, OpTimeParts
    <3> QED BY <3>1, CommitPointAssumption DEF FirstOpTimeOfMyTerm, Never, Less
  <2> QED BY Zenon, <1>1, <1>4, <2>1 DEF Advanced
<1>6. AtLeast(commit[n], commit[n]) /\ AtLeast(commit[m], commit[m])
  <2>1. /\ commit[n][1] \in Nat /\ commit[n][2] \in Nat
        /\ commit[m][1] \in Nat /\ commit[m][2] \in Nat
    BY Zenon, <1>0, OpTimeParts
  <2> QED BY <2>1 DEF AtLeast, Less
<1>7. AtLeast(commit'[n], commit[n])
  BY Zenon, <1>0, <1>5, <1>6, LessAtLeast DEF AtLeast
<1>8. ViewAt(n)
  BY Zenon, <1>2, <1>7, KeptView
<1>9. PointAt(n) /\ PointAt(m)
  BY DEF Commits
<1>10. Known(commit[n])'
  <2>1. Known(commit'[n])
    BY Zenon, <1>5, <1>9 DEF PointAt
  <2>2. commit'[n] \in OpTimes
    BY Zenon, <1>0, <1>5
  <2>3. \/ commit'[n] = Null
        \/ InLog(commit'[n], history') /\ Maj({w \in Node :
                AtLeast(reported'[w][commit'[n][1]], <<commit'[n][1], commit'[n][2]>>)})
    <3> DEFINE c == commit'[n]
    <3>1. \A a \in OpTimes : Known(a) =>
             a = Null \/ (InLog(a, history') /\ Maj(Reporters(a[1], a[2])'))
      BY Zenon, <1>3, KnownStays
    <3> QED BY Zenon, <2>1, <2>2, <3>1 DEF Reporters
  <2> QED BY Zenon, <2>3 DEF Known, Reporters, Maj
<1>11. ASSUME NEW x \in 1 .. Len(log'[n]), AtLeast(commit'[n], <<log'[n][x], x>>)
       PROVE  x <= Len(history') /\ log'[n][x] = history'[x]
  <2>1. x \in 1 .. Len(log[m]) /\ log'[n][x] = log[m][x]
    BY <1>0, <1>2 DEF Begins
  <2>2. <<log[m][x], x>> \in OpTimes /\ AtLeast(commit'[n], <<log[m][x], x>>)
    BY Zenon, <1>0, <1>11, <2>1, EntryOpTime
  <2>3. CASE AtLeast(commit[m], commit'[n])
    <3>1. commit'[n] \in OpTimes
      BY Zenon, <1>0, <1>5
    <3>2. AtLeast(commit[m], <<log[m][x], x>>)
      BY Zenon, <1>0, <2>2, <2>3, <3>1, AtLeastTransitive
    <3> QED BY Zenon, <1>1, <1>9, <2>1, <3>2 DEF PointAt
  <2>4. CASE commit'[n] = commit[n] /\ AtLeast(LastOp(log[n]), commit[n])
    <3>1. Begins(log[n], log[m])
      BY Zenon, <1>0, <1>2, BeginsBegins
    <3>2. AtLeast(LastOp(log[m]), LastOp(log[n]))
      BY Zenon, <1>0, <3>1, LastOpGrows
    <3>3. LastOp(log[m]) \in OpTimes /\ LastOp(log[n]) \in OpTimes
      BY Zenon, <1>0, LastOpParts
    <3>4. AtLeast(LastOp(log[m]), commit[n])
      BY Zenon, <1>0, <2>4, <3>2, <3>3, AtLeastTransitive
    <3>5. x <= Len(history) /\ log[m][x] = history[x]
      <4>1. Known(commit[n]) /\ AtLeast(commit[n], <<log[m][x], x>>)
        BY Zenon, <1>9, <2>2, <2>4 DEF PointAt
      <4> QED BY ZenonT(60), <1>0, <2>1, <3>4, <4>1, CoveredReached
    <3> QED BY Zenon, <1>1, <2>1, <3>5
  <2>5. CASE commit'[n] = commit[n] /\ log'[n] = log[n]
    BY Zenon, <1>1, <1>9, <1>11, <2>5 DEF PointAt
  <2>6. \/ AtLeast(commit[m], commit'[n])
        \/ commit'[n] = commit[n] /\ AtLeast(LastOp(log[n]), commit[n])
        \/ commit'[n] = commit[n] /\ log'[n] = log[n]
    BY Zenon, <1>1, <1>5, <1>6
  <2> QED BY Zenon, <2>3, <2>4, <2>5, <2>6
<1>12. Leader(n)' => AtLeast(LastOp(log'[n]), commit'[n])
  <2> SUFFICES ASSUME role[n] = "catchup" PROVE AtLeast(LastOp(log'[n]), commit'[n])
    BY Zenon, <1>1 DEF Leader
  <2>1. commit'[n] = commit[n] /\ AtLeast(LastOp(log[n]), commit[n])
    BY Zenon, <1>5, <1>9 DEF PointAt, Leader
  <2>2. Mono(log'[n])
    BY Zenon, <1>0, <1>2, BeginsMono
  <2>3. AtLeast(LastOp(log'[n]), LastOp(log[n]))
    BY Zenon, <1>0, <1>2, <2>2, LastOpGrows
  <2>4. LastOp(log'[n]) \in OpTimes /\ LastOp(log[n]) \in OpTimes
    BY Zenon, <1>0, <1>2, <2>2, LastOpParts
  <2> QED BY Zenon, <1>0, <2>1, <2>3, <2>4, AtLeastTransitive
<1>13. PointAt(n)'
  BY Zenon, <1>10, <1>11, <1>12 DEF PointAt
<1>14. \A v \in Node : v # n => PointAt(v)' /\ ViewAt(v)
  BY Zenon, <1>1, <1>2, <1>3, <1>4, CalmPoint DEF Leader
<1> QED BY Zenon, <1>3, <1>8, <1>13, <1>14

\* An election: the oplog of the new primary reaches its commit point.
LEMMA ElectionPoints ==
    ASSUME Counting, IInv, IInv', Commits, Step, NEW n \in Node, NEW Q \in SUBSET Node,
           WinElection(n, Q)
    PROVE  Grows /\ \A v \in Node : PointAt(v)' /\ ViewAt(v)
<1>0. /\ history \in Seq(Terms) /\ log[n] \in Seq(Terms) /\ Len(log[n]) \in Nat
      /\ Len(log[n]) <= MaxLen /\ Mono(log[n]) /\ commit[n] \in OpTimes
      /\ role \in [Node -> Roles] /\ term[n] \in Nat
  BY ZenonT(60), Types DEF IInv, TypeOK, Shape
<1>1. /\ history' = history /\ log' = log /\ commit' = commit
      /\ role' = [role EXCEPT ![n] = "catchup"] /\ term'[n] = term[n] + 1
  <2>1. term'[n] = term[n] + 1
    BY Zenon, Voters
  <2> QED BY ZenonT(60), <2>1 DEF WinElection
<1>2. Grows
  BY Zenon, <1>0, <1>1, BeginsRefl DEF Grows
<1>3. role'[n] = "catchup" /\ \A v \in Node : v # n => role'[v] = role[v]
  BY Zenon, <1>0, <1>1
<1>4. AtLeast(LastOp(log[n]), commit[n])
  <2>1. CASE commit[n] = Null
    <3>1. LastOp(log[n])[1] \in Nat /\ LastOp(log[n])[2] \in Nat
      BY Zenon, <1>0, LastOpParts, OpTimeParts
    <3> QED BY <2>1, <3>1 DEF AtLeast, Less, Null
  <2>2. CASE commit[n] # Null
    <3>a. PICK t \in Terms, i \in Places : commit[n] = <<t, i>>
      BY <1>0, <2>2, OpTimeParts
    <3>1. t \in Nat /\ i \in Nat
      BY Zenon, PlaceOpTime
    <3>2. Known(commit[n])
      BY Zenon DEF Commits, PointAt
    <3>3. Maj(Reporters(t, i)') /\ i \in 1 .. Len(history) /\ history[i] = t
      <4>1. \A a \in OpTimes : Known(a) =>
               a = Null \/ (InLog(a, history') /\ Maj(Reporters(a[1], a[2])'))
        BY Zenon, <1>2, KnownStays
      <4>2. <<t, i>> \in OpTimes /\ <<t, i>> # Null /\ Known(<<t, i>>)
        BY Zenon, <1>0, <2>2, <3>a, <3>2
      <4>3. InLog(<<t, i>>, history') /\ Maj(Reporters(<<t, i>>[1], <<t, i>>[2])')
        BY Zenon, <4>1, <4>2
      <4>4. <<t, i>>[1] = t /\ <<t, i>>[2] = i
        BY Zenon
      <4> QED BY Zenon, <1>1, <4>3, <4>4 DEF InLog
    <3>4. t <= term[n]
      <4>1. PICK w \in Node : Begins(history, log[w])
        BY Zenon, HistoryHolder
      <4>2. i \in 1 .. Len(log[w]) /\ log[w][i] = t
        <5>1. log[w] \in Seq(Terms)
          BY Zenon, Types DEF IInv
        <5> QED BY SMTT(30), <1>0, <3>3, <4>1, <5>1 DEF Begins
      <4> QED BY Zenon, <4>2, NewTermIsFresh
    <3>5. MayCommit(t, i)'
      <4> DEFINE R == Reporters(t, i)'
                 T == {v \in Node : vote'[v] <= t} \cup R
      <4>1. Maj(R) /\ R \in SUBSET Node /\ T \in SUBSET Node /\ R \subseteq T
        BY Zenon, <3>3 DEF Reporters
      <4> HIDE DEF R, T
      <4>2. Maj(T)
        BY Zenon, <4>1, MajorityGrows
      <4> QED BY Zenon, <4>2 DEF MayCommit, Reporters, Maj, T, R
    <3>6. Has(log[n], Len(log[n]), t, i)
      <4>1. Surviving'
        BY DEF IInv
      <4>2. \A a \in Terms : \A j \in Places :
               MayCommit(a, j)' /\ Leader(n)' /\ term'[n] > a =>
                  Has(log'[n], Len(log'[n]), a, j)
        BY Zenon, <4>1 DEF Surviving
      <4>3. Leader(n)' /\ term'[n] > t
        BY SMTT(30), <1>0, <1>1, <1>3, <3>1, <3>4 DEF Leader
      <4>4. Has(log'[n], Len(log'[n]), t, i)
        BY Zenon, <3>5, <4>2, <4>3
      <4> QED BY Zenon, <1>1, <4>4
    <3>7. PICK k \in 1 .. Len(log[n]) : i <= k /\ log[n][k] = t
      BY Zenon, <3>6 DEF Has
    <3>8. AtLeast(LastOp(log[n]), <<log[n][k], k>>)
      BY Zenon, <1>0, LastOpParts
    <3>9. AtLeast(<<log[n][k], k>>, commit[n])
      BY SMTT(30), <1>0, <3>a, <3>1, <3>7 DEF AtLeast, Less
    <3>10. LastOp(log[n]) \in OpTimes /\ <<log[n][k], k>> \in OpTimes
      BY Zenon, <1>0, LastOpParts, EntryOpTime
    <3> QED BY Zenon, <1>0, <3>8, <3>9, <3>10, AtLeastTransitive
  <2> QED BY Zenon, <2>1, <2>2
<1>5. PointAt(n)'
  <2>1. \A x \in 1 .. Len(log'[n]) :
           AtLeast(commit[n], <<log'[n][x], x>>) => x <= Len(log[n]) /\ log'[n][x] = log[n][x]
    BY SMTT(30), <1>0, <1>1
  <2>2. commit'[n] = commit[n] /\ AtLeast(LastOp(log'[n]), commit[n])
    BY Zenon, <1>1, <1>4
  <2> QED BY ZenonT(60), <1>2, <2>1, <2>2, KeptPoint
<1>6. ViewAt(n)
  <2>1. commit[n][1] \in Nat /\ commit[n][2] \in Nat
    BY Zenon, <1>0, OpTimeParts
  <2>2. AtLeast(commit'[n], commit[n]) /\ Begins(log[n], log'[n])
    BY SMTT(30), <1>0, <1>1, <2>1, BeginsRefl DEF AtLeast, Less
  <2> QED BY Zenon, <2>2, KeptView
<1>7. \A v \in Node : v # n => PointAt(v)' /\ ViewAt(v)
  BY Zenon, <1>1, <1>2, <1>3, CalmPoint DEF Leader
<1> QED BY Zenon, <1>2, <1>5, <1>6, <1>7

\* A rollback keeps what the commit point covers: the common point is not before it.
LEMMA RollbackCovered ==
    ASSUME Counting, IInv, Commits, NEW n \in Node, NEW m \in Node, Rollback(n, m),
           "lagging" \notin strayed', "ahead" \notin strayed'
    PROVE  \A x \in 1 .. Len(log[n]) :
              AtLeast(commit[n], <<log[n][x], x>>) => x <= CommonPoint(log[n], log[m])
<1>0. /\ history \in Seq(Terms) /\ log[n] \in Seq(Terms) /\ log[m] \in Seq(Terms)
      /\ Len(log[n]) \in Nat /\ Len(log[m]) \in Nat /\ Len(history) \in Nat
      /\ Len(log[n]) <= MaxLen /\ Len(log[m]) <= MaxLen /\ Mono(log[n]) /\ Mono(log[m])
      /\ commit[n] \in OpTimes /\ commit[m] \in OpTimes /\ Agree(log[n], log[m])
      /\ Mono(history)
  <2>1. /\ TypeOK /\ Mono(log[n]) /\ Mono(log[m]) /\ Agree(log[n], log[m]) /\ Mono(history)
    BY Zenon DEF IInv, Shape, Recorded
  <2>2. history \in Seq(Terms) /\ Len(history) \in Nat
    BY SMTT(30), <2>1 DEF TypeOK
  <2> QED BY Zenon, <2>1, <2>2, Types
<1> DEFINE s == SubSeq(log[n], 1, CommonPoint(log[n], log[m]))
<1>1. /\ ~Begins(log[n], log[m])
      /\ \/ s = log[n]
         \/ AtLeast(commit[m], commit[n])
         \/ AtLeast(LastOp(log[n]), commit[n])
  BY ZenonT(60) DEF Rollback, Strays, Astray, AtLeast
<1>2. Less(LastOp(log[n]), LastOp(log[m]))
  BY ZenonT(60) DEF Rollback, Strays, Astray
<1>a. CASE s = log[n]
  <2>1. CommonPoint(log[n], log[m]) \in 0 .. Len(log[n])
    BY Zenon, <1>0, CommonType
  <2>2. log[n] \in Seq(Terms)
    BY Zenon, <1>0
  <2>3. Len(s) = CommonPoint(log[n], log[m])
    BY Zenon, <2>1, <2>2, Beginning
  <2>4. Len(log[n]) = CommonPoint(log[n], log[m])
    BY Zenon, <1>a, <2>3
  <2> QED BY <1>0, <2>4
<1> HIDE DEF s
<1>3. PointAt(n) /\ PointAt(m)
  BY Zenon DEF Commits
<1>4. LastOp(log[n]) \in OpTimes /\ LastOp(log[m]) \in OpTimes
  BY Zenon, <1>0, LastOpParts
<1>5. CASE AtLeast(LastOp(log[m]), commit[n])
  <2> SUFFICES ASSUME NEW x \in 1 .. Len(log[n]), AtLeast(commit[n], <<log[n][x], x>>)
               PROVE  x <= CommonPoint(log[n], log[m])
    BY Zenon
  <2>1. x \in 1 .. Len(history) /\ log[n][x] = history[x] /\ Known(commit[n])
    BY SMTT(60), <1>0, <1>3 DEF PointAt
  <2>2. commit[n] # Null /\ x \in 1 .. commit[n][2]
    <3>1. AtLeast(commit[n], <<history[x], x>>)
      BY <2>1
    <3> QED BY Zenon, <1>0, <2>1, <3>1, CoveredWithin
  <2>3. /\ commit[n][2] <= Len(log[m]) /\ commit[n][2] \in Places
        /\ \A y \in 1 .. commit[n][2] : log[m][y] = history[y]
    BY ZenonT(60), <1>0, <1>5, <2>1, <2>2, HistoryUpTo
  <2>4. x <= Len(log[m]) /\ log[n][x] = log[m][x]
    <3>1. commit[n][2] \in Nat
      BY Zenon, <1>0, OpTimeParts
    <3>2. x <= Len(log[m])
      BY Zenon, <1>0, <2>2, <2>3, <3>1, PlacesUpTo
    <3> QED BY Zenon, <2>1, <2>2, <2>3, <3>2
  <2> QED BY ZenonT(60), <1>0, <2>4, CommonPart
<1>6. CASE Less(LastOp(log[m]), commit[n]) /\ s # log[n]
  <2>1. AtLeast(commit[n], LastOp(log[m])) /\ AtLeast(LastOp(log[m]), LastOp(log[n]))
    BY Zenon, <1>0, <1>2, <1>4, <1>6, LessAtLeast
  <2>2. AtLeast(commit[n], LastOp(log[n]))
    BY ZenonT(60), <1>0, <1>4, <2>1, AtLeastTransitive
  <2>3. AtLeast(commit[m], commit[n])
    <3>1. ASSUME AtLeast(LastOp(log[n]), commit[n]) PROVE FALSE
      <4>1. AtLeast(LastOp(log[m]), commit[n])
        BY Zenon, <1>0, <1>4, <2>1, <3>1, AtLeastTransitive
      <4> QED BY Zenon, <1>6, <4>1 DEF AtLeast
    <3> QED BY Zenon, <1>1, <1>6, <3>1
  <2>4. AtLeast(commit[m], LastOp(log[m]))
    BY ZenonT(60), <1>0, <1>4, <2>1, <2>3, AtLeastTransitive
  <2>5. ASSUME NEW v \in Node, log[v] \in Seq(Terms), Len(log[v]) <= MaxLen, Mono(log[v]),
               commit[v] \in OpTimes, LastOp(log[v]) \in OpTimes, PointAt(v),
               AtLeast(commit[v], LastOp(log[v]))
        PROVE  \A x \in 1 .. Len(log[v]) : x <= Len(history) /\ log[v][x] = history[x]
    <3> SUFFICES ASSUME NEW x \in 1 .. Len(log[v])
                 PROVE  x <= Len(history) /\ log[v][x] = history[x]
      OBVIOUS
    <3>1. AtLeast(LastOp(log[v]), <<log[v][x], x>>) /\ <<log[v][x], x>> \in OpTimes
      BY Zenon, <2>5, LastOpParts, EntryOpTime
    <3>2. AtLeast(commit[v], <<log[v][x], x>>)
      BY Zenon, <2>5, <3>1, AtLeastTransitive
    <3> QED BY Zenon, <2>5, <3>2 DEF PointAt
  <2>6. \A x \in 1 .. Len(log[n]) : x <= Len(history) /\ log[n][x] = history[x]
    BY Zenon, <1>0, <1>3, <1>4, <2>2, <2>5
  <2>7. \A x \in 1 .. Len(log[m]) : x <= Len(history) /\ log[m][x] = history[x]
    BY Zenon, <1>0, <1>3, <1>4, <2>4, <2>5
  <2>8. Len(log[n]) <= Len(log[m])
    <3> SUFFICES ASSUME Len(log[m]) < Len(log[n]) PROVE FALSE
      BY SMTT(30), <1>0
    <3>1. Len(log[n]) # 0 /\ Len(log[n]) \in 1 .. Len(log[n])
      BY SMTT(30), <1>0
    <3> DEFINE x == log[n][Len(log[n])]
               y == log[m][Len(log[m])]
    <3>2. /\ Len(log[m]) \in 1 .. Len(log[m]) /\ x \in Nat /\ y \in Nat
          /\ x < y \/ (x = y /\ Len(log[n]) <= Len(log[m]))
      BY Zenon, <1>0, <1>2, <3>1, LastOpOrder
    <3>3. /\ x = history[Len(log[n])] /\ y = history[Len(log[m])]
          /\ Len(log[n]) <= Len(history) /\ Len(log[m]) <= Len(history)
      BY Zenon, <2>6, <2>7, <3>1, <3>2
    <3>4. Len(log[n]) \in 1 .. Len(history) /\ Len(log[m]) \in 1 .. Len(history)
      BY Zenon, <1>0, <3>1, <3>2, <3>3, PlaceWithin
    <3>5. Len(log[m]) <= Len(log[n])
      BY SMTT(30), <1>0
    <3>6. y <= x
      BY Zenon, <1>0, <3>3, <3>4, <3>5 DEF Mono
    <3> HIDE DEF x, y
    <3> QED BY SMTT(30), <1>0, <3>2, <3>6
  <2>9. Begins(log[n], log[m])
    BY Zenon, <1>0, <2>6, <2>7, <2>8, SameBeginning
  <2> QED BY Zenon, <1>1, <2>9
<1> QED BY Zenon, <1>5, <1>6, <1>a DEF AtLeast

\* A rollback keeps the commit points, and what they cover.
LEMMA RollbackPoints ==
    ASSUME Counting, IInv, Commits, Step, NEW n \in Node, NEW m \in Node,
           Rollback(n, m), "lagging" \notin strayed', "ahead" \notin strayed'
    PROVE  Grows /\ \A v \in Node : PointAt(v)' /\ ViewAt(v)
<1> DEFINE c == CommonPoint(log[n], log[m])
<1>0. /\ history \in Seq(Terms) /\ log[n] \in Seq(Terms) /\ log[m] \in Seq(Terms)
      /\ Len(log[n]) \in Nat /\ Agree(log[n], log[m]) /\ log \in [Node -> Seq(Terms)]
      /\ commit[n] \in OpTimes
  BY Zenon, Types DEF IInv, Shape, TypeOK
<1>1. /\ history' = history /\ commit' = commit /\ role' = role /\ role[n] = "secondary"
      /\ log' = [log EXCEPT ![n] = SubSeq(log[n], 1, c)]
  BY Zenon DEF Rollback
<1>2. Grows
  BY Zenon, <1>0, <1>1, BeginsRefl DEF Grows
<1>3. c \in 0 .. Len(log[n]) /\ c \in Nat
  BY ZenonT(60), <1>0, CommonPart
<1>4. \A x \in 1 .. Len(log[n]) : AtLeast(commit[n], <<log[n][x], x>>) => x <= c
  BY Zenon, RollbackCovered
<1> HIDE DEF c
<1>5. /\ log'[n] = SubSeq(log[n], 1, c) /\ \A v \in Node : v # n => log'[v] = log[v]
  BY Zenon, <1>0, <1>1
<1>6. Len(log'[n]) = c /\ \A x \in 1 .. c : log'[n][x] = log[n][x]
  BY ZenonT(60), <1>0, <1>3, <1>5, Beginning
<1>7. PointAt(n)'
  <2>1. \A x \in 1 .. Len(log'[n]) :
           AtLeast(commit[n], <<log'[n][x], x>>) => x <= Len(log[n]) /\ log'[n][x] = log[n][x]
    BY SMTT(30), <1>0, <1>3, <1>6
  <2>2. commit'[n] = commit[n] /\ role'[n] = "secondary"
    BY Zenon, <1>1
  <2> QED BY Zenon, <1>2, <2>1, <2>2, KeptPoint
<1>8. ViewAt(n)
  <2>1. ASSUME NEW x \in 1 .. Len(log[n]), AtLeast(commit[n], <<log[n][x], x>>)
        PROVE  /\ x <= Len(log'[n]) /\ log'[n][x] = log[n][x]
               /\ AtLeast(commit'[n], <<log[n][x], x>>)
    <3>1. x \in 1 .. c
      BY Zenon, <1>0, <1>3, <1>4, <2>1, PlaceWithin
    <3> QED BY Zenon, <1>1, <1>4, <1>6, <2>1, <3>1
  <2> QED BY Zenon, <2>1 DEF ViewAt
<1>9. \A v \in Node : v # n => PointAt(v)' /\ ViewAt(v)
  BY Zenon, <1>1, <1>2, <1>5, CalmPoint DEF Leader
<1> QED BY Zenon, <1>2, <1>7, <1>8, <1>9

\* Every step, until a member syncs astray.
LEMMA EveryPoint ==
    ASSUME Counting, strayed' = {}, IInv, IInv', Commits, [Next]_vars
    PROVE  Grows /\ \A v \in Node : PointAt(v)' /\ ViewAt(v)
<1>0. Step /\ TypeOK' /\ history \in Seq(Terms) /\ role \in [Node -> Roles]
  BY Zenon, EveryStep DEF IInv, TypeOK, Straight
<1>a. "lagging" \notin strayed' /\ "ahead" \notin strayed'
  BY Zenon
<1>1. ASSUME history' = history, commit' = commit, log' = log,
             \A v \in Node : role'[v] # "secondary" => Leader(v)
      PROVE  Grows /\ \A v \in Node : PointAt(v)' /\ ViewAt(v)
  <2>1. Grows
    BY Zenon, <1>0, <1>1, BeginsRefl DEF Grows
  <2> QED BY Zenon, <1>0, <1>1, <2>1, CalmPoint
<1>2. CASE UNCHANGED vars
  BY Zenon, <1>1, <1>2 DEF vars, Leader
<1>3. ASSUME NEW n \in Node, StepDownStart(n) \/ StepDownFinish(n) \/ StepDown(n)
      PROVE  Grows /\ \A v \in Node : PointAt(v)' /\ ViewAt(v)
  BY ZenonT(60), <1>0, <1>1, <1>3 DEF StepDownStart, StepDownFinish, StepDown, Leader
<1>4. ASSUME NEW n \in Node, NEW m \in Node, HearTerm(n, m)
      PROVE  Grows /\ \A v \in Node : PointAt(v)' /\ ViewAt(v)
  BY ZenonT(60), <1>1, <1>4 DEF HearTerm, Leader
<1>5. ASSUME NEW n \in Node, Journal(n) \/ UpdatePosition(n) \/ DrainComplete(n)
      PROVE  Grows /\ \A v \in Node : PointAt(v)' /\ ViewAt(v)
  <2>1. CommitStep(n)
    BY ZenonT(60), <1>0, <1>5, JournalStep, UpdatePositionStep, DrainCompleteStep
  <2>2. log' = log
    BY ZenonT(60), <1>5 DEF Journal, UpdatePosition, DrainComplete
  <2>3. \A v \in Node : role'[v] # "secondary" => Leader(v)
    <3>1. CASE role' = role
      BY Zenon, <3>1 DEF Leader
    <3>2. CASE DrainComplete(n)
      BY ZenonT(60), <1>0, <3>2 DEF DrainComplete, Leader
    <3> QED BY Zenon, <1>5, <3>1, <3>2 DEF Journal, UpdatePosition
  <2> QED BY Zenon, <1>0, <2>1, <2>2, <2>3, CommitPoints
<1>6. ASSUME NEW n \in Node, Write(n) \/ LogTransitionToPrimary(n) \/ Restart(n)
      PROVE  Grows /\ \A v \in Node : PointAt(v)' /\ ViewAt(v)
  BY Zenon, <1>0, <1>6, WritePoints, RestartPoints
<1>7. ASSUME NEW n \in Node, NEW m \in Node, Sync(n, m) \/ Rollback(n, m)
      PROVE  Grows /\ \A v \in Node : PointAt(v)' /\ ViewAt(v)
  BY Zenon, <1>0, <1>a, <1>7, SyncPoints, RollbackPoints
<1>8. ASSUME NEW n \in Node, NEW Q \in SUBSET Node, WinElection(n, Q)
      PROVE  Grows /\ \A v \in Node : PointAt(v)' /\ ViewAt(v)
  BY Zenon, <1>0, <1>8, ElectionPoints
<1> QED BY Zenon, <1>2, <1>3, <1>4, <1>5, <1>6, <1>7, <1>8 DEF Next

\* The commit points at first.
LEMMA InitPoints ==
    ASSUME Counting, Init
    PROVE  Commits
<1>0. IInv
  BY Zenon, InitInvariant
<1>1. /\ history = <<1>> /\ \A n \in Node : log[n] = <<1>> /\ commit[n] = <<1, 1>>
  BY Zenon DEF Init
<1>2. InLog(<<1, 1>>, history) /\ LastTerm = 1 /\ Len(history) = 1
  BY <1>1 DEF InLog, LastTerm
<1>3. Maj(Reporters(1, 1))
  BY Zenon, <1>0, <1>2 DEF IInv, Recorded
<1>4. ASSUME NEW n \in Node PROVE PointAt(n)
  <2>1. Known(commit[n])
    BY <1>1, <1>2, <1>3 DEF Known
  <2>2. \A i \in 1 .. Len(log[n]) : i <= Len(history) /\ log[n][i] = history[i]
    BY <1>1
  <2>3. AtLeast(LastOp(log[n]), commit[n])
    <3>1. LastOp(<<1>>) = <<1, 1>>
      BY SMTT(30) DEF LastOp, OpTimeAt
    <3> QED BY <1>1, <3>1 DEF AtLeast, Less
  <2> QED BY Zenon, <2>1, <2>2, <2>3 DEF PointAt
<1> QED BY Zenon, <1>4 DEF Commits

\* What a member takes to be committed begins the history.
LEMMA ViewIn ==
    ASSUME Counting, IInv, NEW n \in Node, PointAt(n)
    PROVE  Begins(Covered(log[n], commit[n]), history)
<1>1. /\ log[n] \in Seq(Terms) /\ Len(log[n]) \in Nat /\ Len(log[n]) <= MaxLen
      /\ Mono(log[n]) /\ commit[n] \in OpTimes /\ history \in Seq(Terms)
  BY Zenon, Types DEF IInv, Shape, TypeOK
<1>2. PICK k \in 0 .. Len(log[n]) :
         /\ Covered(log[n], commit[n]) = SubSeq(log[n], 1, k)
         /\ \A i \in 1 .. Len(log[n]) : i <= k <=> AtLeast(commit[n], <<log[n][i], i>>)
  BY Zenon, <1>1, CoveredPart
<1>3. /\ Len(SubSeq(log[n], 1, k)) = k
      /\ \A i \in 1 .. k : SubSeq(log[n], 1, k)[i] = log[n][i]
  BY Zenon, <1>1, Beginning
<1>4. \A i \in 1 .. k : i <= Len(history) /\ log[n][i] = history[i]
  <2> SUFFICES ASSUME NEW i \in 1 .. k PROVE i <= Len(history) /\ log[n][i] = history[i]
    BY Zenon
  <2>1. i \in 1 .. Len(log[n]) /\ i <= k
    BY <1>1
  <2> QED BY ZenonT(60), <1>2, <2>1 DEF PointAt
<1>5. k <= Len(history)
  BY <1>1, <1>4
<1> QED BY Zenon, <1>1, <1>2, <1>3, <1>4, <1>5 DEF Begins

\* It grows, or is nothing.
LEMMA ViewStep ==
    ASSUME Counting, IInv, IInv', NEW n \in Node, ViewAt(n)
    PROVE  \/ Covered(log'[n], commit'[n]) = << >>
           \/ Begins(Covered(log[n], commit[n]), Covered(log'[n], commit'[n]))
<1>1. /\ log[n] \in Seq(Terms) /\ Len(log[n]) \in Nat /\ Len(log[n]) <= MaxLen
      /\ Mono(log[n]) /\ commit[n] \in OpTimes
  BY Zenon, Types DEF IInv, Shape
<1>2. /\ log'[n] \in Seq(Terms) /\ Len(log'[n]) \in Nat /\ Len(log'[n]) <= MaxLen
      /\ Mono(log'[n]) /\ commit'[n] \in OpTimes
  BY ZenonT(60), TypesNext DEF IInv, Shape
<1>3. PICK k \in 0 .. Len(log[n]) :
         /\ Covered(log[n], commit[n]) = SubSeq(log[n], 1, k)
         /\ \A i \in 1 .. Len(log[n]) : i <= k <=> AtLeast(commit[n], <<log[n][i], i>>)
  BY Zenon, <1>1, CoveredPart
<1>4. PICK j \in 0 .. Len(log'[n]) :
         /\ Covered(log'[n], commit'[n]) = SubSeq(log'[n], 1, j)
         /\ \A i \in 1 .. Len(log'[n]) : i <= j <=> AtLeast(commit'[n], <<log'[n][i], i>>)
  BY Zenon, <1>2, CoveredPart
<1>5. /\ Len(SubSeq(log[n], 1, k)) = k
      /\ \A i \in 1 .. k : SubSeq(log[n], 1, k)[i] = log[n][i]
  BY Zenon, <1>1, Beginning
<1>6. /\ Len(SubSeq(log'[n], 1, j)) = j
      /\ \A i \in 1 .. j : SubSeq(log'[n], 1, j)[i] = log'[n][i]
  BY Zenon, <1>2, Beginning
<1>7. CASE commit'[n] = Null
  <2>1. j = 0
    <3> SUFFICES ASSUME 1 <= j PROVE FALSE
      BY <1>2
    <3>1. 1 \in 1 .. Len(log'[n]) /\ log'[n][1] \in Nat /\ 1 <= log'[n][1]
      BY SMTT(30), <1>2, Entry
    <3>2. AtLeast(Null, <<log'[n][1], 1>>)
      BY Zenon, <1>4, <1>7, <3>1
    <3> QED BY SMTT(30), <3>1, <3>2 DEF AtLeast, Less, Null
  <2>2. SubSeq(log'[n], 1, 0) = << >>
    BY <1>2
  <2> QED BY Zenon, <1>4, <2>1, <2>2
<1>8. ASSUME \A x \in 1 .. Len(log[n]) :
                AtLeast(commit[n], <<log[n][x], x>>) =>
                   /\ x <= Len(log'[n]) /\ log'[n][x] = log[n][x]
                   /\ AtLeast(commit'[n], <<log[n][x], x>>)
      PROVE  Begins(Covered(log[n], commit[n]), Covered(log'[n], commit'[n]))
  <2>1. ASSUME NEW x \in 1 .. k PROVE x <= j /\ log'[n][x] = log[n][x]
    <3>1. x \in 1 .. Len(log[n]) /\ x <= k
      BY <1>1
    <3>2. /\ x <= Len(log'[n]) /\ log'[n][x] = log[n][x]
          /\ AtLeast(commit'[n], <<log[n][x], x>>)
      BY Zenon, <1>3, <1>8, <3>1
    <3>3. x \in 1 .. Len(log'[n]) /\ AtLeast(commit'[n], <<log'[n][x], x>>)
      BY <1>2, <3>1, <3>2
    <3> QED BY Zenon, <1>4, <3>2, <3>3
  <2>2. k <= j
    BY <1>1, <1>2, <2>1
  <2>3. \A x \in 1 .. k : SubSeq(log[n], 1, k)[x] = SubSeq(log'[n], 1, j)[x]
    <3> SUFFICES ASSUME NEW x \in 1 .. k
                 PROVE  SubSeq(log[n], 1, k)[x] = SubSeq(log'[n], 1, j)[x]
      BY Zenon
    <3>1. x \in 1 .. j
      BY <2>2
    <3> QED BY Zenon, <1>5, <1>6, <2>1, <3>1
  <2> QED BY Zenon, <1>3, <1>4, <1>5, <1>6, <2>2, <2>3 DEF Begins
<1> QED BY ZenonT(60), <1>7, <1>8 DEF ViewAt

\* IInv implies that what is committed is in the journals of a majority.
LEMMA MajorityHolds ==
    ASSUME Counting, IInv
    PROVE  CommittedOnMajority
<1> DEFINE S == {v \in Node : Begins(history, log[v]) /\ Len(history) <= durable[v]}
           T == {v \in Node : Begins(history, SubSeq(log[v], 1, durable[v]))}
<1>1. Maj(S) /\ S \in SUBSET Node /\ T \in SUBSET Node
  BY Zenon, HistoryHolder
<1>2. ASSUME NEW v \in S PROVE v \in T
  <2>1. /\ log[v] \in Seq(Terms) /\ durable[v] \in 0 .. Len(log[v]) /\ v \in Node
        /\ history \in Seq(Terms) /\ Begins(history, log[v]) /\ Len(history) <= durable[v]
    BY Zenon, Types DEF IInv, TypeOK
  <2>2. /\ Len(SubSeq(log[v], 1, durable[v])) = durable[v]
        /\ \A i \in 1 .. durable[v] : SubSeq(log[v], 1, durable[v])[i] = log[v][i]
    BY ZenonT(60), <2>1, Beginning
  <2> QED BY SMTT(30), <2>1, <2>2 DEF Begins
<1>3. S \subseteq T
  BY Zenon, <1>2
<1> HIDE DEF S, T
<1>4. Maj(T)
  BY ZenonT(60), <1>1, <1>3, MajorityGrows
<1> QED BY Zenon, <1>4 DEF CommittedOnMajority, Maj, T

\* IInv implies that primaries have what is committed.
LEMMA PrimaryHolds ==
    ASSUME Counting, IInv
    PROVE  LeaderHasCommitted
<1>1. Len(history) # 0 /\ LastOp(history)[1] = LastTerm
  BY SMTT(30), CommitPointAssumption
     DEF IInv, Recorded, Places, LastOp, OpTimeAt, LastTerm
<1> QED BY Zenon, <1>1, LeaderHolds DEF LeaderHasCommitted, Leader

-----------------------------------------------------------------------------
(***************************************************************************)
(* Finite sets                                                             *)
(***************************************************************************)

INSTANCE FiniteSetTheorems

\* Majorities of the members, by their cardinalities.
LEMMA CountingMembers ==
    ASSUME NEW S \in SUBSET Node
    PROVE  /\ Cardinality(S) \in Nat /\ Cardinality(Node) \in Nat
           /\ Cardinality(S) >= WriteMajority => Maj(S)
           /\ S # {} => Maj(Node)
           /\ \A T \in SUBSET Node : Maj(S) /\ S \subseteq T => Maj(T)
           /\ \A T \in SUBSET Node : Maj(S) /\ Maj(T) => \E v \in S : v \in T
<1>1. ASSUME NEW T \in SUBSET Node PROVE IsFiniteSet(T) /\ Cardinality(T) \in Nat
  BY ZenonT(60), CommitPointAssumption, FS_Subset, FS_CardinalityType
<1>2. Cardinality(S) \in Nat /\ Cardinality(Node) \in Nat
  BY Zenon, <1>1
<1>3. Cardinality(S) >= WriteMajority => Maj(S)
  BY Zenon, <1>2, MajorityNumbers DEF Maj, WriteMajority, WriteMajorityOf
<1>4. ASSUME S # {} PROVE Maj(Node)
  <2>1. Cardinality(Node) # 0
    BY ZenonT(60), <1>4, CommitPointAssumption, FS_EmptySet
  <2> QED BY Zenon, <1>2, <2>1, MajorityNumbers DEF Maj
<1>5. ASSUME NEW T \in SUBSET Node, Maj(S), S \subseteq T PROVE Maj(T)
  <2>1. Cardinality(S) <= Cardinality(T)
    BY ZenonT(60), <1>1, <1>5, FS_Subset
  <2> QED BY Zenon, <1>1, <1>2, <1>5, <2>1, MajorityNumbers DEF Maj
<1>6. ASSUME NEW T \in SUBSET Node, Maj(S), Maj(T) PROVE \E v \in S : v \in T
  <2>1. Cardinality(S) + Cardinality(T) > Cardinality(Node)
    BY Zenon, <1>1, <1>2, <1>6, MajorityNumbers DEF Maj
  <2>2. S \cap T # {}
    BY ZenonT(60), <2>1, CommitPointAssumption, FS_MajoritiesIntersect
  <2> QED BY Zenon, <2>2
<1> QED BY ZenonT(60), <1>2, <1>3, <1>4, <1>5, <1>6

\* There are n places up to n.
LEMMA FirstPlaces ==
    ASSUME NEW n \in Nat
    PROVE  IsFiniteSet(1 .. n) /\ Cardinality(1 .. n) = n
<1>1. 1 \in Int /\ n \in Int
  OBVIOUS
<1>2. /\ IsFiniteSet(1 .. n)
      /\ Cardinality(1 .. n) = IF 1 > n THEN 0 ELSE n - 1 + 1
  BY ZenonT(60), <1>1, FS_Interval
<1> QED BY <1>2

\* Of n places there are at most n.
LEMMA SomePlaces ==
    ASSUME NEW n \in Nat, NEW S \in SUBSET (1 .. n)
    PROVE  IsFiniteSet(S) /\ Cardinality(S) \in Nat /\ Cardinality(S) \in 0 .. n
<1>1. IsFiniteSet(1 .. n) /\ Cardinality(1 .. n) = n
  BY Zenon, FirstPlaces
<1>2. IsFiniteSet(S) /\ Cardinality(S) <= Cardinality(1 .. n)
  BY Zenon, <1>1, FS_Subset
<1>3. Cardinality(S) \in Nat
  BY ZenonT(60), <1>2, FS_CardinalityType
<1>4. Cardinality(S) <= n
  BY Zenon, <1>1, <1>2
<1> QED BY SMTT(30), <1>2, <1>3, <1>4

\* A set of places with no gap below it is an interval.
LEMMA PlacesWithoutGap ==
    ASSUME NEW n \in Nat, NEW S \in SUBSET (1 .. n),
           \A i \in S : \A j \in 1 .. i : j \in S
    PROVE  Cardinality(S) \in 0 .. n /\ S = 1 .. Cardinality(S)
<1>1. IsFiniteSet(S) /\ Cardinality(S) \in Nat /\ Cardinality(S) \in 0 .. n
  BY Zenon, SomePlaces
<1>2. Cardinality(S) <= n
  BY <1>1
<1>3. ASSUME NEW i \in S PROVE i <= Cardinality(S)
  <2>1. (1 .. i) \in SUBSET S /\ i \in Nat
    BY <1>3
  <2>2. Cardinality(1 .. i) = i
    BY Zenon, <2>1, FirstPlaces
  <2>3. Cardinality(1 .. i) <= Cardinality(S)
    BY Zenon, <1>1, <2>1, FS_Subset
  <2> QED BY Zenon, <2>2, <2>3
<1>4. ASSUME NEW i \in 1 .. Cardinality(S), i \notin S PROVE FALSE
  <2>1. S \in SUBSET (1 .. (i - 1)) /\ i - 1 \in Nat /\ ~(Cardinality(S) <= i - 1)
    BY Zenon, <1>1, <1>4, PlacesBelow
  <2>2. IsFiniteSet(1 .. (i - 1)) /\ Cardinality(1 .. (i - 1)) = i - 1
    BY Zenon, <2>1, FirstPlaces
  <2>3. Cardinality(S) <= Cardinality(1 .. (i - 1))
    BY Zenon, <2>1, <2>2, FS_Subset
  <2> QED BY Zenon, <2>1, <2>2, <2>3
<1> QED BY Zenon, <1>1, <1>2, <1>3, <1>4, PlacesAre

\* The hypothesis of the lemmas holds: the members are finitely many.
LEMMA CountingHolds == Counting
<1>1. \A n \in Node : Maj(Node)
  BY Zenon, CountingMembers
<1>2. \A n \in Nat : \A S \in SUBSET (1 .. n) :
         (\A i \in S : \A j \in 1 .. i : j \in S) =>
            Cardinality(S) \in 0 .. n /\ S = 1 .. Cardinality(S)
  BY Zenon, PlacesWithoutGap
<1>3. \A n \in Nat : \A S \in SUBSET (1 .. n) : Cardinality(S) \in 0 .. n
  BY Zenon, SomePlaces
<1> QED BY Zenon, <1>1, <1>2, <1>3, CountingMembers DEF Counting

-----------------------------------------------------------------------------
(***************************************************************************)
(* What holds always                                                       *)
(***************************************************************************)

\* The variables have the types of the code's, whatever sources the members sync
\* from.
THEOREM TypeCorrect == Spec => []TypeOK
<1>1. Init => TypeOK
  BY ZenonT(60), InitInvariant, CountingHolds DEF IInv
<1>2. TypeOK /\ [Next]_vars => TypeOK'
  BY Zenon, TypeStep, CountingHolds
<1> QED BY <1>1, <1>2, PTL DEF Spec

\* The invariant holds until a member rolls back to a source behind it or a primary
\* catches up with a later term.
THEOREM Invariant == Spec => [](Straight => IInv)
<1>1. Init => IInv
  BY ZenonT(60), InitInvariant, CountingHolds
<1>2. (Straight => IInv) /\ [Next]_vars => (Straight' => IInv')
  <2> SUFFICES ASSUME Straight => IInv, [Next]_vars, Straight' PROVE IInv'
    OBVIOUS
  <2>1. Straight
    BY Zenon, StrayedGrows DEF Straight
  <2> QED BY Zenon, <2>1, InvariantStep, CountingHolds
<1> QED BY <1>1, <1>2, PTL DEF Spec

\* What a primary has committed is in the journals of a majority, through every
\* election, rollback, step down and restart, until a member syncs astray.
THEOREM CommittedStays == Spec => []CommittedUnlessStrayed
<1>1. (Straight => IInv) => CommittedUnlessStrayed
  BY Zenon, MajorityHolds, CountingHolds DEF CommittedUnlessStrayed
<1> QED BY <1>1, Invariant, PTL

\* A primary of the term of the last committed operation, or of a later one, has
\* all that is committed, until a member syncs astray.
THEOREM LeaderComplete == Spec => []LeaderUnlessStrayed
<1>1. (Straight => IInv) => LeaderUnlessStrayed
  BY Zenon, PrimaryHolds, CountingHolds DEF LeaderUnlessStrayed
<1> QED BY <1>1, Invariant, PTL

\* The commit points of all members, seen through their oplogs, implement the
\* abstract history until a member syncs astray: one committed sequence that only
\* grows, of which each member holds a prefix that only grows until it restarts.
THEOREM Refinement == Spec => ImplementsUnlessStrayed
<1> DEFINE Safe == strayed = {} => Commits
           Views == \A n \in Node : Begins(CommittedView[n], history)
           Seen == strayed = {} => Views
           Sure == Straight => IInv
<1>1. Init => Safe
  BY ZenonT(60), InitPoints, CountingHolds
<1>2. ASSUME [Next]_vars, strayed' = {}
      PROVE  strayed = {} /\ Straight /\ Straight'
  BY ZenonT(60), <1>2, StrayedGrows DEF Straight
<1>3. Sure /\ Sure' /\ Safe /\ [Next]_vars => Safe'
  BY ZenonT(60), <1>2, EveryPoint, CountingHolds DEF Commits
<1>4. Sure /\ Safe => Seen
  <2>1. IInv /\ Commits => Views
    BY ZenonT(60), ViewIn, CountingHolds DEF CommittedView, Commits
  <2>2. strayed = {} => Straight
    BY ZenonT(60) DEF Straight
  <2> QED BY Zenon, <2>1, <2>2
<1>5. Init /\ Seen => Committed!Init
  <2>1. Init /\ Seen => Views
    BY ZenonT(60) DEF Init
  <2> QED BY ZenonT(60), <2>1 DEF Committed!Init, Committed!Begins, Begins
<1>6. Sure /\ Sure' /\ Safe /\ Seen' /\ [Next]_vars
         => [strayed' = {} => UNCHANGED <<history, log, commit>> \/ Committed!Next
            ]_<<history, CommittedView>>
  <2> SUFFICES ASSUME Sure, Sure', Safe, Seen', [Next]_vars, strayed' = {}
               PROVE  Committed!Next
    BY ZenonT(60)
  <2>1. IInv /\ IInv' /\ Commits
    BY Zenon, <1>2
  <2>2. Grows /\ \A v \in Node : ViewAt(v)
    BY ZenonT(60), <2>1, EveryPoint, CountingHolds
  <2>3. Views'
    BY Zenon
  <2>4. ASSUME NEW n \in Node
        PROVE  /\ Begins(CommittedView'[n], history')
               /\ CommittedView'[n] = << >> \/ Begins(CommittedView[n], CommittedView'[n])
    <3>1. /\ CommittedView[n] = Covered(log[n], commit[n])
          /\ CommittedView'[n] = Covered(log'[n], commit'[n])
      BY Zenon DEF CommittedView
    <3>2. \/ Covered(log'[n], commit'[n]) = << >>
          \/ Begins(Covered(log[n], commit[n]), Covered(log'[n], commit'[n]))
      BY ZenonT(60), <2>1, <2>2, ViewStep, CountingHolds
    <3> QED BY Zenon, <2>3, <3>1, <3>2
  <2>5. \A r, s : Committed!Begins(r, s) <=> Begins(r, s)
    BY DEF Committed!Begins, Begins
  <2> QED BY Zenon, <2>2, <2>4, <2>5 DEF Committed!Next, Grows
<1> HIDE DEF Safe, Views, Seen
<1> QED BY <1>1, <1>3, <1>4, <1>5, <1>6, Invariant, PTL
        DEF Spec, ImplementsUnlessStrayed
=============================================================================
