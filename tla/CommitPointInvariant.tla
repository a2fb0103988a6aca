------------------------ MODULE CommitPointInvariant ------------------------
(***************************************************************************)
(* An inductive invariant of CommitPoint, and which of its steps keep it:  *)
(* lemmas for CommitPointProofs.                                           *)
(***************************************************************************)
EXTENDS CommitPoint, Integers, TLAPS

-----------------------------------------------------------------------------
(***************************************************************************)
(* The inductive invariant                                                 *)
(***************************************************************************)

\* A majority of the members.
Maj(S) == 2 * Cardinality(S) > Cardinality(Node)

\* The terms of an oplog never fall.
Mono(s) == \A i, j \in 1 .. Len(s) : i <= j => s[i] <= s[j]

\* Where r has an entry of a term and s has one of that term at the same place or
\* further on, the two are the same up to that place of r.
Agree(r, s) ==
    \A i \in 1 .. Len(r), j \in 1 .. Len(s) :
       i <= j /\ r[i] = s[j] => \A k \in 1 .. i : r[k] = s[k]

\* Among the first d entries of oplog s there is one of term t at place i or later.
Has(s, d, t, i) == \E k \in 1 .. d : i <= k /\ s[k] = t

\* A primary, wherever it is in its transition, and the durable position of a member.
Leader(n) == role[n] # "secondary"
Position(n) == OpTimeAt(log[n], durable[n])

\* Who has reported, in a term up to t, place i of term t or something later.
Reporters(t, i) == {v \in Node : AtLeast(reported[v][t], <<t, i>>)}

\* The primary of term t may have seen, or may see yet, a majority at place i:
\* who has voted in a later term reports no more in term t.
MayCommit(t, i) == Maj({v \in Node : vote[v] <= t} \cup Reporters(t, i))

\* The places of an oplog.
Places == 1 .. MaxLen

\* Oplogs have the shape that primaries, one to a term, give them.
Shape ==
    /\ \A n \in Node : Mono(log[n])
    /\ \A n, m \in Node : Agree(log[n], log[m])

\* Nobody has voted, or has entries, ahead of its term.
Terming ==
    /\ \A n \in Node : vote[n] <= term[n]
    /\ \A n \in Node : \A i \in 1 .. Len(log[n]) : log[n][i] <= term[n]

\* A majority has voted in term t or later.
Passed(t) == Maj({v \in Node : vote[v] >= t})

\* A term with a primary or an entry has had an election.
Voting ==
    /\ \A n \in Node : Leader(n) => Passed(term[n])
    /\ \A n \in Node : \A i \in 1 .. Len(log[n]) : Passed(log[n][i])

\* A term has one primary, which has all entries of its term, ...
Leading ==
    /\ \A n, m \in Node : Leader(n) /\ Leader(m) /\ term[n] = term[m] => n = m
    /\ \A n, m \in Node : \A j \in 1 .. Len(log[m]) :
          Leader(n) /\ log[m][j] = term[n] =>
             /\ role[n] # "catchup"
             /\ j <= Len(log[n])
             /\ log[n][j] = term[n]

\* ... the last entry of its oplog among them once it has drained.
Drained ==
    \A n \in Node : role[n] \in {"draining", "primary"} =>
       Len(log[n]) > 0 /\ log[n][Len(log[n])] = term[n]

\* A position is reported in its term or later; what a majority may have reported
\* is still in the journals of those who have.
Reporting ==
    /\ \A n \in Node : \A t \in Terms : reported[n][t][1] <= t
    /\ \A n \in Node : AtLeast(reported[n][term[n]], Position(n))
    /\ \A n \in Node : \A t \in Terms : \A i \in Places :
          MayCommit(t, i) /\ n \in Reporters(t, i) => Has(log[n], durable[n], t, i)

\* Entries and primaries of later terms have what a majority may have reported.
Surviving ==
    /\ \A n \in Node : \A t \in Terms : \A i \in Places :
          MayCommit(t, i) /\ (\E k \in 1 .. Len(log[n]) : log[n][k] > t) =>
             Has(log[n], Len(log[n]), t, i)
    /\ \A n \in Node : \A t \in Terms : \A i \in Places :
          MayCommit(t, i) /\ Leader(n) /\ term[n] > t =>
             Has(log[n], Len(log[n]), t, i)

\* A majority has reported the last committed operation.
LastTerm == history[Len(history)]
Recorded ==
    /\ Len(history) \in Places
    /\ Mono(history)
    /\ Maj(Reporters(LastTerm, Len(history)))
    /\ \A n \in Node : Agree(history, log[n]) /\ Agree(log[n], history)

\* The inductive invariant.
IInv == /\ TypeOK /\ Shape /\ Terming /\ Voting /\ Leading /\ Drained
        /\ Reporting /\ Surviving /\ Recorded

\* A commit point is in the history, and its operation was committed by the primary
\* that logged it.  What it covers of an oplog is in the history, and the oplog of a
\* primary reaches it.
Known(c) == c = Null \/ (InLog(c, history) /\ Maj(Reporters(c[1], c[2])))
PointAt(n) ==
    /\ Known(commit[n])
    /\ \A i \in 1 .. Len(log[n]) :
          AtLeast(commit[n], <<log[n][i], i>>) =>
             i <= Len(history) /\ log[n][i] = history[i]
    /\ Leader(n) => AtLeast(LastOp(log[n]), commit[n])

\* What holds of all commit points.
Commits == \A n \in Node : PointAt(n)

-----------------------------------------------------------------------------
(***************************************************************************)
(* Majorities, sequences and optimes                                       *)
(***************************************************************************)

\* What the proofs need to know of finite sets: majorities of the members, and sets
\* of places, without a gap or with one.  It is a hypothesis of the lemmas up to the theorems of
\* CommitPointProofs, where it is shown to hold (CountingHolds).
Counting ==
    /\ \A S, T \in SUBSET Node : Maj(S) /\ Maj(T) => \E v \in S : v \in T
    /\ \A S, T \in SUBSET Node : Maj(S) /\ S \subseteq T => Maj(T)
    /\ \A n \in Node : Maj(Node)
    /\ \A S \in SUBSET Node : Cardinality(S) >= WriteMajority => Maj(S)
    /\ \A n \in Nat : \A S \in SUBSET (1 .. n) :
          (\A i \in S : \A j \in 1 .. i : j \in S) =>
             Cardinality(S) \in 0 .. n /\ S = 1 .. Cardinality(S)
    /\ \A n \in Nat : \A S \in SUBSET (1 .. n) : Cardinality(S) \in 0 .. n

\* Two majorities have a member in common.
LEMMA MajoritiesMeet ==
    ASSUME Counting, NEW S \in SUBSET Node, NEW T \in SUBSET Node, Maj(S), Maj(T)
    PROVE  \E v \in S : v \in T
  BY Zenon DEF Counting

\* A set of members that contains a majority is one.
LEMMA MajorityGrows ==
    ASSUME Counting, NEW S \in SUBSET Node, NEW T \in SUBSET Node,
           Maj(S), S \subseteq T
    PROVE  Maj(T)
  BY Zenon DEF Counting

\* All members are a majority, if there is one.
LEMMA AllAreMajority ==
    ASSUME Counting, NEW n \in Node
    PROVE  Maj(Node)
  BY Zenon DEF Counting

\* WriteMajority members are a majority.
LEMMA WriteMajorityIs ==
    ASSUME Counting, NEW S \in SUBSET Node, Cardinality(S) >= WriteMajority
    PROVE  Maj(S)
  BY Zenon DEF Counting

\* A set of places with no gap below it is an interval.
LEMMA InitialPlaces ==
    ASSUME Counting, NEW n \in Nat, NEW S \in SUBSET (1 .. n),
           \A i \in S : \A j \in 1 .. i : j \in S
    PROVE  Cardinality(S) \in 0 .. n /\ S = 1 .. Cardinality(S)
  BY Zenon DEF Counting

\* The beginning of a sequence.
LEMMA Beginning ==
    ASSUME NEW S, NEW s \in Seq(S), NEW k \in 0 .. Len(s)
    PROVE  /\ SubSeq(s, 1, k) \in Seq(S)
           /\ Len(SubSeq(s, 1, k)) = k
           /\ \A i \in 1 .. k : SubSeq(s, 1, k)[i] = s[i]
           /\ Begins(SubSeq(s, 1, k), s)
  BY DEF Begins

\* An entry more.
LEMMA Appended ==
    ASSUME NEW S, NEW s \in Seq(S), NEW e \in S
    PROVE  /\ Append(s, e) \in Seq(S)
           /\ Len(Append(s, e)) = Len(s) + 1
           /\ \A k \in 1 .. Len(s) : Append(s, e)[k] = s[k]
           /\ Append(s, e)[Len(s) + 1] = e
           /\ Begins(s, Append(s, e))
  BY DEF Begins

\* Entries are terms.
LEMMA Entry ==
    ASSUME NEW s \in Seq(Terms), NEW i \in 1 .. Len(s)
    PROVE  s[i] \in Terms /\ s[i] \in Nat /\ 1 <= s[i] /\ s[i] <= MaxTerm
  BY CommitPointAssumption DEF Terms

\* What Agree says at two places.
LEMMA AgreeAt ==
    ASSUME NEW r \in Seq(Terms), NEW s \in Seq(Terms), Agree(r, s),
           NEW i \in 1 .. Len(r), NEW j \in 1 .. Len(s), i <= j, r[i] = s[j]
    PROVE  i <= Len(s) /\ \A k \in 1 .. i : r[k] = s[k]
  BY DEF Agree

\* A beginning of an oplog has its shape.
LEMMA BeginsMono ==
    ASSUME NEW r \in Seq(Terms), NEW s \in Seq(Terms), Begins(r, s), Mono(s)
    PROVE  Mono(r)
  BY DEF Begins, Mono

\* Beginnings of oplogs that agree do.
LEMMA BeginsAgree ==
    ASSUME NEW r \in Seq(Terms), NEW s \in Seq(Terms),
           NEW p \in Seq(Terms), NEW q \in Seq(Terms),
           Begins(p, r), Begins(q, s), Agree(r, s)
    PROVE  Agree(p, q)
<1> SUFFICES ASSUME NEW i \in 1 .. Len(p), NEW j \in 1 .. Len(q), i <= j, p[i] = q[j],
                    NEW k \in 1 .. i
             PROVE  p[k] = q[k]
  BY DEF Agree
<1>1. i \in 1 .. Len(r) /\ j \in 1 .. Len(s) /\ r[i] = s[j]
  BY DEF Begins
<1>2. r[k] = s[k]
  BY <1>1 DEF Agree
<1> QED BY <1>2 DEF Begins

\* A beginning of a beginning is one.
LEMMA BeginsBegins ==
    ASSUME NEW r \in Seq(Terms), NEW s \in Seq(Terms), NEW p \in Seq(Terms),
           Begins(p, r), Begins(r, s)
    PROVE  Begins(p, s)
  BY DEF Begins

\* An oplog begins itself, and agrees with itself.
LEMMA BeginsRefl ==
    ASSUME NEW r \in Seq(Terms)
    PROVE  Begins(r, r) /\ Agree(r, r)
  BY DEF Begins, Agree

\* Oplogs agree with one to which an entry of term e is added, if it has all
\* entries of the term.
LEMMA AddedAgrees ==
    ASSUME NEW r \in Seq(Terms), NEW s \in Seq(Terms), NEW e \in Terms, Agree(r, s),
           \A j \in 1 .. Len(s) : s[j] = e => j <= Len(r)
    PROVE  Agree(Append(r, e), s)
<1> SUFFICES ASSUME NEW i \in 1 .. Len(Append(r, e)), NEW j \in 1 .. Len(s), i <= j,
                    Append(r, e)[i] = s[j]
             PROVE  \A k \in 1 .. i : Append(r, e)[k] = s[k]
  BY DEF Agree
<1>1. /\ Len(Append(r, e)) = Len(r) + 1 /\ Len(r) \in Nat
      /\ \A k \in 1 .. Len(r) : Append(r, e)[k] = r[k]
      /\ Append(r, e)[Len(r) + 1] = e
  BY Appended
<1>2. i \in 1 .. Len(r)
  BY <1>1
<1>3. \A k \in 1 .. i : r[k] = s[k]
  BY <1>1, <1>2, AgreeAt
<1> QED BY <1>1, <1>2, <1>3

\* The converse: the oplog with the added entry agrees with others.
LEMMA AgreesWithAdded ==
    ASSUME NEW r \in Seq(Terms), NEW s \in Seq(Terms), NEW e \in Terms, Agree(s, r),
           \A j \in 1 .. Len(s) : s[j] = e => j <= Len(r) /\ r[j] = e
    PROVE  Agree(s, Append(r, e))
<1> SUFFICES ASSUME NEW i \in 1 .. Len(s), NEW j \in 1 .. Len(Append(r, e)), i <= j,
                    s[i] = Append(r, e)[j]
             PROVE  \A k \in 1 .. i : s[k] = Append(r, e)[k]
  BY DEF Agree
<1>1. /\ Len(Append(r, e)) = Len(r) + 1 /\ Len(r) \in Nat
      /\ \A k \in 1 .. Len(r) : Append(r, e)[k] = r[k]
      /\ Append(r, e)[Len(r) + 1] = e
  BY Appended
<1>2. PICK z \in 1 .. Len(r) : i <= z /\ s[i] = r[z]
  <2>1. CASE j <= Len(r)
    BY <1>1, <2>1
  <2>2. CASE j = Len(r) + 1
    BY <1>1, <2>2
  <2> QED BY <1>1, <2>1, <2>2
<1>3. i <= Len(r) /\ \A k \in 1 .. i : s[k] = r[k]
  BY Zenon, <1>2, AgreeAt
<1> QED BY <1>1, <1>3

\* What an oplog has, its continuations have.
LEMMA SameHas ==
    ASSUME NEW r \in Seq(Terms), NEW s \in Seq(Terms), NEW d \in Nat, NEW e \in Nat,
           NEW t, NEW i, d <= e, \A k \in 1 .. d : s[k] = r[k], Has(r, d, t, i)
    PROVE  Has(s, e, t, i)
  BY DEF Has

\* The parts of an optime.
LEMMA OpTimeParts ==
    ASSUME NEW c \in OpTimes
    PROVE  /\ c[1] \in Nat /\ c[2] \in Nat /\ c[1] <= MaxTerm /\ c[2] <= MaxLen
           /\ c[1] = 0 => c = Null
           /\ c[1] > 0 => c \in Terms \X Places
           /\ c = <<c[1], c[2]>>
  BY CommitPointAssumption DEF OpTimes, Null, Terms, Places

\* The optime of a place is one, with the term of the entry and the place.
LEMMA OpTimeAtParts ==
    ASSUME NEW s \in Seq(Terms), Len(s) <= MaxLen, NEW i \in 0 .. Len(s)
    PROVE  /\ OpTimeAt(s, i) \in OpTimes
           /\ i = 0 => OpTimeAt(s, i)[1] = 0
           /\ i > 0 => OpTimeAt(s, i)[1] = s[i] /\ s[i] \in Terms
           /\ OpTimeAt(s, i)[2] = i
  BY CommitPointAssumption DEF OpTimes, Null, Terms, OpTimeAt

\* The last optime of an oplog, and those of its entries.
LEMMA LastOpParts ==
    ASSUME NEW s \in Seq(Terms), Len(s) <= MaxLen, Mono(s)
    PROVE  /\ LastOp(s) \in OpTimes
           /\ Len(s) = 0 => LastOp(s)[1] = 0
           /\ Len(s) > 0 => LastOp(s)[1] = s[Len(s)] /\ s[Len(s)] \in Terms
           /\ LastOp(s)[2] = Len(s)
           /\ \A i \in 1 .. Len(s) :
                 s[i] <= LastOp(s)[1] /\ AtLeast(LastOp(s), <<s[i], i>>)
<1>1. Len(s) \in Nat /\ Len(s) \in 0 .. Len(s)
  OBVIOUS
<1>2. /\ LastOp(s) \in OpTimes
      /\ Len(s) = 0 => LastOp(s)[1] = 0
      /\ Len(s) > 0 => LastOp(s)[1] = s[Len(s)] /\ s[Len(s)] \in Terms
      /\ LastOp(s)[2] = Len(s)
  BY <1>1, OpTimeAtParts DEF LastOp
<1>3. ASSUME NEW i \in 1 .. Len(s)
      PROVE  s[i] <= LastOp(s)[1] /\ AtLeast(LastOp(s), <<s[i], i>>)
  <2>1. s[i] <= s[Len(s)] /\ s[i] \in Nat /\ s[Len(s)] \in Nat /\ Len(s) > 0
    BY <1>3, Entry DEF Mono
  <2> QED BY <1>2, <1>3, <2>1 DEF AtLeast, Less
<1> QED BY <1>2, <1>3

\* Places up to a are places up to b.
LEMMA PlacesUpTo ==
    ASSUME NEW a \in Nat, NEW b \in Nat, a <= b, NEW x \in 1 .. a
    PROVE  x \in 1 .. b /\ x \in 0 .. b /\ x \in Nat /\ x <= b /\ x <= a /\ x \in 1 .. x
  OBVIOUS

\* A place that is not after b is a place up to b.
LEMMA PlaceWithin ==
    ASSUME NEW a \in Nat, NEW b \in Nat, NEW x \in 1 .. a, x <= b
    PROVE  x \in 1 .. b
  OBVIOUS

\* All places but the last.
LEMMA PlaceBefore ==
    ASSUME NEW a \in Nat, NEW x \in 1 .. a + 1, x # a + 1
    PROVE  x \in 1 .. a /\ x <= a
  OBVIOUS

\* Numbers are ordered.
LEMMA Ordered ==
    ASSUME NEW a \in Nat, NEW b \in Nat
    PROVE  a <= a /\ (a >= b \/ a < b)
  OBVIOUS

\* Majorities of n members, as numbers.
LEMMA MajorityNumbers ==
    ASSUME NEW n \in Nat, NEW a \in Nat
    PROVE  /\ a >= n \div 2 + 1 => 2 * a > n
           /\ n # 0 => 2 * n > n
           /\ \A b \in Nat : 2 * a > n /\ a <= b => 2 * b > n
           /\ \A b \in Nat : 2 * a > n /\ 2 * b > n => a + b > n
  OBVIOUS

\* A set of places that has just those up to k.
LEMMA PlacesAre ==
    ASSUME NEW n \in Nat, NEW S \in SUBSET (1 .. n), NEW k \in Nat, k <= n,
           \A i \in S : i <= k, \A i \in 1 .. k : i \in S
    PROVE  k \in 0 .. n /\ S = 1 .. k
<1>1. ASSUME NEW i \in S PROVE i \in 1 .. k
  BY <1>1
<1>2. S = 1 .. k
  BY Zenon, <1>1
<1> QED BY <1>2

\* A set of places with no gap below it and without k ends before k.
LEMMA PlacesBelow ==
    ASSUME NEW n \in Nat, NEW S \in SUBSET (1 .. n), NEW c \in Nat, NEW k \in 1 .. c,
           k \notin S, \A i \in S : \A j \in 1 .. i : j \in S
    PROVE  S \in SUBSET (1 .. (k - 1)) /\ k - 1 \in Nat /\ ~(c <= k - 1)
  OBVIOUS

\* Oplogs that have the entries of one history: the shorter begins the longer.
LEMMA SameBeginning ==
    ASSUME NEW r \in Seq(Terms), NEW s \in Seq(Terms), NEW h \in Seq(Terms),
           Len(r) <= Len(s), \A x \in 1 .. Len(r) : r[x] = h[x],
           \A x \in 1 .. Len(s) : s[x] = h[x]
    PROVE  Begins(r, s)
  BY DEF Begins

\* The beginning of an oplog up to c, and its last optime.
LEMMA Cut ==
    ASSUME NEW r \in Seq(Terms), Len(r) <= MaxLen, NEW c \in 0 .. Len(r)
    PROVE  /\ SubSeq(r, 1, c) \in Seq(Terms) /\ Len(SubSeq(r, 1, c)) = c
           /\ Begins(SubSeq(r, 1, c), r)
           /\ \A k \in 1 .. c : SubSeq(r, 1, c)[k] = r[k] /\ k \in 1 .. Len(r)
           /\ c \in 0 .. MaxLen /\ c <= MaxLen /\ c <= c
           /\ OpTimeAt(SubSeq(r, 1, c), c) \in OpTimes
<1>1. /\ SubSeq(r, 1, c) \in Seq(Terms) /\ Len(SubSeq(r, 1, c)) = c
      /\ Begins(SubSeq(r, 1, c), r)
      /\ \A k \in 1 .. c : SubSeq(r, 1, c)[k] = r[k]
  BY Beginning
<1>2. /\ c \in 0 .. MaxLen /\ c <= MaxLen /\ c <= c /\ c \in 0 .. c
      /\ \A k \in 1 .. c : k \in 1 .. Len(r)
  BY CommitPointAssumption
<1> QED BY Zenon, <1>1, <1>2, OpTimeAtParts

\* Of two oplogs the one with the later last optime has the later last entry.
LEMMA LastOpOrder ==
    ASSUME NEW r \in Seq(Terms), NEW s \in Seq(Terms), Len(r) # 0,
           Less(LastOp(r), LastOp(s))
    PROVE  /\ Len(s) \in 1 .. Len(s) /\ r[Len(r)] \in Nat /\ s[Len(s)] \in Nat
           /\ \/ r[Len(r)] < s[Len(s)]
              \/ r[Len(r)] = s[Len(s)] /\ Len(r) <= Len(s)
<1>1. Len(r) \in Nat /\ Len(s) \in Nat /\ Len(r) \in 1 .. Len(r)
  OBVIOUS
<1>2. r[Len(r)] \in Nat /\ LastOp(r) = <<r[Len(r)], Len(r)>>
  BY <1>1, Entry DEF LastOp, OpTimeAt
<1>3. Len(s) # 0
  BY <1>2 DEF LastOp, OpTimeAt, Null, Less
<1>4. Len(s) \in 1 .. Len(s)
  BY <1>1, <1>3
<1>5. s[Len(s)] \in Nat /\ LastOp(s) = <<s[Len(s)], Len(s)>>
  BY <1>3, <1>4, Entry DEF LastOp, OpTimeAt
<1> QED BY <1>1, <1>2, <1>4, <1>5 DEF Less

\* Two oplogs with an entry of one term share one of that term.
LEMMA Overlap ==
    ASSUME NEW r \in Seq(Terms), NEW s \in Seq(Terms), Agree(r, s), Agree(s, r),
           NEW t, NEW i \in Nat, Has(r, Len(r), t, i), Has(s, Len(s), t, i)
    PROVE  \E q \in 1 .. Len(r) : q <= Len(s) /\ i <= q /\ r[q] = t /\ s[q] = r[q]
<1>1. PICK k \in 1 .. Len(r) : i <= k /\ r[k] = t
  BY DEF Has
<1>2. PICK x \in 1 .. Len(s) : i <= x /\ s[x] = t
  BY DEF Has
<1>3. CASE k <= x
  BY <1>1, <1>2, <1>3, AgreeAt
<1>4. CASE x <= k
  BY <1>1, <1>2, <1>4, AgreeAt
<1> QED BY <1>3, <1>4

\* An oplog and at most one entry more of another that it begins.
LEMMA Extended ==
    ASSUME NEW r \in Seq(Terms), NEW s \in Seq(Terms), Begins(r, s),
           NEW k \in {0, 1}, Len(r) + k <= Len(s)
    PROVE  \E e \in Seq(Terms) :
              /\ e = r \o SubSeq(s, Len(r) + 1, Len(r) + k)
              /\ Begins(r, e) /\ Begins(e, s)
              /\ Len(e) \in Nat /\ Len(e) <= Len(r) + 1
<1> DEFINE q == SubSeq(s, Len(r) + 1, Len(r) + k)
           e == r \o q
<1>1. Len(r) \in Nat /\ Len(s) \in Nat
  OBVIOUS
<1>2. /\ q \in Seq(Terms) /\ Len(q) = k
      /\ \A i \in 1 .. k : q[i] = s[Len(r) + i]
  BY <1>1
<1> HIDE DEF q
<1>3. /\ e \in Seq(Terms) /\ Len(e) = Len(r) + k
      /\ \A i \in 1 .. Len(r) : e[i] = r[i]
      /\ \A i \in 1 .. k : e[Len(r) + i] = s[Len(r) + i]
  BY <1>1, <1>2
<1> HIDE DEF e
<1>4. Begins(r, e)
  BY <1>1, <1>3 DEF Begins
<1>5. \A i \in 1 .. Len(e) : e[i] = s[i]
  <2> SUFFICES ASSUME NEW i \in 1 .. Len(e) PROVE e[i] = s[i]
    OBVIOUS
  <2>1. CASE i <= Len(r)
    BY <1>1, <1>3, <2>1 DEF Begins
  <2>2. CASE i = Len(r) + 1 /\ k = 1
    BY <1>1, <1>3, <2>2
  <2> QED BY <1>1, <1>3, <2>1, <2>2
<1>6. Begins(e, s) /\ Len(e) \in Nat /\ Len(e) <= Len(r) + 1
  BY <1>1, <1>3, <1>5 DEF Begins
<1> QED BY Zenon, <1>3, <1>4, <1>6 DEF e, q

\* An oplog that ends in the term in which a longer one does begins that one.
LEMMA SameTermBegins ==
    ASSUME NEW r \in Seq(Terms), NEW s \in Seq(Terms), Agree(r, s), Len(r) # 0,
           Len(r) <= Len(s), r[Len(r)] = s[Len(s)]
    PROVE  Begins(r, s)
  BY AgreeAt DEF Begins

\* What an optime covers of an oplog whose terms do not decrease is not after it.
LEMMA CoveredBefore ==
    ASSUME NEW c \in OpTimes, NEW t \in Nat, NEW a \in Nat, NEW x \in 1 .. a,
           AtLeast(c, <<t, x>>), c[2] <= x => c[1] <= t
    PROVE  x \in 1 .. c[2]
<1>1. c[1] \in Nat /\ c[2] \in Nat
  BY OpTimeParts
<1> QED BY <1>1 DEF AtLeast, Less

\* No optime covers a place after it in its term or a later one.
LEMMA NotCovered ==
    ASSUME NEW c \in OpTimes, NEW t \in Nat, c[1] <= t
    PROVE  ~AtLeast(c, <<t, c[2] + 1>>)
<1>1. c[1] \in Nat /\ c[2] \in Nat
  BY OpTimeParts
<1> QED BY <1>1 DEF AtLeast, Less

\* An optime covers the beginning of an oplog.
LEMMA CoveredPart ==
    ASSUME Counting, NEW s \in Seq(Terms), Len(s) <= MaxLen, Mono(s), NEW c \in OpTimes
    PROVE  \E k \in 0 .. Len(s) :
              /\ Covered(s, c) = SubSeq(s, 1, k)
              /\ \A i \in 1 .. Len(s) : i <= k <=> AtLeast(c, <<s[i], i>>)
<1> DEFINE C == {i \in 1 .. Len(s) : s[i] < c[1] \/ (s[i] = c[1] /\ i <= c[2])}
<1>1. Len(s) \in Nat /\ c[1] \in Nat /\ c[2] \in Nat
  BY OpTimeParts
<1>2. \A i \in C : \A j \in 1 .. i : j \in C
  <2> SUFFICES ASSUME NEW i \in C, NEW j \in 1 .. i PROVE j \in C
    OBVIOUS
  <2>1. j \in 1 .. Len(s) /\ s[j] <= s[i] /\ s[j] \in Nat /\ s[i] \in Nat
    BY Entry DEF Mono, C
  <2> QED BY <1>1, <2>1
<1>3. C \in SUBSET (1 .. Len(s))
  OBVIOUS
<1> DEFINE k == Cardinality(C)
<1> HIDE DEF C
<1>4. k \in 0 .. Len(s) /\ C = 1 .. k
  BY <1>1, <1>2, <1>3, InitialPlaces
<1>5. Covered(s, c) = SubSeq(s, 1, k)
  BY DEF Covered, C
<1> HIDE DEF k
<1>6. ASSUME NEW i \in 1 .. Len(s) PROVE i <= k <=> AtLeast(c, <<s[i], i>>)
  <2>1. i <= k <=> i \in C
    BY <1>4, <1>6
  <2>2. i \in C <=> (s[i] < c[1] \/ (s[i] = c[1] /\ i <= c[2]))
    BY DEF C
  <2>3. s[i] \in Nat
    BY Entry
  <2>4. AtLeast(c, <<s[i], i>>) <=> (s[i] < c[1] \/ (s[i] = c[1] /\ i <= c[2]))
    BY <1>1, <1>6, <2>3 DEF AtLeast, Less
  <2> QED BY <2>1, <2>2, <2>4
<1> QED BY <1>4, <1>5, <1>6

-----------------------------------------------------------------------------
(***************************************************************************)
(* What the steps have in common                                           *)
(***************************************************************************)

\* Votes only move forward.
VotesAt(v) == vote[v] <= vote'[v] /\ vote'[v] <= term'[v]

\* Member v sends position op in term t, and nothing else.
Sends(v, op, t) ==
    reported'[v] = [u \in Terms |-> IF u >= t /\ Less(reported[v][u], op)
                                    THEN op ELSE reported[v][u]]

\* A member whose position or term changes sends it.
ReportsAt(v) ==
    \/ /\ term'[v] = term[v]
       /\ reported'[v] = reported[v]
       /\ OpTimeAt(log'[v], durable'[v]) = OpTimeAt(log[v], durable[v])
    \/ Sends(v, OpTimeAt(log'[v], durable'[v]), term'[v])

\* Only primaries add entries of their own; all others come from an oplog.
LogsAt(v) ==
    \/ \E w \in Node : Begins(log'[v], log[w])
    \/ /\ Leader(v)
       /\ log'[v] = Append(log[v], term[v])
       /\ term'[v] = term[v]
       /\ role'[v] \in {"draining", "primary"}

\* Entries are not ahead of the term.
TermsAt(v) == \A i \in 1 .. Len(log'[v]) : log'[v][i] <= term'[v]

\* A primary was one before, or has just been elected; it keeps its oplog.
LeadersAt(v) ==
    role'[v] # "secondary" =>
       /\ Begins(log[v], log'[v])
       /\ \/ /\ Leader(v)
             /\ term'[v] = term[v]
             /\ role'[v] = "catchup" => role[v] = "catchup"
          \/ \E Q \in SUBSET Node : WinElection(v, Q)

\* A primary that has drained has an entry of its term at the end.
DrainedAt(v) ==
    role'[v] \in {"draining", "primary"} =>
       Len(log'[v]) > 0 /\ log'[v][Len(log'[v])] = term'[v]

\* Journals keep what a majority may have reported.
JournalsAt(v) ==
    \A t \in Terms : \A i \in Places :
       MayCommit(t, i) /\ Has(log[v], durable[v], t, i)
          => Has(log'[v], durable'[v], t, i)

\* What a step does to a member, ...
StepAt(v) == /\ VotesAt(v) /\ ReportsAt(v) /\ LogsAt(v) /\ TermsAt(v)
             /\ LeadersAt(v) /\ DrainedAt(v) /\ JournalsAt(v)

\* ... each part of it for all members, ...
StepVotes == \A v \in Node : VotesAt(v)
StepReports == \A v \in Node : ReportsAt(v)
StepLogs == \A v \in Node : LogsAt(v)
StepTerms == \A v \in Node : TermsAt(v)
StepLeaders == \A v \in Node : LeadersAt(v)
StepDrained == \A v \in Node : DrainedAt(v)
StepJournals == \A v \in Node : JournalsAt(v)

\* A primary commits operations of its own term that a majority has reported.
CommitsAt(n, i) ==
    /\ Leader(n)
    /\ i <= Len(log[n])
    /\ log[n][i] = term[n]
    /\ log' = log /\ term' = term /\ role'[n] # "secondary"
    /\ Maj({v \in Node : AtLeast(reported'[v][term[n]], <<term[n], i>>)})

\* ... and what it does to the history.
StepHistory ==
    \/ history' = history
    \/ \E n \in Node : \E i \in Places :
          CommitsAt(n, i) /\ history' = SubSeq(log[n], 1, i)

\* The types of the variables.
LEMMA Types ==
    ASSUME TypeOK, NEW n \in Node
    PROVE  /\ log[n] \in Seq(Terms) /\ Len(log[n]) \in Nat /\ Len(log[n]) <= MaxLen
           /\ durable[n] \in 0 .. Len(log[n]) /\ durable[n] \in Nat
           /\ role[n] \in Roles
           /\ term[n] \in Terms /\ term[n] \in Nat
           /\ vote[n] \in Terms /\ vote[n] \in Nat
           /\ commit[n] \in OpTimes
           /\ \A t \in Terms : reported[n][t] \in OpTimes
<1>1. log[n] \in Seq(Terms) /\ Len(log[n]) \in Nat
  BY DEF TypeOK
<1>2. Len(log[n]) <= MaxLen /\ durable[n] \in 0 .. Len(log[n]) /\ durable[n] \in Nat
  BY <1>1, CommitPointAssumption DEF TypeOK
<1>3. term[n] \in Terms /\ vote[n] \in Terms
  BY DEF TypeOK
<1>4. term[n] \in Nat /\ vote[n] \in Nat
  BY <1>3, CommitPointAssumption DEF Terms
<1> QED BY <1>1, <1>2, <1>3, <1>4 DEF TypeOK

\* Their types after a step.
LEMMA TypesNext ==
    ASSUME TypeOK', NEW n \in Node
    PROVE  /\ log'[n] \in Seq(Terms) /\ Len(log'[n]) \in Nat /\ Len(log'[n]) <= MaxLen
           /\ durable'[n] \in 0 .. Len(log'[n]) /\ durable'[n] \in Nat
           /\ role'[n] \in Roles
           /\ term'[n] \in Terms /\ term'[n] \in Nat
           /\ vote'[n] \in Terms /\ vote'[n] \in Nat
           /\ commit'[n] \in OpTimes
           /\ \A t \in Terms : reported'[n][t] \in OpTimes
<1>1. log'[n] \in Seq(Terms) /\ Len(log'[n]) \in Nat
  BY DEF TypeOK
<1>2. Len(log'[n]) <= MaxLen /\ durable'[n] \in 0 .. Len(log'[n]) /\ durable'[n] \in Nat
  BY <1>1, CommitPointAssumption DEF TypeOK
<1>3. term'[n] \in Terms /\ vote'[n] \in Terms
  BY DEF TypeOK
<1>4. term'[n] \in Nat /\ vote'[n] \in Nat
  BY <1>3, CommitPointAssumption DEF Terms
<1> QED BY <1>1, <1>2, <1>3, <1>4 DEF TypeOK

\* Sent positions only move forward, and are sent in the term of the member.
LEMMA ReportsAre ==
    ASSUME TypeOK, TypeOK', StepReports, NEW v \in Node, NEW t \in Terms
    PROVE  /\ \A c \in OpTimes : AtLeast(reported[v][t], c) => AtLeast(reported'[v][t], c)
           /\ \/ reported'[v][t] = reported[v][t]
              \/ term'[v] <= t /\ reported'[v][t] = OpTimeAt(log'[v], durable'[v])
<1> DEFINE p == OpTimeAt(log'[v], durable'[v])
<1>0. reported[v][t] \in OpTimes /\ reported'[v][t] \in OpTimes /\ term'[v] \in Nat
  BY Zenon, Types, TypesNext
<1>1. /\ reported[v][t] \in OpTimes /\ reported'[v][t] \in OpTimes
      /\ term'[v] \in Nat /\ t \in Nat
  BY <1>0, CommitPointAssumption DEF Terms
<1>2. \/ reported'[v][t] = reported[v][t]
      \/ t >= term'[v] /\ Less(reported[v][t], p) /\ reported'[v][t] = p
  <2> HIDE DEF p
  <2>1. reported'[v] = reported[v] \/ Sends(v, p, term'[v])
    BY Zenon DEF StepReports, ReportsAt, p
  <2> QED BY <2>1 DEF Sends
<1>3. ASSUME NEW c \in OpTimes, AtLeast(reported[v][t], c)
      PROVE  AtLeast(reported'[v][t], c)
  <2>1. CASE reported'[v][t] = reported[v][t]
    BY <1>3, <2>1
  <2>2. CASE Less(reported[v][t], reported'[v][t])
    <3>1. /\ c[1] \in Nat /\ c[2] \in Nat
          /\ reported[v][t][1] \in Nat /\ reported[v][t][2] \in Nat
          /\ reported'[v][t][1] \in Nat /\ reported'[v][t][2] \in Nat
      BY <1>1, OpTimeParts
    <3> QED BY <1>3, <2>2, <3>1 DEF AtLeast, Less
  <2> QED BY <1>2, <2>1, <2>2
<1> QED BY <1>1, <1>2, <1>3

\* A term and a place are an optime.
LEMMA PlaceOpTime ==
    ASSUME NEW t \in Terms, NEW i \in Places
    PROVE  <<t, i>> \in OpTimes /\ t \in Nat /\ i \in Nat /\ 0 < t /\ 0 < i
  BY CommitPointAssumption DEF OpTimes, Terms, Places

\* Who has reported an optime has reported it.
LEMMA ReportersGrow ==
    ASSUME TypeOK, TypeOK', StepReports, NEW t \in Terms, NEW i \in Places
    PROVE  Reporters(t, i) \subseteq Reporters(t, i)'
  BY ReportsAre, PlaceOpTime DEF Reporters

\* What a majority may have reported, it may have reported before.
LEMMA MayCommitBefore ==
    ASSUME Counting, TypeOK, TypeOK', StepReports, StepVotes,
           NEW t \in Terms, NEW i \in Places, MayCommit(t, i)'
    PROVE  MayCommit(t, i)
<1> DEFINE S == {v \in Node : vote'[v] <= t}
                  \cup {v \in Node : AtLeast(reported'[v][t], <<t, i>>)}
           T == {v \in Node : vote[v] <= t}
                  \cup {v \in Node : AtLeast(reported[v][t], <<t, i>>)}
<1>1. Maj(S) /\ S \in SUBSET Node /\ T \in SUBSET Node
  BY DEF MayCommit, Maj, Reporters
<1>2. ASSUME NEW v \in S PROVE v \in T
  <2>1. v \in Node /\ vote[v] \in Nat /\ vote'[v] \in Nat /\ term'[v] \in Nat /\ t \in Nat
    BY Types, TypesNext, CommitPointAssumption DEF Terms
  <2>2. vote[v] <= vote'[v] /\ vote'[v] <= term'[v]
    BY <2>1 DEF StepVotes, VotesAt
  <2>3. CASE vote'[v] <= t
    BY <2>1, <2>2, <2>3
  <2>4. CASE AtLeast(reported'[v][t], <<t, i>>)
    <3>1. reported'[v][t] = reported[v][t] \/ term'[v] <= t
      BY <2>1, ReportsAre
    <3> QED BY <2>1, <2>2, <2>4, <3>1
  <2> QED BY Zenon, <2>3, <2>4
<1> HIDE DEF S, T
<1>3. Maj(T)
  BY <1>1, <1>2, MajorityGrows
<1> QED BY <1>3 DEF MayCommit, T, Reporters

-----------------------------------------------------------------------------
(***************************************************************************)
(* Elections and oplogs                                                    *)
(***************************************************************************)

\* The voters of an election are a majority, and none has voted in its term or
\* in a later one.
LEMMA Voters ==
    ASSUME IInv, NEW n \in Node, NEW Q \in SUBSET Node, WinElection(n, Q)
    PROVE  /\ Q \cup {n} \in SUBSET Node /\ Maj(Q \cup {n})
           /\ \A w \in Q \cup {n} : /\ vote[w] <= term[n]
                                    /\ vote'[w] = term[n] + 1
                                    /\ term'[w] = term[n] + 1
                                    /\ role[w] = "secondary"
<1>1. Q \cup {n} \in SUBSET Node /\ Maj(Q \cup {n})
  BY DEF WinElection, Maj
<1>2. ASSUME NEW w \in Q \cup {n}
      PROVE  vote[w] <= term[n] /\ role[w] = "secondary"
  <2>1. w \in Node /\ vote[w] \in Nat /\ term[w] \in Nat /\ term[n] \in Nat
    BY <1>1, <1>2, Types DEF IInv
  <2>2. vote[w] <= term[w]
    BY <2>1 DEF IInv, Terming
  <2>3. CASE w \in Q
    <3>1. role[w] = "secondary" /\ term[w] <= term[n] + 1 /\ vote[w] # term[n] + 1
      BY <2>3 DEF WinElection, GrantsVote
    <3> QED BY <2>1, <2>2, <3>1
  <2>4. CASE w = n
    <3>1. role[n] = "secondary"
      BY Zenon DEF WinElection
    <3> QED BY Zenon, <2>2, <2>4, <3>1
  <2> QED BY <1>2, <2>3, <2>4
<1>3. ASSUME NEW w \in Q \cup {n}
      PROVE  vote'[w] = term[n] + 1 /\ term'[w] = term[n] + 1
  BY <1>1, <1>3 DEF WinElection
<1> QED BY Zenon, <1>1, <1>2, <1>3

\* No majority has voted in the term of an election before it, ...
LEMMA NotPassed ==
    ASSUME Counting, IInv, NEW n \in Node, NEW Q \in SUBSET Node, WinElection(n, Q),
           NEW t \in Nat, t > term[n]
    PROVE  ~Passed(t)
<1> SUFFICES ASSUME Passed(t) PROVE FALSE
  OBVIOUS
<1> DEFINE P == {v \in Node : vote[v] >= t}
<1>1. Maj(P) /\ P \in SUBSET Node
  BY DEF Passed
<1> HIDE DEF P
<1>2. PICK w \in P : w \in Q \cup {n}
  BY Zenon, <1>1, Voters, MajoritiesMeet
<1>3. vote[w] <= term[n]
  BY Zenon, <1>2, Voters
<1> USE DEF P
<1>4. vote[w] >= t /\ vote[w] \in Nat /\ term[n] \in Nat
  BY Zenon, <1>2, Types DEF IInv
<1> QED BY <1>3, <1>4

\* ... so that no oplog has an entry of it and no member is its primary.
LEMMA NewTermIsFresh ==
    ASSUME Counting, IInv, NEW n \in Node, NEW Q \in SUBSET Node, WinElection(n, Q),
           NEW m \in Node
    PROVE  /\ \A j \in 1 .. Len(log[m]) : log[m][j] <= term[n]
           /\ Leader(m) => term[m] <= term[n]
<1>1. /\ log[m] \in Seq(Terms) /\ term[m] \in Nat /\ term[n] \in Nat
  BY Types DEF IInv
<1>2. ASSUME NEW j \in 1 .. Len(log[m]) PROVE log[m][j] <= term[n]
  <2>1. log[m][j] \in Nat
    BY <1>1, <1>2, Entry
  <2>2. Passed(log[m][j])
    BY <1>2 DEF IInv, Voting
  <2> QED BY <1>1, <2>1, <2>2, NotPassed
<1>3. ASSUME Leader(m) PROVE term[m] <= term[n]
  <2>1. Passed(term[m])
    BY <1>3 DEF IInv, Voting
  <2> QED BY <1>1, <2>1, NotPassed
<1> QED BY <1>2, <1>3

\* What a majority may have reported is in the oplog of the one that is elected.
LEMMA ElectedHas ==
    ASSUME Counting, IInv, TypeOK', StepReports, StepVotes,
           NEW n \in Node, NEW Q \in SUBSET Node, WinElection(n, Q),
           NEW t \in Terms, NEW i \in Places, MayCommit(t, i)', t <= term[n]
    PROVE  Has(log[n], Len(log[n]), t, i)
<1>1. MayCommit(t, i) /\ TypeOK
  BY MayCommitBefore DEF IInv
<1> DEFINE S == {v \in Node : vote'[v] <= t}
                  \cup {v \in Node : AtLeast(reported'[v][t], <<t, i>>)}
<1>2. Maj(S) /\ S \in SUBSET Node
  BY DEF MayCommit, Maj, Reporters
<1>3. PICK w \in Q \cup {n} : w \in S
  <2> HIDE DEF S
  <2> QED BY Zenon, <1>2, Voters, MajoritiesMeet
<1>4. /\ w \in Node /\ vote'[w] = term[n] + 1 /\ term'[w] = term[n] + 1
      /\ t \in Nat /\ i \in Nat /\ t >= 1 /\ i >= 1 /\ term[n] \in Nat
  <2>1. w \in Node /\ vote'[w] = term[n] + 1 /\ term'[w] = term[n] + 1
    BY Zenon, <1>3, Voters
  <2>2. term[n] \in Nat
    BY <1>1, Types
  <2>3. t \in Nat /\ i \in Nat /\ 0 < t /\ 0 < i
    BY Zenon, PlaceOpTime
  <2> QED BY <2>1, <2>2, <2>3
<1>5. AtLeast(reported'[w][t], <<t, i>>)
  BY <1>3, <1>4
<1>6. reported'[w][t] = reported[w][t]
  BY <1>1, <1>4, ReportsAre
<1>7. Has(log[w], durable[w], t, i)
  BY Zenon, <1>1, <1>4, <1>5, <1>6 DEF IInv, Reporting, Reporters
<1>8. /\ log[w] \in Seq(Terms) /\ Len(log[w]) \in Nat /\ Len(log[w]) <= MaxLen
      /\ durable[w] \in 0 .. Len(log[w])
      /\ log[n] \in Seq(Terms) /\ Len(log[n]) \in Nat /\ Len(log[n]) <= MaxLen
  BY <1>1, <1>4, Types
<1>9. PICK k \in 1 .. durable[w] : i <= k /\ log[w][k] = t
  BY Zenon, <1>7 DEF Has
<1>10. CASE w = n
  BY <1>8, <1>9, <1>10 DEF Has
<1>11. CASE w # n
  <2>1. AtLeast(LastOp(log[n]), LastOp(log[w]))
    BY Zenon, <1>3, <1>11 DEF WinElection, GrantsVote
  <2>2. Mono(log[w])
    BY <1>4 DEF IInv, Shape
  <2>3. /\ LastOp(log[w])[1] \in Nat /\ LastOp(log[w])[2] = Len(log[w])
        /\ t <= LastOp(log[w])[1]
    <3>1. k \in 1 .. Len(log[w])
      BY <1>8, <1>9
    <3>2. /\ LastOp(log[w]) \in OpTimes /\ LastOp(log[w])[2] = Len(log[w])
          /\ log[w][k] <= LastOp(log[w])[1]
      BY Zenon, <1>8, <2>2, <3>1, LastOpParts
    <3> QED BY Zenon, <1>9, <3>2, OpTimeParts
  <2> DEFINE d == Len(log[n])
  <2>4. d > 0 /\ log[n][d] \in Nat
        /\ (log[n][d] > t \/ (log[n][d] = t /\ d >= Len(log[w])))
    <3>1. /\ LastOp(log[n]) \in OpTimes
          /\ d = 0 => LastOp(log[n])[1] = 0
          /\ d > 0 => LastOp(log[n])[1] = log[n][d] /\ log[n][d] \in Terms
          /\ LastOp(log[n])[2] = d
      BY Zenon, <1>8, LastOpParts DEF IInv, Shape
    <3>2. d > 0 => log[n][d] \in Nat
      BY <3>1, CommitPointAssumption DEF Terms
    <3> HIDE DEF d
    <3>3. d \in Nat
      BY <1>8 DEF d
    <3>4. LastOp(log[n])[1] \in Nat
      BY Zenon, <3>1, OpTimeParts
    <3>5. /\ LastOp(log[n])[1] >= LastOp(log[w])[1]
          /\ LastOp(log[n])[1] > LastOp(log[w])[1]
                \/ LastOp(log[n])[2] >= LastOp(log[w])[2]
      BY <1>8, <2>1, <2>3, <3>1, <3>3, <3>4 DEF AtLeast, Less
    <3> QED BY <1>4, <1>8, <2>3, <3>1, <3>2, <3>3, <3>4, <3>5
  <2>5. CASE log[n][d] > t
    <3>1. \E j \in 1 .. Len(log[n]) : log[n][j] > t
      BY <1>8, <2>4, <2>5
    <3> QED BY Zenon, <1>1, <3>1 DEF IInv, Surviving
  <2>6. CASE log[n][d] = t /\ d >= Len(log[w])
    BY <1>4, <1>8, <1>9, <2>4, <2>6 DEF Has
  <2> QED BY Zenon, <2>4, <2>5, <2>6
<1> QED BY <1>10, <1>11

-----------------------------------------------------------------------------
(***************************************************************************)
(* The steps preserve the invariant                                        *)
(***************************************************************************)

\* The terms of oplogs never fall: a primary logs in its term, which no entry
\* exceeds.
LEMMA NextMono ==
    ASSUME IInv, TypeOK', StepLogs, NEW v \in Node
    PROVE  Mono(log'[v])
<1>0. TypeOK
  BY DEF IInv
<1>1. CASE \E w \in Node : Begins(log'[v], log[w])
  <2>1. PICK w \in Node : Begins(log'[v], log[w])
    BY Zenon, <1>1
  <2>2. Mono(log[w]) /\ log[w] \in Seq(Terms) /\ log'[v] \in Seq(Terms)
    BY <1>0, Types, TypesNext DEF IInv, Shape
  <2> QED BY <2>1, <2>2, BeginsMono
<1>2. CASE log'[v] = Append(log[v], term[v])
  <2>1. Mono(log[v]) /\ log[v] \in Seq(Terms) /\ term[v] \in Terms
    BY Zenon, <1>0, Types DEF IInv, Shape
  <2>2. \A j \in 1 .. Len(log[v]) : log[v][j] <= term[v]
    BY DEF IInv, Terming
  <2>3. /\ Len(log'[v]) = Len(log[v]) + 1 /\ Len(log[v]) \in Nat
        /\ \A k \in 1 .. Len(log[v]) : log'[v][k] = log[v][k]
        /\ log'[v][Len(log[v]) + 1] = term[v]
    BY <1>2, <2>1, Appended
  <2>4. term[v] \in Nat
    BY <1>0, Types
  <2> SUFFICES ASSUME NEW i \in 1 .. Len(log'[v]), NEW j \in 1 .. Len(log'[v]), i <= j
               PROVE  log'[v][i] <= log'[v][j]
    BY DEF Mono
  <2>5. CASE j <= Len(log[v])
    BY <2>1, <2>3, <2>5 DEF Mono
  <2>6. CASE j = Len(log[v]) + 1 /\ i <= Len(log[v])
    BY <2>2, <2>3, <2>6
  <2>7. CASE i = Len(log[v]) + 1
    BY <2>3, <2>4, <2>7
  <2> QED BY <2>3, <2>5, <2>6, <2>7
<1> QED BY <1>1, <1>2 DEF StepLogs, LogsAt

\* A primary alone adds entries of its term, at the end of what there is: oplogs
\* agree with what they were before the step, ...
LEMMA OldAgree ==
    ASSUME IInv, TypeOK', StepLogs, NEW v \in Node, NEW x \in Node
    PROVE  Agree(log'[v], log[x]) /\ Agree(log[x], log'[v])
<1>0. TypeOK
  BY DEF IInv
<1>1. \A y, z \in Node : Agree(log[y], log[z])
  BY Zenon DEF IInv, Shape
<1>2. /\ log'[v] \in Seq(Terms) /\ log[v] \in Seq(Terms) /\ log[x] \in Seq(Terms)
      /\ term[v] \in Terms
  BY Zenon, <1>0, Types, TypesNext
<1>3. ASSUME NEW w \in Node, Begins(log'[v], log[w])
      PROVE  Agree(log'[v], log[x]) /\ Agree(log[x], log'[v])
  <2>1. log[w] \in Seq(Terms)
    BY <1>0, Types
  <2> QED BY Zenon, <1>1, <1>2, <1>3, <2>1, BeginsAgree, BeginsRefl
<1>4. ASSUME Leader(v), log'[v] = Append(log[v], term[v])
      PROVE  Agree(log'[v], log[x]) /\ Agree(log[x], log'[v])
  <2>1. \A j \in 1 .. Len(log[x]) :
           log[x][j] = term[v] => j <= Len(log[v]) /\ log[v][j] = term[v]
    BY <1>4 DEF IInv, Leading
  <2>2. Agree(Append(log[v], term[v]), log[x])
    BY <1>1, <1>2, <2>1, AddedAgrees
  <2>3. Agree(log[x], Append(log[v], term[v]))
    BY Zenon, <1>1, <1>2, <2>1, AgreesWithAdded
  <2> QED BY Zenon, <1>4, <2>2, <2>3
<1> QED BY Zenon, <1>3, <1>4 DEF StepLogs, LogsAt

\* ... and with each other.
LEMMA NextAgree ==
    ASSUME IInv, TypeOK', StepLogs, NEW v \in Node, NEW w \in Node
    PROVE  Agree(log'[v], log'[w])
<1>0. TypeOK
  BY DEF IInv
<1>1. /\ log'[v] \in Seq(Terms) /\ log'[w] \in Seq(Terms)
      /\ log[v] \in Seq(Terms) /\ log[w] \in Seq(Terms)
      /\ term[v] \in Terms /\ term[w] \in Terms
  BY Zenon, <1>0, Types, TypesNext
<1>2. ASSUME NEW x \in Node, Begins(log'[v], log[x]) PROVE Agree(log'[v], log'[w])
  <2>1. log[x] \in Seq(Terms) /\ Agree(log[x], log'[w])
    BY Zenon, <1>0, Types, OldAgree
  <2> QED BY Zenon, <1>1, <1>2, <2>1, BeginsAgree, BeginsRefl
<1>3. ASSUME NEW x \in Node, Begins(log'[w], log[x]) PROVE Agree(log'[v], log'[w])
  <2>1. log[x] \in Seq(Terms) /\ Agree(log'[v], log[x])
    BY <1>0, Types, OldAgree
  <2> QED BY Zenon, <1>1, <1>3, <2>1, BeginsAgree, BeginsRefl
<1>4. CASE v = w
  BY Zenon, <1>1, <1>4, BeginsRefl
<1>5. ASSUME v # w, Leader(v), log'[v] = Append(log[v], term[v]),
             Leader(w), log'[w] = Append(log[w], term[w])
      PROVE  Agree(log'[v], log'[w])
  <2>1. term[v] # term[w]
    BY Zenon, <1>5 DEF IInv, Leading
  <2>2. /\ Len(log'[w]) = Len(log[w]) + 1 /\ Len(log[w]) \in Nat
        /\ \A k \in 1 .. Len(log[w]) : log'[w][k] = log[w][k]
        /\ log'[w][Len(log[w]) + 1] = term[w]
    BY <1>1, <1>5, Appended
  <2>3. ASSUME NEW j \in 1 .. Len(log'[w]), log'[w][j] = term[v] PROVE j <= Len(log[v])
    <3>1. j \in 1 .. Len(log[w]) /\ log[w][j] = term[v]
      BY <2>1, <2>2, <2>3
    <3> QED BY <1>5, <3>1 DEF IInv, Leading
  <2>4. Agree(log[v], log'[w])
    BY OldAgree
  <2>5. Agree(Append(log[v], term[v]), log'[w])
    BY Zenon, <1>1, <2>3, <2>4, AddedAgrees
  <2> QED BY <1>5, <2>5
<1> QED BY Zenon, <1>2, <1>3, <1>4, <1>5 DEF StepLogs, LogsAt

\* An entry was in an oplog before, or its primary adds it.
LEMMA OldOrOwn ==
    ASSUME IInv, TypeOK', StepLogs, NEW v \in Node, NEW i \in 1 .. Len(log'[v])
    PROVE  \/ \E w \in Node : i \in 1 .. Len(log[w]) /\ log'[v][i] = log[w][i]
           \/ /\ Leader(v) /\ log'[v][i] = term[v] /\ term'[v] = term[v]
              /\ role'[v] \in {"draining", "primary"}
<1>0. TypeOK
  BY Zenon DEF IInv
<1>1. ASSUME NEW w \in Node, Begins(log'[v], log[w])
      PROVE  i \in 1 .. Len(log[w]) /\ log'[v][i] = log[w][i]
  BY <1>0, <1>1, Types, TypesNext DEF Begins
<1>2. ASSUME log'[v] = Append(log[v], term[v])
      PROVE  (i \in 1 .. Len(log[v]) /\ log'[v][i] = log[v][i]) \/ log'[v][i] = term[v]
  BY <1>0, <1>2, Types, Appended
<1> QED BY Zenon, <1>1, <1>2 DEF StepLogs, LogsAt

\* A majority that has voted in a term or later has done so.
LEMMA PassedGrows ==
    ASSUME Counting, TypeOK, TypeOK', StepVotes, NEW t \in Nat, Passed(t)
    PROVE  Maj({v \in Node : vote'[v] >= t})
<1> DEFINE S == {v \in Node : vote[v] >= t}
           T == {v \in Node : vote'[v] >= t}
<1>1. Maj(S) /\ S \in SUBSET Node /\ T \in SUBSET Node
  BY Zenon DEF Passed
<1>2. ASSUME NEW v \in S PROVE v \in T
  BY <1>2, Types, TypesNext DEF StepVotes, VotesAt
<1> HIDE DEF S, T
<1>3. Maj(T)
  BY <1>1, <1>2, MajorityGrows
<1> QED BY <1>3 DEF T

\* Primaries and entries have a majority's votes behind them.
LEMMA NextVoting ==
    ASSUME Counting, IInv, TypeOK', StepVotes, StepLogs, StepLeaders
    PROVE  Voting'
<1>0. TypeOK
  BY DEF IInv
<1>1. ASSUME NEW n \in Node, Leader(n) PROVE Maj({v \in Node : vote'[v] >= term[n]})
  <2>1. Passed(term[n]) /\ term[n] \in Nat
    BY <1>0, <1>1, Types DEF IInv, Voting
  <2> QED BY Zenon, <1>0, <2>1, PassedGrows
<1>2. ASSUME NEW n \in Node, role'[n] # "secondary"
      PROVE  Maj({v \in Node : vote'[v] >= term'[n]})
  <2>1. CASE Leader(n) /\ term'[n] = term[n]
    BY <1>1, <2>1
  <2>2. ASSUME NEW Q \in SUBSET Node, WinElection(n, Q)
        PROVE  Maj({v \in Node : vote'[v] >= term'[n]})
    <3> DEFINE T == {v \in Node : vote'[v] >= term'[n]}
    <3>1. Maj(Q \cup {n}) /\ Q \cup {n} \in SUBSET Node
      BY Zenon, <2>2, Voters
    <3>2. \A w \in Q \cup {n} : vote'[w] = term'[n]
      BY Zenon, <2>2, Voters
    <3>3. T \in SUBSET Node /\ Q \cup {n} \subseteq T
      BY <3>1, <3>2, TypesNext
    <3> HIDE DEF T
    <3>4. Maj(T)
      BY <3>1, <3>3, MajorityGrows
    <3> QED BY <3>4 DEF T
  <2> QED BY Zenon, <1>2, <2>1, <2>2 DEF StepLeaders, LeadersAt
<1>3. ASSUME NEW n \in Node, NEW i \in 1 .. Len(log'[n])
      PROVE  Maj({v \in Node : vote'[v] >= log'[n][i]})
  <2>1. ASSUME NEW w \in Node, i \in 1 .. Len(log[w]), log'[n][i] = log[w][i]
        PROVE  Maj({v \in Node : vote'[v] >= log'[n][i]})
    <3>1. log[w][i] \in Nat
      BY Zenon, <1>0, <2>1, Types, Entry
    <3>2. Passed(log[w][i])
      BY Zenon, <2>1 DEF IInv, Voting
    <3>3. Maj({v \in Node : vote'[v] >= log[w][i]})
      BY Zenon, <1>0, <3>1, <3>2, PassedGrows
    <3> QED BY Zenon, <2>1, <3>3
  <2>2. CASE Leader(n) /\ log'[n][i] = term[n]
    BY Zenon, <1>1, <2>2
  <2> QED BY Zenon, <1>3, <2>1, <2>2, OldOrOwn
<1> QED BY Zenon, <1>2, <1>3 DEF Voting, Passed, Leader, Maj

\* A term has one primary, which has all entries of its term.
LEMMA NextLeading ==
    ASSUME Counting, IInv, TypeOK', StepLogs, StepLeaders
    PROVE  Leading'
<1>0. TypeOK
  BY Zenon DEF IInv
<1> DEFINE Old(n) == /\ Leader(n) /\ term'[n] = term[n] /\ Begins(log[n], log'[n])
                     /\ role'[n] = "catchup" => role[n] = "catchup"
           Elected(n) == /\ \A x \in Node : \A j \in 1 .. Len(log[x]) : log[x][j] < term'[n]
                         /\ \A x \in Node : Leader(x) => term[x] < term'[n]
                         /\ \A x \in Node : x # n /\ role'[x] # "secondary" => Leader(x)
                         /\ ~Leader(n)
<1>1. ASSUME NEW n \in Node, NEW Q \in SUBSET Node, WinElection(n, Q)
      PROVE  Elected(n)
  <2>1. term'[n] = term[n] + 1 /\ term[n] \in Nat
    BY Zenon, <1>0, <1>1, Voters, Types
  <2>2. ASSUME NEW x \in Node
        PROVE  /\ \A j \in 1 .. Len(log[x]) : log[x][j] < term'[n]
               /\ Leader(x) => term[x] < term'[n]
    <3>1. /\ \A j \in 1 .. Len(log[x]) : log[x][j] <= term[n]
          /\ Leader(x) => term[x] <= term[n]
      BY Zenon, <1>1, NewTermIsFresh
    <3>2. term[x] \in Nat /\ \A j \in 1 .. Len(log[x]) : log[x][j] \in Nat
      BY Zenon, <1>0, Types, Entry
    <3> QED BY <2>1, <3>1, <3>2
  <2>3. role' = [role EXCEPT ![n] = "catchup"]
    BY Zenon, <1>1 DEF WinElection
  <2>4. /\ \A x \in Node : x # n /\ role'[x] # "secondary" => Leader(x)
        /\ ~Leader(n)
    BY <1>0, <1>1, <2>3 DEF TypeOK, Leader, WinElection
  <2> QED BY <2>2, <2>4
<1>2. ASSUME NEW n \in Node, role'[n] # "secondary" PROVE Old(n) \/ Elected(n)
  BY Zenon, <1>1, <1>2 DEF StepLeaders, LeadersAt
<1>3. ASSUME NEW n \in Node, NEW m \in Node, role'[n] # "secondary",
             role'[m] # "secondary", term'[n] = term'[m]
      PROVE  n = m
  <2>0. term[n] \in Nat /\ term[m] \in Nat /\ term'[n] \in Nat /\ term'[m] \in Nat
    BY <1>0, Types, TypesNext
  <2>1. CASE Old(n) /\ Old(m)
    BY Zenon, <1>3, <2>1 DEF IInv, Leading
  <2>2. CASE Elected(n) /\ Old(m)
    BY <1>3, <2>0, <2>2
  <2>3. CASE Elected(m) /\ Old(n)
    BY <1>3, <2>0, <2>3
  <2>4. CASE Elected(n) /\ Elected(m)
    BY <1>3, <2>4
  <2> QED BY ZenonT(60), <1>2, <1>3, <2>1, <2>2, <2>3, <2>4
<1>4. ASSUME NEW n \in Node, NEW m \in Node, NEW j \in 1 .. Len(log'[m]),
             role'[n] # "secondary", log'[m][j] = term'[n]
      PROVE  role'[n] # "catchup" /\ j <= Len(log'[n]) /\ log'[n][j] = term'[n]
  <2>0. /\ log[n] \in Seq(Terms) /\ log'[n] \in Seq(Terms) /\ term'[n] \in Nat
        /\ log'[m] \in Seq(Terms)
    BY Zenon, <1>0, Types, TypesNext
  <2>1. ASSUME NEW w \in Node, j \in 1 .. Len(log[w]), log'[m][j] = log[w][j]
        PROVE  role'[n] # "catchup" /\ j <= Len(log'[n]) /\ log'[n][j] = term'[n]
    <3>1. CASE Old(n)
      <4>1. role[n] # "catchup" /\ j <= Len(log[n]) /\ log[n][j] = term[n]
        <5>1. log[w][j] = term[n] /\ Leader(n)
          BY Zenon, <1>4, <2>1, <3>1
        <5> QED BY Zenon, <2>1, <5>1 DEF IInv, Leading
      <4>2. Begins(log[n], log'[n]) /\ term'[n] = term[n] /\ role'[n] # "catchup"
        BY Zenon, <3>1, <4>1
      <4>3. j \in 1 .. Len(log[n])
        BY <2>0, <2>1, <4>1
      <4>4. j <= Len(log'[n]) /\ log'[n][j] = log[n][j]
        BY <2>0, <4>2, <4>3 DEF Begins
      <4> QED BY Zenon, <4>1, <4>2, <4>4
    <3>2. CASE Elected(n)
      BY <1>4, <2>0, <2>1, <3>2
    <3> QED BY <1>2, <1>4, <3>1, <3>2
  <2>2. ASSUME log'[m][j] = term[m], term'[m] = term[m],
               role'[m] \in {"draining", "primary"}
        PROVE  role'[n] # "catchup" /\ j <= Len(log'[n]) /\ log'[n][j] = term'[n]
    <3>1. n = m
      <4>1. role'[m] # "secondary" /\ term'[n] = term'[m]
        BY Zenon, <1>4, <2>2
      <4> QED BY Zenon, <1>3, <1>4, <4>1
    <3> QED BY <1>4, <2>0, <2>2, <3>1
  <2> QED BY Zenon, <1>4, <2>1, <2>2, OldOrOwn
<1> HIDE DEF Old, Elected
<1> QED BY <1>3, <1>4 DEF Leading, Leader

\* Positions are sent in their term or later, and what a majority may have reported
\* is in the journals of those who have.
LEMMA NextReporting ==
    ASSUME Counting, IInv, TypeOK', StepVotes, StepReports, StepTerms, StepJournals
    PROVE  Reporting'
<1>0. TypeOK
  BY Zenon DEF IInv
<1>1. ASSUME NEW v \in Node
      PROVE  /\ OpTimeAt(log'[v], durable'[v]) \in OpTimes
             /\ OpTimeAt(log'[v], durable'[v])[1] <= term'[v]
             /\ durable'[v] = 0 => OpTimeAt(log'[v], durable'[v])[1] = 0
             /\ durable'[v] > 0 => OpTimeAt(log'[v], durable'[v])[1] = log'[v][durable'[v]]
             /\ OpTimeAt(log'[v], durable'[v])[2] = durable'[v]
             /\ durable'[v] \in Nat /\ term'[v] \in Nat
  <2>1. /\ log'[v] \in Seq(Terms) /\ Len(log'[v]) <= MaxLen
        /\ durable'[v] \in 0 .. Len(log'[v]) /\ term'[v] \in Nat
    BY Zenon, TypesNext
  <2>2. /\ OpTimeAt(log'[v], durable'[v]) \in OpTimes
        /\ durable'[v] = 0 => OpTimeAt(log'[v], durable'[v])[1] = 0
        /\ durable'[v] > 0 => OpTimeAt(log'[v], durable'[v])[1] = log'[v][durable'[v]]
        /\ OpTimeAt(log'[v], durable'[v])[2] = durable'[v]
    BY <2>1, OpTimeAtParts
  <2>3. durable'[v] > 0 => log'[v][durable'[v]] <= term'[v]
    BY <2>1 DEF StepTerms, TermsAt
  <2> QED BY <2>1, <2>2, <2>3
<1>2. ASSUME NEW v \in Node, NEW t \in Terms PROVE reported'[v][t][1] <= t
  <2>1. /\ reported[v][t][1] <= t
        /\ t \in Nat /\ OpTimeAt(log'[v], durable'[v])[1] \in Nat
    BY <1>1, OpTimeParts, CommitPointAssumption DEF IInv, Reporting, Terms
  <2> QED BY <1>0, <1>1, <2>1, ReportsAre
<1>3. ASSUME NEW v \in Node
      PROVE  AtLeast(reported'[v][term'[v]], OpTimeAt(log'[v], durable'[v]))
  <2>1. /\ AtLeast(reported[v][term[v]], OpTimeAt(log[v], durable[v]))
        /\ term'[v] \in Terms
    BY Zenon, TypesNext DEF IInv, Reporting, Position
  <2>2. CASE /\ term'[v] = term[v] /\ reported'[v] = reported[v]
             /\ OpTimeAt(log'[v], durable'[v]) = OpTimeAt(log[v], durable[v])
    BY Zenon, <2>1, <2>2
  <2>3. CASE Sends(v, OpTimeAt(log'[v], durable'[v]), term'[v])
    <3> DEFINE p == OpTimeAt(log'[v], durable'[v])
    <3>1. p[1] \in Nat /\ p[2] \in Nat /\ term'[v] \in Nat
      BY Zenon, <1>1, OpTimeParts
    <3> HIDE DEF p
    <3>2. reported'[v][term'[v]] = IF Less(reported[v][term'[v]], p) THEN p
                                   ELSE reported[v][term'[v]]
      BY <2>1, <2>3, <3>1 DEF p, Sends
    <3>3. AtLeast(reported'[v][term'[v]], p)
      BY <3>1, <3>2 DEF AtLeast, Less
    <3> QED BY <3>3 DEF p
  <2> QED BY Zenon, <2>2, <2>3 DEF StepReports, ReportsAt
<1>4. ASSUME NEW v \in Node, NEW t \in Terms, NEW i \in Places, MayCommit(t, i)',
             AtLeast(reported'[v][t], <<t, i>>)
      PROVE  Has(log'[v], durable'[v], t, i)
  <2>1. MayCommit(t, i)
    BY Zenon, <1>0, <1>4, MayCommitBefore
  <2>2. CASE reported'[v][t] = reported[v][t]
    <3>1. Has(log[v], durable[v], t, i)
      BY Zenon, <1>4, <2>1, <2>2 DEF IInv, Reporting, Reporters
    <3> QED BY Zenon, <2>1, <3>1 DEF StepJournals, JournalsAt
  <2>3. CASE term'[v] <= t /\ reported'[v][t] = OpTimeAt(log'[v], durable'[v])
    <3>1. t \in Nat /\ i \in Nat /\ 0 < t /\ 0 < i
      BY Zenon, PlaceOpTime
    <3> DEFINE p == OpTimeAt(log'[v], durable'[v])
    <3>2. p[1] \in Nat /\ p[2] \in Nat /\ AtLeast(p, <<t, i>>)
      BY Zenon, <1>1, <1>4, <2>3, OpTimeParts
    <3>3. p[1] <= term'[v] /\ p[2] = durable'[v] /\ term'[v] \in Nat
      BY Zenon, <1>1
    <3> HIDE DEF p
    <3>4. p[1] = t /\ i <= durable'[v]
      BY <2>3, <3>1, <3>2, <3>3 DEF AtLeast, Less
    <3>5. durable'[v] \in Nat /\ durable'[v] > 0 /\ log'[v][durable'[v]] = t
      BY <1>1, <3>1, <3>4 DEF p
    <3> QED BY <3>1, <3>4, <3>5 DEF Has
  <2> QED BY <1>0, <2>2, <2>3, ReportsAre
<1> QED BY <1>2, <1>3, <1>4 DEF Reporting, Reporters, Position

\* Entries and primaries of later terms have what a majority may have reported.
LEMMA NextSurviving ==
    ASSUME Counting, IInv, TypeOK', StepVotes, StepReports, StepLogs, StepLeaders
    PROVE  Surviving'
<1>0. TypeOK
  BY DEF IInv
<1>1. ASSUME NEW v \in Node, NEW t \in Terms, NEW i \in Places, MayCommit(t, i)
      PROVE  /\ \A k \in 1 .. Len(log[v]) : log[v][k] > t => Has(log[v], Len(log[v]), t, i)
             /\ Leader(v) /\ term[v] > t => Has(log[v], Len(log[v]), t, i)
  BY Zenon, <1>1 DEF IInv, Surviving
<1>2. ASSUME NEW v \in Node, NEW t \in Terms, NEW i \in Places, MayCommit(t, i)',
             NEW k \in 1 .. Len(log'[v]), log'[v][k] > t
      PROVE  Has(log'[v], Len(log'[v]), t, i)
  <2>1. /\ log'[v] \in Seq(Terms) /\ Len(log'[v]) \in Nat
        /\ log[v] \in Seq(Terms) /\ Len(log[v]) \in Nat /\ term[v] \in Terms
    BY <1>0, Types, TypesNext
  <2>2. t \in Nat /\ i \in Nat /\ 0 < i
    BY Zenon, PlaceOpTime
  <2>3. MayCommit(t, i)
    BY <1>0, <1>2, MayCommitBefore
  <2>4. ASSUME NEW w \in Node, Begins(log'[v], log[w])
        PROVE  Has(log'[v], Len(log'[v]), t, i)
    <3>1. log[w] \in Seq(Terms) /\ Len(log[w]) \in Nat /\ Mono(log[w])
      BY Zenon, <1>0, Types DEF IInv, Shape
    <3>2. k \in 1 .. Len(log[w]) /\ log[w][k] > t
      BY SMTT(30), <1>2, <2>1, <2>4, <3>1 DEF Begins
    <3>3. Has(log[w], Len(log[w]), t, i)
      BY Zenon, <1>1, <2>3, <3>2
    <3>4. PICK q \in 1 .. Len(log[w]) : i <= q /\ log[w][q] = t
      BY Zenon, <3>3 DEF Has
    <3>5. q \in 1 .. Len(log'[v])
      <4>1. log[w][k] \in Nat
        BY Zenon, <3>1, <3>2, Entry
      <4>2. ~ (k <= q)
        BY <2>2, <3>1, <3>2, <3>4, <4>1 DEF Mono
      <4> QED BY <1>2, <2>1, <3>1, <3>2, <3>4, <4>2
    <3>6. log'[v][q] = t
      BY Zenon, <2>4, <3>4, <3>5 DEF Begins
    <3> QED BY Zenon, <3>4, <3>5, <3>6 DEF Has
  <2>5. ASSUME Leader(v), log'[v] = Append(log[v], term[v])
        PROVE  Has(log'[v], Len(log'[v]), t, i)
    <3>1. /\ Len(log'[v]) = Len(log[v]) + 1
          /\ \A x \in 1 .. Len(log[v]) : log'[v][x] = log[v][x]
          /\ log'[v][Len(log[v]) + 1] = term[v]
      BY <2>1, <2>5, Appended
    <3>2. (k \in 1 .. Len(log[v]) /\ log[v][k] > t) \/ term[v] > t
      <4>1. k \in 1 .. Len(log[v]) \/ k = Len(log[v]) + 1
        BY <2>1, <3>1
      <4> QED BY Zenon, <1>2, <3>1, <4>1
    <3>3. Has(log[v], Len(log[v]), t, i)
      BY Zenon, <1>1, <2>3, <2>5, <3>2
    <3>4. Len(log[v]) <= Len(log'[v])
      BY <2>1, <3>1
    <3> QED BY Zenon, <2>1, <3>1, <3>3, <3>4, SameHas
  <2> QED BY Zenon, <2>4, <2>5 DEF StepLogs, LogsAt
<1>3. ASSUME NEW v \in Node, NEW t \in Terms, NEW i \in Places, MayCommit(t, i)',
             role'[v] # "secondary", term'[v] > t
      PROVE  Has(log'[v], Len(log'[v]), t, i)
  <2>1. /\ log'[v] \in Seq(Terms) /\ Len(log'[v]) \in Nat
        /\ log[v] \in Seq(Terms) /\ Len(log[v]) \in Nat /\ term[v] \in Nat
    BY Zenon, <1>0, Types, TypesNext
  <2>2. MayCommit(t, i)
    BY Zenon, <1>0, <1>3, MayCommitBefore
  <2>3. ASSUME NEW Q \in SUBSET Node, WinElection(v, Q)
        PROVE  Has(log[v], Len(log[v]), t, i)
    <3>1. term'[v] = term[v] + 1
      BY Zenon, <2>3, Voters
    <3>2. t <= term[v]
      BY <1>3, <2>1, <3>1, CommitPointAssumption DEF Terms
    <3> QED BY <1>3, <2>3, <3>2, ElectedHas
  <2>4. Has(log[v], Len(log[v]), t, i)
    BY Zenon, <1>1, <1>3, <2>2, <2>3 DEF StepLeaders, LeadersAt
  <2>5. Begins(log[v], log'[v])
    BY Zenon, <1>3 DEF StepLeaders, LeadersAt
  <2>6. Len(log[v]) <= Len(log'[v]) /\ \A k \in 1 .. Len(log[v]) : log'[v][k] = log[v][k]
    BY Zenon, <2>1, <2>5 DEF Begins
  <2> QED BY Zenon, <2>1, <2>4, <2>6, SameHas
<1> QED BY <1>2, <1>3 DEF Surviving, Leader

\* Who has reported the last committed operation has the history in its journal.
LEMMA HistoryHeld ==
    ASSUME Counting, IInv, NEW v \in Node, AtLeast(reported[v][LastTerm], <<LastTerm, Len(history)>>)
    PROVE  Begins(history, log[v]) /\ Len(history) <= durable[v]
<1>0. TypeOK
  BY Zenon DEF IInv
<1>1. /\ history \in Seq(Terms) /\ Len(history) \in Places /\ LastTerm \in Terms
      /\ Len(history) \in 1 .. Len(history) /\ Agree(history, log[v])
      /\ Maj(Reporters(LastTerm, Len(history)))
  BY SMTT(30) DEF IInv, Recorded, TypeOK, Places, LastTerm
<1>2. MayCommit(LastTerm, Len(history))
  BY Zenon, <1>1, MajorityGrows DEF MayCommit, Reporters
<1>3. Has(log[v], durable[v], LastTerm, Len(history))
  BY Zenon, <1>1, <1>2 DEF IInv, Reporting, Reporters
<1>4. /\ log[v] \in Seq(Terms) /\ Len(log[v]) \in Nat /\ durable[v] \in 0 .. Len(log[v])
  BY Zenon, <1>0, Types
<1>5. PICK k \in 1 .. durable[v] : Len(history) <= k /\ log[v][k] = LastTerm
  BY Zenon, <1>3 DEF Has
<1>6. k \in 1 .. Len(log[v]) /\ history[Len(history)] = log[v][k]
  BY <1>4, <1>5 DEF LastTerm
<1>7. Len(history) <= Len(log[v]) /\ \A x \in 1 .. Len(history) : history[x] = log[v][x]
  BY Zenon, <1>1, <1>4, <1>5, <1>6, AgreeAt
<1> QED BY <1>1, <1>4, <1>5, <1>7 DEF Begins

\* A majority has the history in its journals.
LEMMA HistoryHolder ==
    ASSUME Counting, IInv
    PROVE  /\ Maj({v \in Node : Begins(history, log[v]) /\ Len(history) <= durable[v]})
           /\ \E v \in Node : Begins(history, log[v])
<1> DEFINE R == Reporters(LastTerm, Len(history))
           S == {v \in Node : Begins(history, log[v]) /\ Len(history) <= durable[v]}
<1>1. Maj(R)
  BY Zenon DEF IInv, Recorded
<1>2. R \in SUBSET Node /\ S \in SUBSET Node /\ R \subseteq S
  BY Zenon, HistoryHeld DEF Reporters
<1>3. \E v \in R : v \in R
  <2> HIDE DEF R
  <2> QED BY <1>1, <1>2, MajoritiesMeet
<1>4. Maj(S)
  <2> HIDE DEF R, S
  <2> QED BY <1>1, <1>2, MajorityGrows
<1> QED BY <1>2, <1>3, <1>4

\* A primary commits what a majority has reported, of its own oplog.
LEMMA NextRecorded ==
    ASSUME Counting, IInv, TypeOK', StepReports, StepLogs, StepHistory
    PROVE  Recorded'
<1>0. TypeOK /\ history \in Seq(Terms)
  BY Zenon DEF IInv, TypeOK
<1>1. CASE history' = history
  <2>1. /\ Len(history) \in Places /\ LastTerm \in Terms /\ Mono(history)
        /\ Maj(Reporters(LastTerm, Len(history)))
    BY <1>0 DEF IInv, Recorded, Places, LastTerm
  <2>2. Maj({v \in Node : AtLeast(reported'[v][LastTerm], <<LastTerm, Len(history)>>)})
    <3> DEFINE R == Reporters(LastTerm, Len(history))
               S == {v \in Node : AtLeast(reported'[v][LastTerm], <<LastTerm, Len(history)>>)}
    <3>1. R \in SUBSET Node /\ S \in SUBSET Node
      BY DEF Reporters
    <3>2. <<LastTerm, Len(history)>> \in OpTimes
      BY Zenon, <2>1, PlaceOpTime
    <3>3. R \subseteq S
      BY Zenon, <1>0, <2>1, <3>2, ReportsAre DEF Reporters
    <3> HIDE DEF R, S
    <3>4. Maj(S)
      BY Zenon, <2>1, <3>1, <3>3, MajorityGrows DEF R
    <3> QED BY <3>4 DEF S
  <2>3. ASSUME NEW n \in Node PROVE Agree(history, log'[n]) /\ Agree(log'[n], history)
    <3>1. PICK v \in Node : Begins(history, log[v])
      BY Zenon, HistoryHolder
    <3>2. /\ log[v] \in Seq(Terms) /\ log'[n] \in Seq(Terms)
      BY Zenon, <1>0, Types, TypesNext
    <3>3. Agree(log'[n], log[v]) /\ Agree(log[v], log'[n])
      BY Zenon, OldAgree
    <3>4. Agree(history, log'[n])
      BY Zenon, <1>0, <3>1, <3>2, <3>3, BeginsAgree, BeginsRefl
    <3>5. Agree(log'[n], history)
      BY Zenon, <1>0, <3>1, <3>2, <3>3, BeginsAgree, BeginsRefl
    <3> QED BY Zenon, <3>4, <3>5
  <2> QED BY Zenon, <1>1, <2>1, <2>2, <2>3 DEF Recorded, LastTerm, Reporters, Maj
<1>2. ASSUME NEW n \in Node, NEW i \in Places, CommitsAt(n, i),
             history' = SubSeq(log[n], 1, i)
      PROVE  Recorded'
  <2>1. /\ log[n] \in Seq(Terms) /\ Len(log[n]) \in Nat /\ Mono(log[n])
        /\ i \in 0 .. Len(log[n]) /\ i \in 1 .. i /\ i \in Nat
    BY <1>0, <1>2, Types, CommitPointAssumption DEF IInv, Shape, CommitsAt, Places
  <2>2. /\ history' \in Seq(Terms) /\ Len(history') = i
        /\ Begins(history', log[n]) /\ history'[i] = log[n][i]
    BY Zenon, <1>2, <2>1, Beginning
  <2>3. Mono(history')
    BY Zenon, <2>1, <2>2, BeginsMono
  <2>4. ASSUME NEW m \in Node PROVE Agree(history', log'[m]) /\ Agree(log'[m], history')
    <3>1. log[m] \in Seq(Terms) /\ Agree(log[n], log[m]) /\ Agree(log[m], log[n])
      BY <1>0, Types DEF IInv, Shape
    <3>2. log'[m] = log[m]
      BY Zenon, <1>2 DEF CommitsAt
    <3>3. Agree(history', log[m])
      BY Zenon, <2>1, <2>2, <3>1, BeginsAgree, BeginsRefl
    <3>4. Agree(log[m], history')
      BY Zenon, <2>1, <2>2, <3>1, BeginsAgree, BeginsRefl
    <3> QED BY Zenon, <3>2, <3>3, <3>4
  <2>5. Maj({v \in Node : AtLeast(reported'[v][history'[Len(history')]],
                                  <<history'[Len(history')], Len(history')>>)})
    BY Zenon, <1>2, <2>2 DEF CommitsAt
  <2> QED BY Zenon, <2>2, <2>3, <2>4, <2>5 DEF Recorded, LastTerm, Reporters, Maj
<1> QED BY Zenon, <1>1, <1>2 DEF StepHistory

\* What the steps have in common preserves the invariant.
LEMMA NextInvariant ==
    ASSUME Counting, IInv, TypeOK', \A v \in Node : StepAt(v), StepHistory
    PROVE  IInv'
<1>1. /\ StepVotes /\ StepReports /\ StepLogs /\ StepTerms /\ StepLeaders
      /\ StepDrained /\ StepJournals
  BY DEF StepAt, StepVotes, StepReports, StepLogs, StepTerms, StepLeaders, StepDrained,
         StepJournals
<1>2. Shape'
  BY Zenon, <1>1, NextMono, NextAgree DEF Shape
<1>3. Terming'
  BY Zenon, <1>1 DEF StepVotes, VotesAt, StepTerms, TermsAt, Terming
<1>4. Drained'
  BY <1>1 DEF StepDrained, DrainedAt, Drained
<1>5. Voting' /\ Leading' /\ Reporting' /\ Surviving' /\ Recorded'
  BY Zenon, <1>1, NextVoting, NextLeading, NextReporting, NextSurviving, NextRecorded
<1> QED BY Zenon, <1>2, <1>3, <1>4, <1>5 DEF IInv

-----------------------------------------------------------------------------
(***************************************************************************)
(* The actions are such steps                                              *)
(***************************************************************************)

\* A step of that kind.
Step == TypeOK' /\ (\A v \in Node : StepAt(v)) /\ StepHistory

\* A member that takes no part in a step.
Kept(v) ==
    /\ log'[v] = log[v] /\ durable'[v] = durable[v] /\ role'[v] = role[v]
    /\ term'[v] = term[v] /\ vote'[v] = vote[v] /\ reported'[v] = reported[v]

\* A member that keeps its oplog and what it has told the others.
LEMMA QuietStep ==
    ASSUME IInv, NEW v \in Node,
           log'[v] = log[v], durable'[v] = durable[v], term'[v] = term[v],
           vote'[v] = vote[v], reported'[v] = reported[v],
           \/ role'[v] \in {"secondary", role[v]}
           \/ role[v] = "draining" /\ role'[v] = "primary"
    PROVE  StepAt(v)
<1>0. TypeOK
  BY Zenon DEF IInv
<1>1. /\ log[v] \in Seq(Terms) /\ vote[v] \in Nat /\ Begins(log[v], log[v])
  BY Zenon, <1>0, Types, BeginsRefl
<1>2. VotesAt(v)
  BY SMTT(30), <1>1 DEF VotesAt, IInv, Terming
<1>3. ReportsAt(v)
  BY Zenon DEF ReportsAt
<1>4. LogsAt(v)
  BY Zenon, <1>1 DEF LogsAt
<1>5. TermsAt(v)
  BY DEF TermsAt, IInv, Terming
<1>6. LeadersAt(v)
  BY Zenon, <1>1 DEF LeadersAt, Leader
<1>7. DrainedAt(v)
  BY Zenon DEF DrainedAt, IInv, Drained
<1>8. JournalsAt(v)
  BY DEF JournalsAt
<1> QED BY Zenon, <1>2, <1>3, <1>4, <1>5, <1>6, <1>7, <1>8 DEF StepAt

\* A member that takes no part.
LEMMA KeptStep ==
    ASSUME IInv, NEW v \in Node, Kept(v)
    PROVE  StepAt(v)
<1>1. role'[v] \in {"secondary", role[v]}
  BY DEF Kept
<1> QED BY Zenon, <1>1, QuietStep DEF Kept

\* A journal that only grows keeps what it has.
LEMMA JournalKept ==
    ASSUME IInv, TypeOK', NEW v \in Node, durable[v] <= durable'[v],
           \A k \in 1 .. durable[v] : log'[v][k] = log[v][k]
    PROVE  JournalsAt(v)
<1>1. /\ log[v] \in Seq(Terms) /\ log'[v] \in Seq(Terms)
      /\ durable[v] \in Nat /\ durable'[v] \in Nat
  BY Zenon, Types, TypesNext DEF IInv
<1> QED BY Zenon, <1>1, SameHas DEF JournalsAt

\* A primary adds an entry.
LEMMA AppendStep ==
    ASSUME IInv, TypeOK', NEW v \in Node, Leader(v),
           log'[v] = Append(log[v], term[v]), durable'[v] = durable[v],
           term'[v] = term[v], vote'[v] = vote[v], reported'[v] = reported[v],
           role'[v] \in {"draining", "primary"}
    PROVE  StepAt(v)
<1>0. TypeOK
  BY DEF IInv
<1>1. /\ log[v] \in Seq(Terms) /\ Len(log[v]) \in Nat /\ term[v] \in Terms
      /\ term[v] \in Nat /\ vote[v] \in Nat /\ durable[v] \in 0 .. Len(log[v])
  BY Zenon, <1>0, Types
<1>2. /\ Len(log'[v]) = Len(log[v]) + 1
      /\ \A k \in 1 .. Len(log[v]) : log'[v][k] = log[v][k]
      /\ log'[v][Len(log[v]) + 1] = term[v] /\ Begins(log[v], log'[v])
  BY SMTT(30), <1>1, Appended
<1>3. VotesAt(v)
  BY <1>1 DEF VotesAt, IInv, Terming
<1>4. OpTimeAt(log'[v], durable[v]) = OpTimeAt(log[v], durable[v])
  <2>1. durable[v] # 0 => log'[v][durable[v]] = log[v][durable[v]]
    BY SMTT(30), <1>1, <1>2
  <2> QED BY Zenon, <2>1 DEF OpTimeAt
<1>5. ReportsAt(v)
  BY <1>4 DEF ReportsAt
<1>6. LogsAt(v)
  BY Zenon DEF LogsAt
<1>7. TermsAt(v)
  <2>1. \A k \in 1 .. Len(log[v]) : log[v][k] <= term[v]
    BY Zenon DEF IInv, Terming
  <2> QED BY SMTT(30), <1>1, <1>2, <2>1 DEF TermsAt
<1>8. LeadersAt(v)
  BY Zenon, <1>2 DEF LeadersAt, Leader
<1>9. DrainedAt(v)
  BY <1>1, <1>2 DEF DrainedAt
<1>10. JournalsAt(v)
  <2>1. durable[v] <= durable'[v] /\ \A k \in 1 .. durable[v] : log'[v][k] = log[v][k]
    BY <1>1, <1>2
  <2> QED BY Zenon, <2>1, JournalKept
<1> QED BY Zenon, <1>3, <1>5, <1>6, <1>7, <1>8, <1>9, <1>10 DEF StepAt

\* A write, and the no-op of a new primary.
LEMMA WriteStep ==
    ASSUME IInv, TypeOK', NEW n \in Node, Write(n) \/ LogTransitionToPrimary(n)
    PROVE  Step
<1>0. TypeOK
  BY Zenon DEF IInv
<1>1. /\ log[n] \in Seq(Terms) /\ Len(log[n]) \in Nat /\ term[n] \in Terms
      /\ durable[n] \in 0 .. Len(log[n])
  BY <1>0, Types
<1>2. /\ log' = [log EXCEPT ![n] = Append(log[n], term[n])] /\ Len(log[n]) < MaxLen
      /\ role'[n] \in {"draining", "primary"} /\ Leader(n)
      /\ \A v \in Node : v # n => role'[v] = role[v]
      /\ UNCHANGED <<durable, term, vote, reported, history>>
  BY Zenon, <1>0 DEF Write, LogTransitionToPrimary, TypeOK, Leader, Roles
<1>3. /\ log'[n] = Append(log[n], term[n]) /\ \A v \in Node : v # n => log'[v] = log[v]
      /\ log'[n] \in Seq(Terms) /\ Len(log'[n]) = Len(log[n]) + 1
  <2>1. log'[n] = Append(log[n], term[n]) /\ \A v \in Node : v # n => log'[v] = log[v]
    BY Zenon, <1>0, <1>2 DEF TypeOK
  <2>2. Append(log[n], term[n]) \in Seq(Terms) /\ Len(Append(log[n], term[n])) = Len(log[n]) + 1
    BY ZenonT(60), <1>1, Appended
  <2> QED BY Zenon, <1>0, <1>2, <2>1, <2>2 DEF TypeOK
<1>4. StepAt(n)
  BY Zenon, <1>2, <1>3, AppendStep
<1>5. \A v \in Node : v # n => StepAt(v)
  BY Zenon, <1>2, <1>3, KeptStep DEF Kept
<1>6. StepHistory
  BY Zenon, <1>2 DEF StepHistory
<1> QED BY Zenon, <1>4, <1>5, <1>6 DEF Step

\* The oplog of a primary begins an entry of its term somewhere: the floor that
\* _firstOpTimeOfMyTerm is.
LEMMA FirstOfTerm ==
    ASSUME Counting, IInv, NEW n \in Node, role[n] = "primary"
    PROVE  \E f \in 1 .. Len(log[n]) : FirstOpTimeOfMyTerm(n) = <<term[n], f>>
<1>1. log[n] \in Seq(Terms) /\ Len(log[n]) \in Nat
  BY Zenon, Types DEF IInv
<1>2. Len(log[n]) > 0 /\ log[n][Len(log[n])] = term[n]
  BY Zenon DEF IInv, Drained
<1> DEFINE S == {i \in 1 .. Len(log[n]) : \A j \in 1 .. i : log[n][j] # term[n]}
<1>3. S \in SUBSET (1 .. Len(log[n])) /\ \A i \in S : \A j \in 1 .. i : j \in S
  BY <1>1
<1> DEFINE k == Cardinality(S)
<1> HIDE DEF S
<1>4. k \in 0 .. Len(log[n]) /\ S = 1 .. k
  BY Zenon, <1>1, <1>3, InitialPlaces
<1> HIDE DEF k
<1>5. k < Len(log[n])
  BY <1>1, <1>2, <1>4 DEF S
<1>6. k + 1 \in 1 .. Len(log[n]) /\ k + 1 \notin S
  BY <1>1, <1>4, <1>5
<1>7. PICK j \in 1 .. k + 1 : log[n][j] = term[n]
  BY Zenon, <1>6 DEF S
<1>8. \A i \in 1 .. k : log[n][i] # term[n]
  BY <1>1, <1>4 DEF S
<1>9. j = k + 1
  BY <1>4, <1>7, <1>8
<1>10. \E i \in 1 .. Len(log[n]) :
          /\ log[n][i] = term[n]
          /\ \A x \in 1 .. i - 1 : log[n][x] # term[n]
  BY <1>4, <1>6, <1>7, <1>8, <1>9
<1> DEFINE f == CHOOSE i \in 1 .. Len(log[n]) :
                   /\ log[n][i] = term[n]
                   /\ \A x \in 1 .. i - 1 : log[n][x] # term[n]
<1>11. f \in 1 .. Len(log[n]) /\ log[n][f] = term[n]
  BY Zenon, <1>10
<1>12. FirstOpTimeOfMyTerm(n) = OpTimeAt(log[n], f)
  BY Zenon DEF FirstOpTimeOfMyTerm
<1> HIDE DEF f
<1> QED BY <1>1, <1>11, <1>12 DEF OpTimeAt

\* What a primary takes for its commit point, other than the one it has, is an
\* operation of its term.
LEMMA CommitFromTerm ==
    ASSUME Counting, IInv, NEW n \in Node, NEW c \in OpTimes, CommitFrom(n, c) # commit[n]
    PROVE  /\ role[n] = "primary" /\ CommitFrom(n, c) = c /\ c[1] >= term[n]
           /\ ~pending[n] /\ Less(commit[n], c)
<1>1. /\ role[n] # "secondary" /\ ~pending[n] /\ Advanced(n, c) # commit[n]
      /\ CommitFrom(n, c) = Advanced(n, c)
  BY Zenon DEF CommitFrom
<1>2. /\ ~AtLeast(commit[n], c) /\ ~Less(c, FirstOpTimeOfMyTerm(n))
      /\ Advanced(n, c) = c
  BY <1>1 DEF Advanced
<1>3. c[1] \in Nat /\ c[1] <= MaxTerm
  BY Zenon, OpTimeParts
<1>4. role[n] = "primary"
  BY SMTT(30), <1>2, <1>3, CommitPointAssumption DEF FirstOpTimeOfMyTerm, Never, Less
<1>5. PICK f \in 1 .. Len(log[n]) : FirstOpTimeOfMyTerm(n) = <<term[n], f>>
  BY Zenon, <1>4, FirstOfTerm
<1>6. term[n] \in Nat
  BY Zenon, Types DEF IInv
<1>7. c[1] >= term[n]
  BY <1>2, <1>3, <1>5, <1>6 DEF Less
<1> QED BY Zenon, <1>1, <1>2, <1>4, <1>7 DEF AtLeast

\* The optimes of a majority are optimes.
LEMMA MajorityOpTimesAre ==
    ASSUME Counting, TypeOK, NEW n \in Node, NEW own, NEW c \in MajorityOpTimes(n, own)
    PROVE  /\ c \in OpTimes
           /\ c[1] # 0 =>
                \E i \in 1 .. Len(log[n]) :
                   /\ c = <<log[n][i], i>>
                   /\ Maj({m \in Node :
                              AtLeast(IF m = n THEN own ELSE reported[m][term[n]], c)})
<1>1. log[n] \in Seq(Terms) /\ Len(log[n]) \in Nat /\ Len(log[n]) <= MaxLen
  BY Types
<1>2. CASE c = Null
  BY Zenon, <1>2 DEF OpTimes, Null
<1>3. ASSUME NEW i \in 1 .. Len(log[n]), c = OpTimeAt(log[n], i),
             Cardinality({m \in Node : AtLeast(IF m = n THEN own ELSE reported[m][term[n]], c)})
                >= WriteMajority
      PROVE  /\ c \in OpTimes /\ c = <<log[n][i], i>>
             /\ Maj({m \in Node : AtLeast(IF m = n THEN own ELSE reported[m][term[n]], c)})
  <2>1. c \in OpTimes
    BY <1>1, <1>3, OpTimeAtParts
  <2>2. c = <<log[n][i], i>>
    BY SMTT(30), <1>3 DEF OpTimeAt
  <2> DEFINE S == {m \in Node : AtLeast(IF m = n THEN own ELSE reported[m][term[n]], c)}
  <2>3. S \in SUBSET Node /\ Cardinality(S) >= WriteMajority
    BY <1>3
  <2> HIDE DEF S
  <2>4. Maj(S)
    BY <2>3, WriteMajorityIs
  <2> QED BY Zenon, <2>1, <2>2, <2>4 DEF S
<1>4. Null[1] = 0
  BY DEF Null
<1> QED BY Zenon, <1>2, <1>3, <1>4 DEF MajorityOpTimes

\* The order of optimes is transitive.
LEMMA AtLeastTransitive ==
    ASSUME NEW a \in OpTimes, NEW b \in OpTimes, NEW c \in OpTimes,
           AtLeast(a, b), AtLeast(b, c)
    PROVE  AtLeast(a, c)
<1>1. /\ a[1] \in Nat /\ a[2] \in Nat /\ b[1] \in Nat /\ b[2] \in Nat
      /\ c[1] \in Nat /\ c[2] \in Nat
  BY OpTimeParts
<1> QED BY <1>1 DEF AtLeast, Less

\* An optime is at least those that are less.
LEMMA LessAtLeast ==
    ASSUME NEW a \in OpTimes, NEW b \in OpTimes, Less(a, b)
    PROVE  AtLeast(b, a)
<1>1. /\ a[1] \in Nat /\ a[2] \in Nat /\ b[1] \in Nat /\ b[2] \in Nat
  BY OpTimeParts
<1> QED BY <1>1 DEF AtLeast, Less

\* The optime of an entry covers the oplog up to it.
LEMMA CoveredToPlace ==
    ASSUME Counting, NEW s \in Seq(Terms), Len(s) <= MaxLen, Mono(s),
           NEW i \in 1 .. Len(s), NEW c \in OpTimes, c = <<s[i], i>>
    PROVE  Covered(s, c) = SubSeq(s, 1, i)
<1>0. Len(s) \in Nat /\ s[i] \in Nat
  BY Entry
<1>1. PICK k \in 0 .. Len(s) :
         /\ Covered(s, c) = SubSeq(s, 1, k)
         /\ \A x \in 1 .. Len(s) : x <= k <=> AtLeast(c, <<s[x], x>>)
  BY Zenon, CoveredPart
<1>2. i <= k
  <2>1. AtLeast(c, <<s[i], i>>)
    BY <1>0 DEF AtLeast, Less
  <2> QED BY Zenon, <1>1, <2>1
<1>3. ASSUME k >= i + 1 PROVE FALSE
  <2>1. k \in 1 .. Len(s) /\ k <= k
    BY <1>0, <1>3
  <2>2. AtLeast(c, <<s[k], k>>)
    BY Zenon, <1>1, <2>1
  <2>3. s[k] \in Nat /\ s[i] <= s[k]
    BY <1>0, <1>3, <2>1, Entry DEF Mono
  <2> QED BY <1>0, <1>3, <2>1, <2>2, <2>3 DEF AtLeast, Less
<1>4. k = i
  BY <1>0, <1>2, <1>3
<1> QED BY Zenon, <1>1, <1>4

\* What a primary that sets its commit point commits.
LEMMA Committing ==
    ASSUME Counting, IInv, NEW n \in Node, NEW own, NEW c \in MajorityOpTimes(n, own),
           Leader(n), c[1] >= term[n],
           AtLeast(own, c) => AtLeast(reported'[n][term[n]], c),
           \A m \in Node : m # n => reported'[m] = reported[m],
           log' = log, term' = term, role'[n] # "secondary"
    PROVE  \E i \in Places :
              /\ CommitsAt(n, i)
              /\ c = <<term[n], i>> /\ Covered(log[n], c) = SubSeq(log[n], 1, i)
<1>0. TypeOK
  BY Zenon DEF IInv
<1>1. /\ log[n] \in Seq(Terms) /\ Len(log[n]) \in Nat /\ Len(log[n]) <= MaxLen
      /\ term[n] \in Terms /\ term[n] \in Nat /\ Mono(log[n])
  BY Zenon, Types DEF IInv, Shape
<1>2. c \in OpTimes /\ c[1] \in Nat /\ c[1] # 0
  BY <1>0, <1>1, MajorityOpTimesAre, OpTimeParts, CommitPointAssumption DEF Terms
<1> DEFINE S == {m \in Node : AtLeast(IF m = n THEN own ELSE reported[m][term[n]], c)}
           T == {m \in Node : AtLeast(reported'[m][term[n]], c)}
<1>3. PICK i \in 1 .. Len(log[n]) : c = <<log[n][i], i>> /\ Maj(S)
  BY ZenonT(60), <1>0, <1>2, MajorityOpTimesAre
<1>4. i \in Places /\ log[n][i] = term[n]
  <2>1. log[n][i] \in Nat /\ log[n][i] <= term[n]
    BY Zenon, <1>1, Entry DEF IInv, Terming
  <2> QED BY SMTT(30), <1>1, <1>3, <2>1, CommitPointAssumption DEF Places
<1>5. Maj(T)
  <2>1. S \in SUBSET Node /\ T \in SUBSET Node /\ S \subseteq T
    BY Zenon
  <2> HIDE DEF S, T
  <2> QED BY Zenon, <1>3, <2>1, MajorityGrows
<1>6. c = <<term[n], i>> /\ i <= Len(log[n])
  <2>1. i <= Len(log[n])
    BY <1>1
  <2> QED BY Zenon, <1>3, <1>4, <2>1
<1>7. CommitsAt(n, i)
  BY Zenon, <1>4, <1>5, <1>6 DEF CommitsAt
<1>8. Covered(log[n], c) = SubSeq(log[n], 1, i)
  BY Zenon, <1>1, <1>2, <1>3, CoveredToPlace
<1> QED BY Zenon, <1>4, <1>6, <1>7, <1>8

\* Sending a position.
LEMMA Sending ==
    ASSUME TypeOK, NEW n \in Node, NEW op \in OpTimes, NEW t \in Nat,
           reported' = Send(reported, n, op, t)
    PROVE  /\ reported' \in [Node -> [Terms -> OpTimes]]
           /\ \A m \in Node : m # n => reported'[m] = reported[m]
           /\ Sends(n, op, t)
           /\ \A u \in Terms : u >= t => AtLeast(reported'[n][u], op)
<1> DEFINE f == [u \in Terms |-> IF u >= t /\ Less(reported[n][u], op)
                                 THEN op ELSE reported[n][u]]
<1>1. reported' = [reported EXCEPT ![n] = f] /\ reported \in [Node -> [Terms -> OpTimes]]
  BY DEF Send, TypeOK
<1>2. f \in [Terms -> OpTimes]
  BY Zenon, <1>1
<1>3. \A u \in Terms : u >= t => AtLeast(f[u], op)
  <2>1. op[1] \in Nat /\ op[2] \in Nat
    BY OpTimeParts
  <2> QED BY <2>1 DEF AtLeast, Less
<1> HIDE DEF f
<1>4. reported'[n] = f
  BY <1>1
<1>5. /\ reported' \in [Node -> [Terms -> OpTimes]]
      /\ \A m \in Node : m # n => reported'[m] = reported[m]
  BY <1>1, <1>2
<1> QED BY Zenon, <1>3, <1>4, <1>5 DEF f, Sends

\* A primary keeps its commit point, or sets it to an operation of its term that
\* is not earlier than the point it has or than the end of its oplog.
NewPoint(n, c) ==
    \/ c = commit[n]
    \/ /\ AtLeast(c, commit[n]) \/ AtLeast(c, LastOp(log[n]))
       /\ \E i \in Places : /\ CommitsAt(n, i) /\ c = <<term[n], i>>
                            /\ Covered(log[n], c) = SubSeq(log[n], 1, i)

\* n sets its commit point in one of these ways.
CommitStep(n) == \E c : SetCommit(n, c) /\ NewPoint(n, c)

\* A new commit point extends the history, or does not change it.
LEMMA SetCommitStep ==
    ASSUME NEW n \in Node, NEW c, SetCommit(n, c), NewPoint(n, c)
    PROVE  StepHistory
<1>1. CASE c = commit[n]
  BY ZenonT(60), <1>1 DEF SetCommit, StepHistory
<1>2. ASSUME NEW i \in Places, CommitsAt(n, i), Covered(log[n], c) = SubSeq(log[n], 1, i)
      PROVE  StepHistory
  <2>1. history' = history \/ history' = SubSeq(log[n], 1, i)
    BY Zenon, <1>2 DEF SetCommit
  <2> QED BY Zenon, <1>2, <2>1 DEF StepHistory
<1> QED BY Zenon, <1>1, <1>2 DEF NewPoint

\* A member that keeps its oplog and sends its position.
LEMMA SendStep ==
    ASSUME IInv, TypeOK', NEW v \in Node, VotesAt(v), LeadersAt(v), DrainedAt(v),
           log'[v] = log[v], durable[v] <= durable'[v], term[v] <= term'[v],
           Sends(v, OpTimeAt(log'[v], durable'[v]), term'[v])
    PROVE  StepAt(v)
<1>0. TypeOK
  BY Zenon DEF IInv
<1>1. /\ log[v] \in Seq(Terms) /\ term[v] \in Nat /\ term'[v] \in Nat
  BY Zenon, <1>0, Types, TypesNext
<1>2. ReportsAt(v)
  BY Zenon DEF ReportsAt
<1>3. LogsAt(v)
  BY Zenon, <1>1, BeginsRefl DEF LogsAt
<1>4. TermsAt(v)
  <2> SUFFICES ASSUME NEW i \in 1 .. Len(log[v]) PROVE log[v][i] <= term'[v]
    BY Zenon DEF TermsAt
  <2>1. log[v][i] <= term[v] /\ log[v][i] \in Nat
    BY Zenon, <1>1, Entry DEF IInv, Terming
  <2> QED BY <1>1, <2>1
<1>5. JournalsAt(v)
  BY Zenon, JournalKept
<1> QED BY ZenonT(60), <1>2, <1>3, <1>4, <1>5 DEF StepAt

\* processReplSetUpdatePosition and _updateOpTimesFromHeartbeat.
LEMMA UpdatePositionStep ==
    ASSUME Counting, IInv, TypeOK', NEW n \in Node, UpdatePosition(n)
    PROVE  Step /\ CommitStep(n)
<1>0. TypeOK
  BY SMTT(30) DEF IInv
<1> DEFINE own == OpTimeAt(log[n], durable[n])
<1>1. PICK c \in MajorityOpTimes(n, own) :
         CommitFrom(n, c) # commit[n] /\ SetCommit(n, CommitFrom(n, c))
  BY Zenon DEF UpdatePosition
<1>2. UNCHANGED <<log, durable, role, term, vote, reported>>
  BY Zenon DEF UpdatePosition
<1>3. /\ c \in OpTimes /\ own \in OpTimes /\ reported[n][term[n]] \in OpTimes
  <2>1. /\ log[n] \in Seq(Terms) /\ Len(log[n]) <= MaxLen /\ durable[n] \in 0 .. Len(log[n])
        /\ reported[n][term[n]] \in OpTimes
    BY Zenon, <1>0, Types
  <2> QED BY Zenon, <1>0, <2>1, OpTimeAtParts, MajorityOpTimesAre
<1>4. AtLeast(reported[n][term[n]], own)
  BY Zenon DEF IInv, Reporting, Position
<1> HIDE DEF own
<1>5. /\ role[n] = "primary" /\ CommitFrom(n, c) = c /\ c[1] >= term[n]
      /\ Less(commit[n], c)
  BY Zenon, <1>1, <1>3, CommitFromTerm
<1>6. \E i \in Places : /\ CommitsAt(n, i) /\ c = <<term[n], i>>
                        /\ Covered(log[n], c) = SubSeq(log[n], 1, i)
  <2>1. AtLeast(own, c) => AtLeast(reported'[n][term[n]], c)
    BY ZenonT(60), <1>2, <1>3, <1>4, AtLeastTransitive
  <2>2. Leader(n) /\ role'[n] # "secondary"
    BY Zenon, <1>2, <1>5 DEF Leader
  <2> QED BY Zenon, <1>1, <1>2, <1>5, <2>1, <2>2, Committing
<1>7. SetCommit(n, c) /\ NewPoint(n, c)
  <2>1. AtLeast(c, commit[n])
    BY Zenon, <1>0, <1>3, <1>5, Types, LessAtLeast
  <2> QED BY Zenon, <1>1, <1>5, <1>6, <2>1 DEF NewPoint
<1>8. StepHistory /\ CommitStep(n)
  BY Zenon, <1>7, SetCommitStep DEF CommitStep
<1>9. \A v \in Node : StepAt(v)
  BY <1>2, KeptStep DEF Kept
<1> QED BY Zenon, <1>8, <1>9 DEF Step

\* JournalListener::onDurable.
LEMMA JournalStep ==
    ASSUME Counting, IInv, TypeOK', NEW n \in Node, Journal(n)
    PROVE  Step /\ CommitStep(n)
<1>0. TypeOK
  BY DEF IInv
<1> DEFINE d == Len(log[n])
           op == OpTimeAt(log[n], d)
<1>1. /\ durable[n] < d /\ durable' = [durable EXCEPT ![n] = d]
      /\ reported' = Send(reported, n, op, term[n])
      /\ UNCHANGED <<log, role, term, vote>>
  BY Zenon DEF Journal
<1>2. PICK c \in MajorityOpTimes(n, op) : SetCommit(n, CommitFrom(n, c))
  BY Zenon DEF Journal, LastOp
<1>3. /\ log[n] \in Seq(Terms) /\ d \in Nat /\ d <= MaxLen /\ d \in 0 .. Len(log[n])
      /\ durable[n] \in Nat /\ term[n] \in Terms /\ term[n] \in Nat
  BY SMTT(30), <1>0, Types
<1>4. op \in OpTimes /\ c \in OpTimes
  BY Zenon, <1>0, <1>3, OpTimeAtParts, MajorityOpTimesAre
<1>5. /\ durable'[n] = d /\ \A v \in Node : v # n => durable'[v] = durable[v]
  BY SMTT(30), <1>0, <1>1, <1>3 DEF TypeOK
<1>6. op = OpTimeAt(log'[n], durable'[n])
  BY Zenon, <1>1, <1>5
<1> HIDE DEF d, op
<1>7. /\ reported' \in [Node -> [Terms -> OpTimes]]
      /\ \A m \in Node : m # n => reported'[m] = reported[m]
      /\ Sends(n, op, term[n])
      /\ \A u \in Terms : u >= term[n] => AtLeast(reported'[n][u], op)
  BY Zenon, <1>0, <1>1, <1>3, <1>4, Sending
<1>8. reported'[n][term[n]] \in OpTimes /\ AtLeast(reported'[n][term[n]], op)
  BY <1>3, <1>7
<1>9. \/ CommitFrom(n, c) = commit[n]
      \/ AtLeast(CommitFrom(n, c), commit[n]) /\
         \E i \in Places : /\ CommitsAt(n, i) /\ CommitFrom(n, c) = <<term[n], i>>
                           /\ Covered(log[n], CommitFrom(n, c)) = SubSeq(log[n], 1, i)
  <2> SUFFICES ASSUME CommitFrom(n, c) # commit[n]
               PROVE  /\ AtLeast(CommitFrom(n, c), commit[n])
                      /\ \E i \in Places :
                         /\ CommitsAt(n, i) /\ CommitFrom(n, c) = <<term[n], i>>
                         /\ Covered(log[n], CommitFrom(n, c)) = SubSeq(log[n], 1, i)
    OBVIOUS
  <2>1. /\ role[n] = "primary" /\ CommitFrom(n, c) = c /\ c[1] >= term[n]
        /\ Less(commit[n], c)
    BY Zenon, <1>4, CommitFromTerm
  <2>2. AtLeast(op, c) => AtLeast(reported'[n][term[n]], c)
    BY Zenon, <1>4, <1>8, AtLeastTransitive
  <2>3. Leader(n) /\ role'[n] # "secondary"
    BY <1>1, <2>1 DEF Leader
  <2>4. \E i \in Places : /\ CommitsAt(n, i) /\ c = <<term[n], i>>
                          /\ Covered(log[n], c) = SubSeq(log[n], 1, i)
    <3>1. /\ \A m \in Node : m # n => reported'[m] = reported[m]
          /\ log' = log /\ term' = term
      BY Zenon, <1>1, <1>7
    <3> QED BY ZenonT(60), <1>2, <2>1, <2>2, <2>3, <3>1, Committing
  <2>5. AtLeast(c, commit[n])
    BY Zenon, <1>0, <1>4, <2>1, Types, LessAtLeast
  <2> QED BY ZenonT(60), <2>1, <2>4, <2>5
<1>10. NewPoint(n, CommitFrom(n, c))
  BY ZenonT(60), <1>9 DEF NewPoint
<1>11. StepHistory /\ CommitStep(n)
  BY Zenon, <1>2, <1>10, SetCommitStep DEF CommitStep
<1>12. StepAt(n)
  <2>1. VotesAt(n)
    <3>1. vote'[n] = vote[n] /\ term'[n] = term[n] /\ vote[n] <= term[n] /\ vote[n] \in Nat
      BY Zenon, <1>0, <1>1, Types DEF IInv, Terming
    <3> QED BY <3>1 DEF VotesAt
  <2>2. LeadersAt(n)
    BY Zenon, <1>1, <1>3, BeginsRefl DEF LeadersAt, Leader
  <2>3. DrainedAt(n)
    BY Zenon, <1>1 DEF DrainedAt, IInv, Drained
  <2>4. /\ log'[n] = log[n] /\ durable[n] <= durable'[n] /\ term[n] <= term'[n]
    <3>1. /\ log'[n] = log[n] /\ durable[n] < d /\ durable'[n] = d /\ term'[n] = term[n]
          /\ durable[n] \in Nat /\ d \in Nat /\ term[n] \in Nat
      BY Zenon, <1>1, <1>3, <1>5 DEF d
    <3> QED BY <3>1
  <2>5. Sends(n, OpTimeAt(log'[n], durable'[n]), term'[n])
    <3>1. term'[n] = term[n] /\ Sends(n, op, term[n])
      BY Zenon, <1>1, <1>7
    <3> QED BY Zenon, <1>6, <3>1
  <2> QED BY ZenonT(60), <2>1, <2>2, <2>3, <2>4, <2>5, SendStep
<1>13. \A v \in Node : v # n => StepAt(v)
  BY Zenon, <1>1, <1>5, <1>7, KeptStep DEF Kept
<1> QED BY Zenon, <1>11, <1>12, <1>13 DEF Step

\* signalDrainComplete: the first optime of the term, and what a majority has.
LEMMA DrainCompleteStep ==
    ASSUME Counting, IInv, TypeOK', NEW n \in Node, DrainComplete(n)
    PROVE  Step /\ CommitStep(n)
<1>0. TypeOK
  BY DEF IInv
<1> DEFINE own == OpTimeAt(log[n], durable[n])
           op == LastOp(log[n])
<1>1. PICK c \in MajorityOpTimes(n, own) :
         SetCommit(n, IF pending[n] \/ AtLeast(commit[n], c) \/ Less(c, op)
                      THEN commit[n] ELSE c)
  BY Zenon DEF DrainComplete
<1>2. /\ role[n] = "draining" /\ role' = [role EXCEPT ![n] = "primary"]
      /\ UNCHANGED <<log, durable, term, vote, reported>>
  BY Zenon DEF DrainComplete
<1>3. /\ log[n] \in Seq(Terms) /\ Len(log[n]) <= MaxLen /\ durable[n] \in 0 .. Len(log[n])
      /\ reported[n][term[n]] \in OpTimes /\ Mono(log[n]) /\ term[n] \in Nat
  BY Zenon, <1>0, Types DEF IInv, Shape
<1>4. c \in OpTimes /\ own \in OpTimes
  BY Zenon, <1>0, <1>3, OpTimeAtParts, MajorityOpTimesAre
<1>5. AtLeast(reported[n][term[n]], own)
  BY DEF IInv, Reporting, Position
<1>6. op[1] = term[n]
  BY Zenon, <1>2, <1>3, LastOpParts DEF IInv, Drained
<1> HIDE DEF own, op
<1>7. /\ role'[n] = "primary" /\ \A v \in Node : v # n => role'[v] = role[v]
  BY ZenonT(60), <1>0, <1>2 DEF TypeOK
<1> DEFINE e == IF pending[n] \/ AtLeast(commit[n], c) \/ Less(c, op)
                THEN commit[n] ELSE c
<1>8. \/ e = commit[n]
      \/ AtLeast(e, op) /\
         \E i \in Places : /\ CommitsAt(n, i) /\ e = <<term[n], i>>
                           /\ Covered(log[n], e) = SubSeq(log[n], 1, i)
  <2> SUFFICES ASSUME e = c, ~Less(c, op)
               PROVE  \E i \in Places : /\ CommitsAt(n, i) /\ c = <<term[n], i>>
                                        /\ Covered(log[n], c) = SubSeq(log[n], 1, i)
    BY Zenon DEF AtLeast
  <2>1. c[1] >= term[n]
    <3>1. c[1] \in Nat
      BY Zenon, <1>4, OpTimeParts
    <3>2. ~(c[1] < op[1]) /\ op[1] = term[n] /\ term[n] \in Nat
      BY Zenon, <1>3, <1>6 DEF Less
    <3> QED BY <3>1, <3>2
  <2>2. AtLeast(own, c) => AtLeast(reported'[n][term[n]], c)
    BY ZenonT(60), <1>2, <1>3, <1>4, <1>5, AtLeastTransitive
  <2>3. Leader(n) /\ role'[n] # "secondary"
    BY Zenon, <1>2, <1>7 DEF Leader
  <2>4. /\ \A m \in Node : m # n => reported'[m] = reported[m]
        /\ log' = log /\ term' = term
    BY Zenon, <1>2
  <2> QED BY ZenonT(60), <1>1, <2>1, <2>2, <2>3, <2>4, Committing
<1>9. SetCommit(n, e)
  BY <1>1
<1> HIDE DEF e
<1>10. NewPoint(n, e)
  BY Zenon, <1>8 DEF NewPoint, op
<1>11. StepHistory /\ CommitStep(n)
  BY Zenon, <1>9, <1>10, SetCommitStep DEF CommitStep
<1>12. StepAt(n)
  BY ZenonT(60), <1>2, <1>7, QuietStep
<1>13. \A v \in Node : v # n => StepAt(v)
  BY Zenon, <1>2, <1>7, KeptStep DEF Kept
<1> QED BY Zenon, <1>11, <1>12, <1>13 DEF Step

\* A primary begins to step down.
LEMMA StepDownStartStep ==
    ASSUME TypeOK', IInv, NEW n \in Node, StepDownStart(n)
    PROVE  Step
<1>1. UNCHANGED <<log, durable, role, term, vote, reported, history>>
  BY Zenon DEF StepDownStart
<1>2. \A v \in Node : StepAt(v)
  BY Zenon, <1>1, KeptStep DEF Kept
<1> QED BY Zenon, <1>1, <1>2 DEF Step, StepHistory

\* _stepDownFinish and replSetStepDown.
LEMMA StepDownStep ==
    ASSUME TypeOK', IInv, NEW n \in Node, StepDownFinish(n) \/ StepDown(n)
    PROVE  Step
<1>1. /\ role' = [role EXCEPT ![n] = "secondary"]
      /\ UNCHANGED <<log, durable, term, vote, reported, history>>
  BY Zenon DEF StepDownFinish, StepDown
<1>2. role'[n] = "secondary" /\ \A v \in Node : v # n => role'[v] = role[v]
  BY ZenonT(60), <1>1 DEF IInv, TypeOK
<1>3. StepAt(n)
  BY Zenon, <1>1, <1>2, QuietStep
<1>4. \A v \in Node : v # n => StepAt(v)
  BY Zenon, <1>1, <1>2, KeptStep DEF Kept
<1>5. StepHistory
  BY Zenon, <1>1 DEF StepHistory
<1> QED BY Zenon, <1>3, <1>4, <1>5 DEF Step

\* What a member that hears of a term takes it to be.
LEMMA TermStep ==
    ASSUME TypeOK, NEW n \in Node, NEW t \in Terms, UpdateTerm(n, t)
    PROVE  /\ NewTerm(n, t) \in Terms /\ NewTerm(n, t) \in Nat
           /\ term[n] <= NewTerm(n, t) /\ term'[n] = NewTerm(n, t)
           /\ role[n] # "secondary" => NewTerm(n, t) = term[n]
           /\ role[n] = "secondary" => t <= NewTerm(n, t)
           /\ \A v \in Node : v # n => term'[v] = term[v]
           /\ term' \in [Node -> Terms] /\ pending' \in [Node -> BOOLEAN]
           /\ \A v \in Node : pending'[v] => role[v] # "secondary"
<1>1. /\ term \in [Node -> Terms] /\ term[n] \in Nat /\ t \in Nat /\ term[n] \in Terms
      /\ pending \in [Node -> BOOLEAN]
  BY Types, CommitPointAssumption DEF TypeOK, Terms
<1>2. /\ NewTerm(n, t) \in Terms /\ NewTerm(n, t) \in Nat
      /\ term[n] <= NewTerm(n, t)
      /\ role[n] # "secondary" => NewTerm(n, t) = term[n]
      /\ role[n] = "secondary" => t <= NewTerm(n, t)
  BY <1>1 DEF NewTerm
<1>3. /\ term'[n] = NewTerm(n, t) /\ \A v \in Node : v # n => term'[v] = term[v]
      /\ term' \in [Node -> Terms]
  BY Zenon, <1>1, <1>2 DEF UpdateTerm
<1>4. /\ pending' \in [Node -> BOOLEAN]
      /\ \A v \in Node : v # n => pending'[v] = pending[v]
      /\ pending'[n] => pending[n] \/ role[n] # "secondary"
  BY Zenon, <1>1 DEF UpdateTerm
<1>5. \A v \in Node : pending'[v] => role[v] # "secondary"
  BY Zenon, <1>4 DEF TypeOK
<1> QED BY Zenon, <1>2, <1>3, <1>4, <1>5

\* A member hears of a higher term and sends its position.
LEMMA HearTermStep ==
    ASSUME IInv, TypeOK', NEW n \in Node, NEW m \in Node, HearTerm(n, m)
    PROVE  Step
<1>0. TypeOK
  BY Zenon DEF IInv
<1> DEFINE op == OpTimeAt(log[n], durable[n])
           u == NewTerm(n, term[m])
<1>1. /\ UpdateTerm(n, term[m]) /\ reported' = Send(reported, n, op, u)
      /\ UNCHANGED <<log, durable, role, vote, history>>
  BY Zenon DEF HearTerm
<1>2. /\ log[n] \in Seq(Terms) /\ Len(log[n]) <= MaxLen /\ durable[n] \in 0 .. Len(log[n])
      /\ durable[n] \in Nat /\ term[n] \in Nat /\ vote[n] \in Nat /\ term[m] \in Terms
  BY Zenon, <1>0, Types
<1>3. op \in OpTimes
  BY Zenon, <1>2, OpTimeAtParts
<1>4. /\ u \in Nat /\ term[n] <= u /\ term'[n] = u
      /\ role[n] # "secondary" => u = term[n]
      /\ \A v \in Node : v # n => term'[v] = term[v]
  BY ZenonT(60), <1>0, <1>1, <1>2, TermStep
<1>5. op = OpTimeAt(log'[n], durable'[n])
  BY ZenonT(60), <1>1
<1> HIDE DEF op, u
<1>6. /\ \A v \in Node : v # n => reported'[v] = reported[v]
      /\ Sends(n, op, u)
  BY Zenon, <1>0, <1>1, <1>3, <1>4, Sending
<1>7. StepAt(n)
  <2>1. VotesAt(n)
    <3>1. /\ vote'[n] = vote[n] /\ vote[n] <= term[n] /\ term[n] <= u /\ term'[n] = u
          /\ vote[n] \in Nat /\ term[n] \in Nat /\ u \in Nat
      BY Zenon, <1>1, <1>2, <1>4 DEF IInv, Terming
    <3> QED BY <3>1 DEF VotesAt
  <2>2. LeadersAt(n)
    BY Zenon, <1>1, <1>2, <1>4, BeginsRefl DEF LeadersAt, Leader
  <2>3. DrainedAt(n)
    BY Zenon, <1>1, <1>4 DEF DrainedAt, IInv, Drained
  <2>4. /\ log'[n] = log[n] /\ durable[n] <= durable'[n] /\ term[n] <= term'[n]
    <3>1. /\ log'[n] = log[n] /\ durable'[n] = durable[n] /\ durable[n] \in Nat
          /\ term'[n] = u /\ term[n] <= u
      BY Zenon, <1>1, <1>2, <1>4
    <3> QED BY <3>1
  <2>5. Sends(n, OpTimeAt(log'[n], durable'[n]), term'[n])
    <3>1. term'[n] = u /\ Sends(n, op, u)
      BY Zenon, <1>4, <1>6
    <3> QED BY Zenon, <1>5, <3>1
  <2> QED BY ZenonT(60), <2>1, <2>2, <2>3, <2>4, <2>5, SendStep
<1>8. \A v \in Node : v # n => StepAt(v)
  BY Zenon, <1>1, <1>4, <1>6, KeptStep DEF Kept
<1>9. StepHistory
  BY Zenon, <1>1 DEF StepHistory
<1> QED BY Zenon, <1>7, <1>8, <1>9 DEF Step

\* What a member has of the oplog of its source after a batch.
LEMMA SyncedLog ==
    ASSUME TypeOK, NEW n \in Node, NEW m \in Node, Sync(n, m)
    PROVE  /\ log'[n] \in Seq(Terms) /\ log' \in [Node -> Seq(Terms)]
           /\ \A v \in Node : v # n => log'[v] = log[v]
           /\ Begins(log[n], log'[n]) /\ Begins(log'[n], log[m])
           /\ Len(log[n]) \in Nat /\ Len(log'[n]) \in Nat /\ Len(log'[n]) <= Len(log[n]) + 1
<1>1. PICK k \in {0, 1} :
         /\ Len(log[n]) + k <= Len(log[m])
         /\ log' = [log EXCEPT
                       ![n] = @ \o SubSeq(log[m], Len(@) + 1, Len(@) + k)]
  BY Zenon DEF Sync
<1>2. /\ log[n] \in Seq(Terms) /\ log[m] \in Seq(Terms) /\ Len(log[n]) \in Nat
      /\ Len(log[m]) \in Nat /\ log \in [Node -> Seq(Terms)] /\ Begins(log[n], log[m])
  BY Zenon, Types DEF TypeOK, Sync
<1>3. PICK s \in Seq(Terms) :
         /\ s = log[n] \o SubSeq(log[m], Len(log[n]) + 1, Len(log[n]) + k)
         /\ Begins(log[n], s) /\ Begins(s, log[m])
         /\ Len(s) \in Nat /\ Len(s) <= Len(log[n]) + 1
  BY Zenon, <1>1, <1>2, Extended
<1>4. log' = [log EXCEPT ![n] = s]
  BY Zenon, <1>1, <1>3
<1>5. /\ log'[n] = s /\ log' \in [Node -> Seq(Terms)]
      /\ \A v \in Node : v # n => log'[v] = log[v]
  BY ZenonT(60), <1>2, <1>4
<1> QED BY Zenon, <1>2, <1>3, <1>5

\* A batch from the sync source that gives no primary an operation of a later term.
LEMMA SyncStep ==
    ASSUME IInv, TypeOK', NEW n \in Node, NEW m \in Node, Sync(n, m), "late" \notin strayed'
    PROVE  Step
<1>0. TypeOK
  BY SMTT(30) DEF IInv
<1> DEFINE op == OpTimeAt(log[n], durable[n])
           u == NewTerm(n, term[m])
<1>1. /\ UpdateTerm(n, term[m]) /\ reported' = Send(reported, n, op, u)
      /\ UNCHANGED <<durable, role, vote, history>>
      /\ role[n] \in {"secondary", "catchup"}
      /\ role[n] = "secondary" \/ ~(LastOp(log'[n])[1] > term[n])
  BY ZenonT(60) DEF Sync, LearnFrom, MaySync, Strays, Astray
<1>2. /\ log[n] \in Seq(Terms) /\ Len(log[n]) <= MaxLen /\ durable[n] \in 0 .. Len(log[n])
      /\ log[m] \in Seq(Terms) /\ Len(log[m]) \in Nat /\ Len(log[m]) <= MaxLen
      /\ durable[n] \in Nat /\ term[n] \in Nat /\ vote[n] \in Nat
      /\ term[m] \in Terms /\ term[m] \in Nat
  BY Zenon, <1>0, Types
<1>3. /\ log'[n] \in Seq(Terms) /\ Len(log'[n]) <= MaxLen
      /\ \A v \in Node : v # n => log'[v] = log[v]
      /\ Begins(log[n], log'[n]) /\ Begins(log'[n], log[m])
      /\ Len(log[n]) \in Nat /\ Len(log'[n]) \in Nat
  BY Zenon, <1>0, SyncedLog, TypesNext
<1>4. op \in OpTimes
  BY Zenon, <1>2, OpTimeAtParts
<1>5. /\ u \in Nat /\ term[n] <= u /\ term'[n] = u
      /\ role[n] # "secondary" => u = term[n]
      /\ role[n] = "secondary" => term[m] <= u
      /\ \A v \in Node : v # n => term'[v] = term[v]
  BY Zenon, <1>0, <1>1, <1>2, TermStep
<1>6. op = OpTimeAt(log'[n], durable'[n])
  <2>1. durable[n] # 0 => log'[n][durable[n]] = log[n][durable[n]]
    <3>1. \A k \in 1 .. Len(log[n]) : log[n][k] = log'[n][k]
      BY Zenon, <1>3 DEF Begins
    <3>2. durable[n] \in 0 .. Len(log[n]) /\ Len(log[n]) \in Nat
      BY Zenon, <1>2, <1>3
    <3> QED BY <3>1, <3>2
  <2> QED BY Zenon, <1>1, <2>1 DEF OpTimeAt
<1> HIDE DEF op, u
<1>7. /\ \A v \in Node : v # n => reported'[v] = reported[v]
      /\ Sends(n, op, u)
  BY Zenon, <1>0, <1>1, <1>4, <1>5, Sending
<1>8. StepAt(n)
  <2>1. VotesAt(n)
    <3>1. /\ vote'[n] = vote[n] /\ vote[n] <= term[n] /\ term[n] <= u /\ term'[n] = u
          /\ vote[n] \in Nat /\ term[n] \in Nat /\ u \in Nat
      BY Zenon, <1>1, <1>2, <1>5 DEF IInv, Terming
    <3> QED BY <3>1 DEF VotesAt
  <2>2. ReportsAt(n)
    <3>1. term'[n] = u /\ Sends(n, op, u)
      BY Zenon, <1>5, <1>7
    <3> QED BY Zenon, <1>6, <3>1 DEF ReportsAt
  <2>3. LogsAt(n)
    BY Zenon, <1>3 DEF LogsAt
  <2>4. TermsAt(n)
    <3> SUFFICES ASSUME NEW i \in 1 .. Len(log'[n]) PROVE log'[n][i] <= term'[n]
      BY Zenon DEF TermsAt
    <3>0. /\ Len(log'[n]) <= Len(log[m]) /\ Len(log'[n]) \in Nat /\ Len(log[m]) \in Nat
          /\ \A k \in 1 .. Len(log'[n]) : log'[n][k] = log[m][k]
      BY Zenon, <1>2, <1>3 DEF Begins
    <3>1. i \in 1 .. Len(log[m]) /\ log'[n][i] = log[m][i]
      BY <3>0
    <3>2. CASE role[n] = "secondary"
      <4>1. log[m][i] <= term[m] /\ log[m][i] \in Nat
        BY ZenonT(60), <1>2, <3>1, Entry DEF IInv, Terming
      <4>2. term[m] <= u /\ term'[n] = u /\ term[m] \in Nat /\ u \in Nat
        BY Zenon, <1>2, <1>5, <3>2
      <4> QED BY <3>1, <4>1, <4>2
    <3>3. CASE role[n] # "secondary"
      <4>1. Mono(log'[n])
        BY Zenon, <1>2, <1>3, BeginsMono DEF IInv, Shape
      <4>2. /\ LastOp(log'[n]) \in OpTimes /\ log'[n][i] <= LastOp(log'[n])[1]
            /\ log'[n][i] \in Nat
        BY ZenonT(60), <1>3, <4>1, LastOpParts, Entry
      <4>3. LastOp(log'[n])[1] \in Nat /\ ~(LastOp(log'[n])[1] > term[n])
        BY Zenon, <1>1, <3>3, <4>2, OpTimeParts
      <4> HIDE DEF LastOp
      <4> QED BY <1>2, <1>5, <3>3, <4>2, <4>3
    <3> QED BY Zenon, <3>2, <3>3
  <2>5. LeadersAt(n)
    BY Zenon, <1>1, <1>3, <1>5 DEF LeadersAt, Leader
  <2>6. DrainedAt(n)
    BY <1>1 DEF DrainedAt
  <2>7. JournalsAt(n)
    <3>1. durable[n] <= durable'[n] /\ \A k \in 1 .. durable[n] : log'[n][k] = log[n][k]
      <4>1. /\ durable'[n] = durable[n] /\ durable[n] \in 0 .. Len(log[n])
            /\ Len(log[n]) \in Nat /\ \A k \in 1 .. Len(log[n]) : log[n][k] = log'[n][k]
        BY Zenon, <1>1, <1>2, <1>3 DEF Begins
      <4> QED BY <4>1
    <3> QED BY ZenonT(60), <3>1, JournalKept
  <2> QED BY Zenon, <2>1, <2>2, <2>3, <2>4, <2>5, <2>6, <2>7 DEF StepAt
<1>9. \A v \in Node : v # n => StepAt(v)
  BY ZenonT(60), <1>1, <1>3, <1>5, <1>7, KeptStep DEF Kept
<1>10. StepHistory
  BY Zenon, <1>1 DEF StepHistory
<1> QED BY Zenon, <1>8, <1>9, <1>10 DEF Step

\* Up to the common point two oplogs have the same entries, and after it none.
LEMMA CommonPart ==
    ASSUME Counting, NEW r \in Seq(Terms), NEW s \in Seq(Terms), Agree(r, s)
    PROVE  /\ CommonPoint(r, s) \in 0 .. Len(r) /\ CommonPoint(r, s) \in Nat
           /\ \A i \in 1 .. Len(r) : i <= CommonPoint(r, s) <=> i <= Len(s) /\ r[i] = s[i]
<1> DEFINE C == {i \in 1 .. Len(r) : i <= Len(s) /\ r[i] = s[i]}
<1>1. Len(r) \in Nat /\ Len(s) \in Nat /\ C \in SUBSET (1 .. Len(r))
  OBVIOUS
<1>2. \A i \in C : \A j \in 1 .. i : j \in C
  <2> SUFFICES ASSUME NEW i \in C, NEW j \in 1 .. i PROVE j \in C
    BY Zenon
  <2>1. i \in 1 .. Len(r) /\ i \in 1 .. Len(s) /\ r[i] = s[i]
    BY <1>1
  <2>2. \A k \in 1 .. i : r[k] = s[k]
    BY <2>1, AgreeAt
  <2> QED BY <1>1, <2>1, <2>2
<1>3. CommonPoint(r, s) = Cardinality(C)
  BY DEF CommonPoint
<1> DEFINE c == Cardinality(C)
<1>4. \A i \in 1 .. Len(r) : i \in C <=> i <= Len(s) /\ r[i] = s[i]
  OBVIOUS
<1> HIDE DEF C
<1>5. c \in 0 .. Len(r) /\ C = 1 .. c
  BY Zenon, <1>1, <1>2, InitialPlaces
<1>6. c \in Nat
  BY <1>1, <1>5
<1> HIDE DEF c
<1>7. \A i \in 1 .. Len(r) : i <= c <=> i <= Len(s) /\ r[i] = s[i]
  <2>1. \A i \in 1 .. Len(r) : i <= c <=> i \in C
    BY <1>1, <1>5
  <2> QED BY Zenon, <1>4, <2>1
<1> QED BY Zenon, <1>3, <1>5, <1>6, <1>7 DEF c

\* A rollback against a source that is ahead keeps what a majority may have
\* reported.
LEMMA RollbackKeeps ==
    ASSUME Counting, IInv, NEW n \in Node, NEW m \in Node, Rollback(n, m),
           "lagging" \notin strayed'
    PROVE  \A t \in Terms : \A i \in Places :
              MayCommit(t, i) /\ Has(log[n], durable[n], t, i) =>
                 \E q \in 1 .. CommonPoint(log[n], log[m]) : i <= q /\ log[n][q] = t
<1> SUFFICES ASSUME NEW t \in Terms, NEW i \in Places, MayCommit(t, i),
                    Has(log[n], durable[n], t, i)
             PROVE  \E q \in 1 .. CommonPoint(log[n], log[m]) : i <= q /\ log[n][q] = t
  BY Zenon
<1>0. TypeOK
  BY DEF IInv
<1>1. /\ log[n] \in Seq(Terms) /\ log[m] \in Seq(Terms)
      /\ Len(log[n]) \in Nat /\ Len(log[m]) \in Nat
      /\ Len(log[n]) <= MaxLen /\ Len(log[m]) <= MaxLen
      /\ durable[n] \in 0 .. Len(log[n]) /\ t \in Nat /\ i \in Nat
  BY Zenon, <1>0, Types, PlaceOpTime
<1>2. /\ Mono(log[n]) /\ Mono(log[m]) /\ Agree(log[n], log[m]) /\ Agree(log[m], log[n])
  BY Zenon DEF IInv, Shape
<1>3. ~Begins(log[n], log[m]) /\ Less(LastOp(log[n]), LastOp(log[m]))
  BY ZenonT(60) DEF Rollback, Strays, Astray
<1> DEFINE x == log[n][Len(log[n])]
           y == log[m][Len(log[m])]
<1>4. PICK k \in 1 .. durable[n] : i <= k /\ log[n][k] = t
  BY Zenon DEF Has
<1>5. /\ k \in 1 .. Len(log[n]) /\ Len(log[n]) \in 1 .. Len(log[n])
      /\ Len(log[n]) # 0 /\ k <= Len(log[n])
  BY <1>1, <1>4
<1>6. t <= x
  BY Zenon, <1>2, <1>4, <1>5 DEF Mono
<1>7. /\ Len(log[m]) \in 1 .. Len(log[m]) /\ x \in Nat /\ y \in Nat
      /\ x < y \/ (x = y /\ Len(log[n]) <= Len(log[m]))
  BY Zenon, <1>1, <1>3, <1>5, LastOpOrder
<1>8. CASE y > t
  <2>1. Has(log[m], Len(log[m]), t, i)
    <3>1. \E z \in 1 .. Len(log[m]) : log[m][z] > t
      BY Zenon, <1>7, <1>8
    <3> QED BY Zenon, <3>1 DEF IInv, Surviving
  <2>2. Has(log[n], Len(log[n]), t, i)
    BY Zenon, <1>4, <1>5 DEF Has
  <2>3. PICK q \in 1 .. Len(log[n]) : /\ q <= Len(log[m]) /\ i <= q
                                      /\ log[n][q] = t /\ log[m][q] = log[n][q]
    <3>1. /\ log[n] \in Seq(Terms) /\ log[m] \in Seq(Terms) /\ i \in Nat
          /\ Agree(log[n], log[m]) /\ Agree(log[m], log[n])
      BY Zenon, <1>1, <1>2
    <3> QED BY <2>1, <2>2, <3>1, Overlap
  <2>4. CommonPoint(log[n], log[m]) \in Nat /\ q <= CommonPoint(log[n], log[m])
    BY Zenon, <1>1, <1>2, <2>3, CommonPart
  <2>5. q \in 1 .. CommonPoint(log[n], log[m])
    BY Zenon, <1>1, <2>4, PlaceWithin
  <2> QED BY Zenon, <2>3, <2>5
<1>9. CASE x = y /\ Len(log[n]) <= Len(log[m])
  BY Zenon, <1>1, <1>2, <1>3, <1>5, <1>9, SameTermBegins
<1> HIDE DEF x, y
<1>10. y > t \/ (x = y /\ Len(log[n]) <= Len(log[m]))
  BY <1>1, <1>6, <1>7
<1> QED BY Zenon, <1>8, <1>9, <1>10

\* BackgroundSync::_rollback.
LEMMA RollbackStep ==
    ASSUME Counting, IInv, TypeOK', NEW n \in Node, NEW m \in Node, Rollback(n, m),
           "lagging" \notin strayed'
    PROVE  Step
<1>0. TypeOK
  BY ZenonT(60) DEF IInv
<1> DEFINE c == CommonPoint(log[n], log[m])
           s == SubSeq(log[n], 1, c)
           op == OpTimeAt(s, Len(s))
<1>1. /\ role[n] = "secondary" /\ log' = [log EXCEPT ![n] = s]
      /\ durable' = [durable EXCEPT ![n] = Len(s)]
      /\ reported' = Send(reported, n, op, term[n])
      /\ UNCHANGED <<role, term, vote, history>>
  BY DEF Rollback
<1>2. /\ log[n] \in Seq(Terms) /\ log[m] \in Seq(Terms) /\ Len(log[n]) \in Nat
      /\ Len(log[n]) <= MaxLen /\ term[n] \in Nat /\ vote[n] \in Nat
      /\ Agree(log[n], log[m]) /\ log \in [Node -> Seq(Terms)]
      /\ durable \in [Node -> 0 .. MaxLen]
  BY Zenon, <1>0, Types DEF IInv, Shape, TypeOK
<1>3. c \in 0 .. Len(log[n])
  BY <1>2, CommonPart
<1>a. \A t \in Terms : \A i \in Places :
         MayCommit(t, i) /\ Has(log[n], durable[n], t, i) =>
            \E q \in 1 .. c : i <= q /\ log[n][q] = t
  BY Zenon, RollbackKeeps
<1> HIDE DEF c
<1>4. /\ s \in Seq(Terms) /\ Len(s) = c /\ Begins(s, log[n])
      /\ \A k \in 1 .. c : s[k] = log[n][k] /\ k \in 1 .. Len(log[n])
      /\ c \in 0 .. MaxLen /\ c <= MaxLen /\ c <= c /\ OpTimeAt(s, c) \in OpTimes
  BY Zenon, <1>2, <1>3, Cut
<1> HIDE DEF s
<1>5. op \in OpTimes
  BY Zenon, <1>4
<1>6. log'[n] = s /\ \A v \in Node : v # n => log'[v] = log[v]
  BY ZenonT(60), <1>1, <1>2, <1>4
<1>7. durable'[n] = c /\ \A v \in Node : v # n => durable'[v] = durable[v]
  BY ZenonT(60), <1>1, <1>2, <1>4
<1>8. op = OpTimeAt(log'[n], durable'[n])
  BY <1>4, <1>6, <1>7
<1> HIDE DEF op
<1>9. /\ \A v \in Node : v # n => reported'[v] = reported[v]
      /\ Sends(n, op, term[n])
  <2>1. reported' = Send(reported, n, op, term[n]) /\ term[n] \in Nat
    BY Zenon, <1>1, <1>2
  <2> QED BY Zenon, <1>0, <1>5, <2>1, Sending
<1>10. StepAt(n)
  <2>1. VotesAt(n)
    BY Zenon, <1>1, <1>2, Ordered DEF VotesAt, IInv, Terming
  <2>2. ReportsAt(n)
    <3>1. term'[n] = term[n] /\ Sends(n, op, term[n])
      BY Zenon, <1>1, <1>9
    <3> QED BY Zenon, <1>8, <3>1 DEF ReportsAt
  <2>3. LogsAt(n)
    BY Zenon, <1>4, <1>6 DEF LogsAt
  <2>4. TermsAt(n)
    <3> SUFFICES ASSUME NEW i \in 1 .. Len(log'[n]) PROVE log'[n][i] <= term'[n]
      BY Zenon DEF TermsAt
    <3>1. log'[n][i] = log[n][i] /\ term'[n] = term[n] /\ i \in 1 .. Len(log[n])
      BY Zenon, <1>1, <1>4, <1>6
    <3> QED BY Zenon, <3>1 DEF IInv, Terming
  <2>5. LeadersAt(n) /\ DrainedAt(n)
    BY <1>1 DEF LeadersAt, DrainedAt
  <2>6. JournalsAt(n)
    <3> SUFFICES ASSUME NEW t \in Terms, NEW i \in Places, MayCommit(t, i),
                        Has(log[n], durable[n], t, i)
                 PROVE  Has(log'[n], durable'[n], t, i)
      BY Zenon DEF JournalsAt
    <3>1. PICK q \in 1 .. c : i <= q /\ log[n][q] = t
      BY Zenon, <1>a
    <3> QED BY Zenon, <1>4, <1>6, <1>7, <3>1 DEF Has
  <2> QED BY Zenon, <2>1, <2>2, <2>3, <2>4, <2>5, <2>6 DEF StepAt
<1>11. \A v \in Node : v # n => StepAt(v)
  BY Zenon, <1>1, <1>6, <1>7, <1>9, KeptStep DEF Kept
<1>12. StepHistory
  BY <1>1 DEF StepHistory
<1> QED BY Zenon, <1>10, <1>11, <1>12 DEF Step
-----------------------------------------------------------------------------
(***************************************************************************)
(* The steps keep the types, whatever sources the members sync from        *)
(***************************************************************************)

\* The part of an oplog that an optime covers is an oplog.
LEMMA CoveredType ==
    ASSUME Counting, NEW s \in Seq(Terms), NEW c
    PROVE  Covered(s, c) \in Seq(Terms)
<1> DEFINE C == {i \in 1 .. Len(s) : s[i] < c[1] \/ (s[i] = c[1] /\ i <= c[2])}
<1>1. Len(s) \in Nat /\ C \in SUBSET (1 .. Len(s)) /\ Covered(s, c) = SubSeq(s, 1, Cardinality(C))
  BY DEF Covered
<1> HIDE DEF C
<1>2. Cardinality(C) \in 0 .. Len(s)
  BY Zenon, <1>1 DEF Counting
<1> QED BY Zenon, <1>1, <1>2, Beginning

\* The common point of two oplogs is a place of the first.
LEMMA CommonType ==
    ASSUME Counting, NEW r \in Seq(Terms), NEW s
    PROVE  CommonPoint(r, s) \in 0 .. Len(r)
<1> DEFINE C == {i \in 1 .. Len(r) : i <= Len(s) /\ r[i] = s[i]}
<1>1. Len(r) \in Nat /\ C \in SUBSET (1 .. Len(r)) /\ CommonPoint(r, s) = Cardinality(C)
  BY DEF CommonPoint
<1> HIDE DEF C
<1> QED BY Zenon, <1>1 DEF Counting

\* A write, and the no-op of a new primary.
LEMMA WriteTypes ==
    ASSUME TypeOK, NEW n \in Node, Write(n) \/ LogTransitionToPrimary(n)
    PROVE  TypeOK'
<1>1. /\ log[n] \in Seq(Terms) /\ Len(log[n]) \in Nat /\ term[n] \in Terms
      /\ durable[n] \in 0 .. Len(log[n]) /\ Len(log[n]) < MaxLen
  BY Types DEF Write, LogTransitionToPrimary
<1>2. /\ log' = [log EXCEPT ![n] = Append(log[n], term[n])]
      /\ role' \in [Node -> Roles]
      /\ \A v \in Node : pending[v] => role'[v] # "secondary"
      /\ UNCHANGED <<durable, pending, term, vote, commit, reported, history,
                     strayed, incidents>>
  BY Zenon DEF Write, LogTransitionToPrimary, TypeOK, Roles
<1>3. /\ Append(log[n], term[n]) \in Seq(Terms)
      /\ Len(Append(log[n], term[n])) = Len(log[n]) + 1
  BY ZenonT(60), <1>1, Appended
<1>4. /\ log'[n] = Append(log[n], term[n]) /\ \A v \in Node : v # n => log'[v] = log[v]
      /\ log' \in [Node -> Seq(Terms)]
  BY Zenon, <1>2, <1>3 DEF TypeOK
<1>5. durable'[n] <= Len(log'[n]) /\ Len(log'[n]) <= MaxLen
  BY <1>1, <1>2, <1>3, <1>4, CommitPointAssumption
<1>6. \A v \in Node : durable'[v] <= Len(log'[v]) /\ Len(log'[v]) <= MaxLen
  BY Zenon, <1>2, <1>4, <1>5 DEF TypeOK
<1> QED BY Zenon, <1>2, <1>4, <1>6 DEF TypeOK

\* The durable position of a member is an optime.
LEMMA PositionType ==
    ASSUME TypeOK, NEW n \in Node
    PROVE  OpTimeAt(log[n], durable[n]) \in OpTimes
  BY Zenon, Types, OpTimeAtParts

\* A commit point that is told is an optime, and what it commits an oplog.
LEMMA SetCommitTypes ==
    ASSUME Counting, TypeOK, NEW n \in Node, NEW c \in OpTimes,
           SetCommit(n, c) \/ SetCommit(n, CommitFrom(n, c)) \/ SetCommit(n, commit[n])
    PROVE  commit' \in [Node -> OpTimes] /\ history' \in Seq(Terms)
<1>1. commit \in [Node -> OpTimes] /\ history \in Seq(Terms) /\ log[n] \in Seq(Terms)
  BY Zenon DEF TypeOK
<1>2. CommitFrom(n, c) \in OpTimes /\ commit[n] \in OpTimes
  BY Zenon, <1>1 DEF CommitFrom, Advanced
<1>3. PICK e \in OpTimes : SetCommit(n, e)
  BY Zenon, <1>2
<1>4. Covered(log[n], e) \in Seq(Terms)
  BY Zenon, <1>1, CoveredType
<1> QED BY Zenon, <1>1, <1>3, <1>4 DEF SetCommit

\* Positions arrive, or a new primary has drained.
LEMMA CommitTypes ==
    ASSUME Counting, TypeOK, NEW n \in Node, UpdatePosition(n) \/ DrainComplete(n)
    PROVE  TypeOK'
<1>1. PICK c \in MajorityOpTimes(n, OpTimeAt(log[n], durable[n])) :
         SetCommit(n, c) \/ SetCommit(n, CommitFrom(n, c)) \/ SetCommit(n, commit[n])
  <2>1. CASE UpdatePosition(n)
    BY Zenon, <2>1 DEF UpdatePosition
  <2>2. CASE DrainComplete(n)
    <3>1. PICK c \in MajorityOpTimes(n, OpTimeAt(log[n], durable[n])) :
             SetCommit(n, IF \/ pending[n] \/ AtLeast(commit[n], c)
                             \/ Less(c, LastOp(log[n])) THEN commit[n] ELSE c)
      BY Zenon, <2>2 DEF DrainComplete
    <3> QED BY Zenon, <3>1
  <2> QED BY Zenon, <2>1, <2>2
<1>2. c \in OpTimes
  BY Zenon, MajorityOpTimesAre
<1>3. commit' \in [Node -> OpTimes] /\ history' \in Seq(Terms)
  BY Zenon, <1>1, <1>2, SetCommitTypes
<1>4. /\ role' \in [Node -> Roles] /\ \A v \in Node : pending[v] => role'[v] # "secondary"
      /\ UNCHANGED <<log, durable, pending, term, vote, reported, strayed, incidents>>
  BY ZenonT(60) DEF UpdatePosition, DrainComplete, TypeOK, Roles
<1> QED BY Zenon, <1>3, <1>4 DEF TypeOK

\* The journal reaches the end of the oplog.
LEMMA JournalTypes ==
    ASSUME Counting, TypeOK, NEW n \in Node, Journal(n)
    PROVE  TypeOK'
<1> DEFINE d == Len(log[n])
           op == OpTimeAt(log[n], d)
<1>1. /\ durable' = [durable EXCEPT ![n] = d] /\ reported' = Send(reported, n, op, term[n])
      /\ UNCHANGED <<log, role, pending, term, vote, strayed, incidents>>
  BY Zenon DEF Journal
<1>2. PICK c \in MajorityOpTimes(n, op) : SetCommit(n, CommitFrom(n, c))
  BY Zenon DEF Journal, LastOp
<1>3. /\ log[n] \in Seq(Terms) /\ d \in Nat /\ d <= MaxLen /\ d \in 0 .. Len(log[n])
      /\ d \in 0 .. MaxLen /\ d <= d /\ term[n] \in Nat
  BY SMTT(30), Types, CommitPointAssumption
<1>4. op \in OpTimes /\ c \in OpTimes
  BY Zenon, <1>3, OpTimeAtParts, MajorityOpTimesAre
<1>5. commit' \in [Node -> OpTimes] /\ history' \in Seq(Terms)
  BY Zenon, <1>2, <1>4, SetCommitTypes
<1>6. reported' \in [Node -> [Terms -> OpTimes]]
  BY Zenon, <1>1, <1>3, <1>4, Sending
<1>7. /\ durable' \in [Node -> 0 .. MaxLen]
      /\ \A v \in Node : durable'[v] <= Len(log'[v]) /\ Len(log'[v]) <= MaxLen
  BY ZenonT(60), <1>1, <1>3 DEF TypeOK
<1> QED BY Zenon, <1>1, <1>5, <1>6, <1>7 DEF TypeOK

\* One more incident is within the bound.
LEMMA IncidentType ==
    ASSUME TypeOK, Incident
    PROVE  incidents' \in 0 .. MaxIncidents
  BY CommitPointAssumption DEF Incident, TypeOK

\* Stepping down.
LEMMA StepDownTypes ==
    ASSUME TypeOK, NEW n \in Node, StepDownStart(n) \/ StepDownFinish(n) \/ StepDown(n)
    PROVE  TypeOK'
<1>1. /\ role' \in [Node -> Roles] /\ pending' \in [Node -> BOOLEAN]
      /\ \A v \in Node : pending'[v] => role'[v] # "secondary"
  <2>1. CASE StepDownStart(n)
    BY ZenonT(60), <2>1 DEF StepDownStart, TypeOK
  <2>2. CASE StepDownFinish(n) \/ StepDown(n)
    BY ZenonT(60), <2>2 DEF StepDownFinish, StepDown, TypeOK, Roles
  <2> QED BY Zenon, <2>1, <2>2
<1>2. incidents' \in 0 .. MaxIncidents
  BY Zenon, IncidentType DEF StepDownStart, StepDownFinish, StepDown, TypeOK
<1>3. UNCHANGED <<log, durable, term, vote, commit, reported, history, strayed>>
  BY Zenon DEF StepDownStart, StepDownFinish, StepDown
<1> QED BY Zenon, <1>1, <1>2, <1>3 DEF TypeOK

\* A member hears of a higher term.
LEMMA HearTermTypes ==
    ASSUME TypeOK, NEW n \in Node, NEW m \in Node, HearTerm(n, m)
    PROVE  TypeOK'
<1>1. /\ UpdateTerm(n, term[m])
      /\ reported' = Send(reported, n, OpTimeAt(log[n], durable[n]), NewTerm(n, term[m]))
      /\ UNCHANGED <<log, durable, role, vote, commit, history, strayed, incidents>>
  BY Zenon DEF HearTerm
<1>2. /\ term' \in [Node -> Terms] /\ pending' \in [Node -> BOOLEAN]
      /\ \A v \in Node : pending'[v] => role[v] # "secondary"
      /\ NewTerm(n, term[m]) \in Nat
  BY Zenon, <1>1, Types, TermStep
<1>3. reported' \in [Node -> [Terms -> OpTimes]]
  BY Zenon, <1>1, <1>2, PositionType, Sending
<1> QED BY Zenon, <1>1, <1>2, <1>3 DEF TypeOK

\* A batch from the sync source.
LEMMA SyncTypes ==
    ASSUME TypeOK, NEW n \in Node, NEW m \in Node, Sync(n, m)
    PROVE  TypeOK'
<1>1. /\ UpdateTerm(n, term[m])
      /\ reported' = Send(reported, n, OpTimeAt(log[n], durable[n]), NewTerm(n, term[m]))
      /\ commit' = [commit EXCEPT ![n] = Advanced(n, commit[m])]
      /\ strayed' = strayed \cup Strays(n, m, log'[n])
      /\ UNCHANGED <<durable, role, vote, history, incidents>>
  BY Zenon DEF Sync, LearnFrom
<1>2. /\ term' \in [Node -> Terms] /\ pending' \in [Node -> BOOLEAN]
      /\ \A v \in Node : pending'[v] => role[v] # "secondary"
      /\ NewTerm(n, term[m]) \in Nat
  BY Zenon, <1>1, Types, TermStep
<1>3. reported' \in [Node -> [Terms -> OpTimes]]
  BY Zenon, <1>1, <1>2, PositionType, Sending
<1>4. commit' \in [Node -> OpTimes]
  <2>1. Advanced(n, commit[m]) \in OpTimes
    BY DEF Advanced, TypeOK
  <2> QED BY Zenon, <1>1, <2>1 DEF TypeOK
<1>5. strayed' \in SUBSET Astray
  BY Zenon, <1>1 DEF TypeOK, Strays
<1>6. /\ log' \in [Node -> Seq(Terms)] /\ \A v \in Node : v # n => log'[v] = log[v]
      /\ Begins(log[n], log'[n]) /\ Begins(log'[n], log[m]) /\ Len(log'[n]) \in Nat
  BY Zenon, SyncedLog
<1>7. durable'[n] <= Len(log'[n]) /\ Len(log'[n]) <= MaxLen
  <2>1. /\ Len(log[n]) <= Len(log'[n]) /\ Len(log'[n]) <= Len(log[m])
        /\ durable'[n] = durable[n]
    BY Zenon, <1>1, <1>6 DEF Begins
  <2>2. /\ durable[n] \in 0 .. Len(log[n]) /\ Len(log[m]) <= MaxLen
        /\ Len(log[n]) \in Nat /\ Len(log[m]) \in Nat /\ MaxLen \in Nat
    BY Zenon, Types, CommitPointAssumption
  <2> QED BY <1>6, <2>1, <2>2
<1>8. \A v \in Node : durable'[v] <= Len(log'[v]) /\ Len(log'[v]) <= MaxLen
  BY Zenon, <1>1, <1>6, <1>7 DEF TypeOK
<1> QED BY Zenon, <1>1, <1>2, <1>3, <1>4, <1>5, <1>6, <1>8 DEF TypeOK

\* A rollback.
LEMMA RollbackTypes ==
    ASSUME Counting, TypeOK, NEW n \in Node, NEW m \in Node, Rollback(n, m)
    PROVE  TypeOK'
<1> DEFINE c == CommonPoint(log[n], log[m])
           s == SubSeq(log[n], 1, c)
           op == OpTimeAt(s, Len(s))
<1>1. /\ log' = [log EXCEPT ![n] = s] /\ durable' = [durable EXCEPT ![n] = Len(s)]
      /\ reported' = Send(reported, n, op, term[n])
      /\ strayed' = strayed \cup Strays(n, m, s)
      /\ UNCHANGED <<role, pending, term, vote, commit, history, incidents>>
  BY DEF Rollback
<1>2. /\ log[n] \in Seq(Terms) /\ Len(log[n]) <= MaxLen /\ term[n] \in Nat
      /\ c \in 0 .. Len(log[n])
  BY Zenon, Types, CommonType
<1> HIDE DEF c
<1>3. /\ s \in Seq(Terms) /\ Len(s) = c /\ c \in 0 .. MaxLen /\ c <= MaxLen /\ c <= c
      /\ op \in OpTimes
  BY Zenon, <1>2, Cut
<1> HIDE DEF s, op
<1>4. reported' \in [Node -> [Terms -> OpTimes]]
  BY Zenon, <1>1, <1>2, <1>3, Sending
<1>5. strayed' \in SUBSET Astray
  BY Zenon, <1>1 DEF TypeOK, Strays
<1>6. /\ log' \in [Node -> Seq(Terms)] /\ durable' \in [Node -> 0 .. MaxLen]
      /\ \A v \in Node : durable'[v] <= Len(log'[v]) /\ Len(log'[v]) <= MaxLen
  BY ZenonT(60), <1>1, <1>3 DEF TypeOK
<1> QED BY Zenon, <1>1, <1>4, <1>5, <1>6 DEF TypeOK

\* An election.
LEMMA ElectionTypes ==
    ASSUME TypeOK, NEW n \in Node, NEW Q \in SUBSET Node, WinElection(n, Q)
    PROVE  TypeOK'
<1> DEFINE t == term[n] + 1
           All == Q \cup {n}
           op(v) == OpTimeAt(log[v], durable[v])
<1>1. /\ t + incidents <= MaxTerm
      /\ term' = [v \in Node |-> IF v \in All THEN t ELSE term[v]]
      /\ vote' = [v \in Node |-> IF v \in All THEN t ELSE vote[v]]
      /\ role' = [role EXCEPT ![n] = "catchup"]
      /\ reported' = [v \in Node |-> IF v \in All THEN Send(reported, v, op(v), t)[v]
                                     ELSE reported[v]]
      /\ UNCHANGED <<log, durable, pending, commit, history, strayed, incidents>>
  BY DEF WinElection
<1>2. t \in Terms
  <2>1. term[n] \in Nat /\ incidents \in Nat
    BY Types, CommitPointAssumption DEF TypeOK
  <2> QED BY <1>1, <2>1, CommitPointAssumption DEF Terms
<1> HIDE DEF t, All
<1>3. term' \in [Node -> Terms] /\ vote' \in [Node -> Terms]
  BY Zenon, <1>1, <1>2 DEF TypeOK
<1>4. /\ role' \in [Node -> Roles]
      /\ \A v \in Node : pending'[v] => role'[v] # "secondary"
  BY Zenon, <1>1 DEF TypeOK, Roles
<1>5. reported' \in [Node -> [Terms -> OpTimes]]
  <2>1. ASSUME NEW v \in Node PROVE Send(reported, v, op(v), t)[v] \in [Terms -> OpTimes]
    <3>1. op(v) \in OpTimes /\ reported \in [Node -> [Terms -> OpTimes]]
      BY Zenon, PositionType DEF TypeOK
    <3> HIDE DEF op
    <3> QED BY Zenon, <3>1 DEF Send
  <2> HIDE DEF op
  <2> QED BY Zenon, <1>1, <2>1 DEF TypeOK
<1> QED BY Zenon, <1>1, <1>3, <1>4, <1>5 DEF TypeOK

\* A restart.
LEMMA RestartTypes ==
    ASSUME TypeOK, NEW n \in Node, Restart(n)
    PROVE  TypeOK'
<1> DEFINE s == SubSeq(log[n], 1, durable[n])
           t == IF LastOp(s)[1] > vote[n] THEN LastOp(s)[1] ELSE vote[n]
           op == OpTimeAt(s, Len(s))
<1>1. /\ log' = [log EXCEPT ![n] = s] /\ role' = [role EXCEPT ![n] = "secondary"]
      /\ pending' = [pending EXCEPT ![n] = FALSE] /\ term' = [term EXCEPT ![n] = t]
      /\ commit' = [commit EXCEPT ![n] = Null] /\ reported' = Send(reported, n, op, t)
      /\ UNCHANGED <<durable, vote, history, strayed>> /\ Incident
  BY Zenon DEF Restart
<1>2. /\ log[n] \in Seq(Terms) /\ Len(log[n]) <= MaxLen /\ durable[n] \in 0 .. Len(log[n])
      /\ vote[n] \in Terms /\ vote[n] \in Nat
  BY Zenon, Types
<1>3. /\ s \in Seq(Terms) /\ Len(s) = durable[n] /\ durable[n] <= MaxLen
      /\ durable[n] <= durable[n] /\ op \in OpTimes
  BY Zenon, <1>2, Cut
<1>4. t \in Terms /\ t \in Nat
  <2> DEFINE l == LastOp(s)[1]
  <2>1. l \in Nat /\ (l # 0 => l \in Terms)
    <3>1. op[1] \in Nat /\ (op[1] > 0 => op \in Terms \X Places)
      BY Zenon, <1>3, OpTimeParts
    <3> HIDE DEF op, s
    <3> QED BY <3>1 DEF LastOp, op
  <2>2. t = IF l > vote[n] THEN l ELSE vote[n]
    OBVIOUS
  <2> HIDE DEF l, t
  <2> QED BY <1>2, <2>1, <2>2, CommitPointAssumption DEF Terms
<1> HIDE DEF s, t, op
<1>5. reported' \in [Node -> [Terms -> OpTimes]]
  BY Zenon, <1>1, <1>3, <1>4, Sending
<1>6. /\ log' \in [Node -> Seq(Terms)]
      /\ \A v \in Node : durable'[v] <= Len(log'[v]) /\ Len(log'[v]) <= MaxLen
  BY ZenonT(60), <1>1, <1>3 DEF TypeOK
<1>7. /\ role' \in [Node -> Roles] /\ pending' \in [Node -> BOOLEAN]
      /\ \A v \in Node : pending'[v] => role'[v] # "secondary"
  BY Zenon, <1>1 DEF TypeOK, Roles
<1>8. term' \in [Node -> Terms] /\ commit' \in [Node -> OpTimes]
  BY Zenon, <1>1, <1>4 DEF TypeOK, OpTimes
<1>9. incidents' \in 0 .. MaxIncidents
  BY Zenon, <1>1, IncidentType
<1> QED BY Zenon, <1>1, <1>5, <1>6, <1>7, <1>8, <1>9 DEF TypeOK

\* Every step keeps the types.
LEMMA TypeStep ==
    ASSUME Counting, TypeOK, [Next]_vars
    PROVE  TypeOK'
<1>1. CASE UNCHANGED vars
  BY Zenon, <1>1 DEF vars, TypeOK
<1>2. ASSUME NEW n \in Node,
             \/ Write(n) \/ Journal(n) \/ UpdatePosition(n)
             \/ StepDownStart(n) \/ StepDownFinish(n) \/ StepDown(n)
             \/ LogTransitionToPrimary(n) \/ DrainComplete(n) \/ Restart(n)
      PROVE  TypeOK'
  BY Zenon, <1>2, WriteTypes, JournalTypes, CommitTypes, StepDownTypes, RestartTypes
<1>3. ASSUME NEW n \in Node, NEW m \in Node,
             HearTerm(n, m) \/ Sync(n, m) \/ Rollback(n, m)
      PROVE  TypeOK'
  BY Zenon, <1>3, HearTermTypes, SyncTypes, RollbackTypes
<1>4. ASSUME NEW n \in Node, NEW Q \in SUBSET Node, WinElection(n, Q)
      PROVE  TypeOK'
  BY Zenon, <1>4, ElectionTypes
<1> QED BY Zenon, <1>1, <1>2, <1>3, <1>4 DEF Next
=============================================================================
