------------------------------ MODULE OpTimes ------------------------------
(***************************************************************************)
(* Optimes and oplogs.  An OpTime is <<term, timestamp>> and is ordered by *)
(* term first.  An oplog is the sequence of the terms of its entries: the  *)
(* timestamp of an entry is its place.  Entries of one term come from one  *)
(* primary, so two entries are the same operation when they agree in term  *)
(* and place.                                                              *)
(***************************************************************************)
EXTENDS Naturals, Sequences, FiniteSets

Null == <<0, 0>>

Less(a, b) == a[1] < b[1] \/ (a[1] = b[1] /\ a[2] < b[2])
AtLeast(a, b) == ~Less(a, b)
Later(a, b) == IF Less(a, b) THEN b ELSE a

OpTimeAt(s, i) == IF i = 0 THEN Null ELSE <<s[i], i>>
LastOp(s) == OpTimeAt(s, Len(s))

\* Oplog r is the beginning of oplog s.
Begins(r, s) == Len(r) <= Len(s) /\ \A i \in 1 .. Len(r) : r[i] = s[i]

\* The operation of optime op is in oplog s.
InLog(op, s) == op[2] \in 1 .. Len(s) /\ s[op[2]] = op[1]

\* The part of oplog s that optime c covers.
Covered(s, c) ==
    SubSeq(s, 1, Cardinality({i \in 1 .. Len(s) :
                                 s[i] < c[1] \/ (s[i] = c[1] /\ i <= c[2])}))

\* ReplicaSetConfig::_calculateMajorities for the voters S, none an arbiter.
WriteMajorityOf(S) == Cardinality(S) \div 2 + 1
=============================================================================
