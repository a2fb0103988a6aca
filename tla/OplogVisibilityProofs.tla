------------------------ MODULE OplogVisibilityProofs ------------------------
(***************************************************************************)
(* Who reads the oplog forward misses no entry, now and after a crash of   *)
(* the primary, for any number of writers and any batches.                 *)
(*                                                                         *)
(* The argument is in two parts of the invariant.  Shown: what was read is *)
(* before everything in _uncommittedRecordIds.  Overtaken: a transaction   *)
(* that is not in the journal yet, and was committed after one with later  *)
(* timestamps, still has its first id in _uncommittedRecordIds.            *)
(***************************************************************************)
EXTENDS OplogVisibility, WellFoundedInduction, TLAPS

-----------------------------------------------------------------------------
(***************************************************************************)
(* The inductive invariant                                                 *)
(***************************************************************************)

Ids(w) == writer[w].first .. writer[w].last
Live(w) == writer[w].pc \in {"registered", "inserted"}
Hidden(w) == writer[w].pc \in {"registered", "inserted", "committed"}
Done(w) == writer[w].pc \in {"committed", "dealt"}

WriterState ==
    [pc : {"idle", "registered", "inserted", "committed", "dealt"},
     first : Nat, last : Nat]

Types ==
    /\ writer \in [Writer -> WriterState]
    /\ lastTs \in 0 .. MaxTs /\ highestSeen \in 0 .. lastTs
    /\ applied \in Nat /\ durable \in Nat
    /\ uncommitted \in SUBSET (1 .. lastTs)
    /\ waiting \in SUBSET uncommitted
    /\ wtLog \in Seq(SUBSET Nat)
    /\ flushed \in 0 .. Len(wtLog)
    /\ thread \in [pc : {"check", "asleep", "called", "returned"},
                   batch : SUBSET uncommitted, served : BOOLEAN]
    /\ sync \in [pc : {"free", "token", "flushed"}, by : Syncer \cup {"nobody"},
                 token : Nat]
    /\ readTill \in Nat
    /\ read \in SUBSET Nat

\* The timestamps of a writer, and where its first one is.
WriterOK(w) ==
    /\ writer[w].pc = "idle" => writer[w] = Idle
    /\ writer[w].pc # "idle" =>
          /\ 1 <= writer[w].first
          /\ writer[w].first <= writer[w].last
          /\ writer[w].last <= lastTs
    /\ writer[w].pc \in {"inserted", "committed", "dealt"} =>
          writer[w].last <= highestSeen
    /\ Hidden(w) => /\ writer[w].first \in uncommitted
                    /\ writer[w].first \notin waiting \cup thread.batch

Writers ==
    /\ \A w \in Writer : WriterOK(w)
    /\ \A v, w \in Writer :
          v # w /\ Hidden(v) /\ Hidden(w) => Ids(v) \cap Ids(w) = {}

\* The transactions in the log, and those still to come, share no timestamp.
Logged ==
    /\ \A i \in 1 .. Len(wtLog) : wtLog[i] \in SUBSET (1 .. highestSeen)
    /\ \A i, k \in 1 .. Len(wtLog) : i # k => wtLog[i] \cap wtLog[k] = {}
    /\ \A w \in Writer, i \in 1 .. Len(wtLog) :
          Live(w) => wtLog[i] \cap Ids(w) = {}
    /\ \A w \in Writer : Done(w) => \E i \in 1 .. Len(wtLog) : wtLog[i] = Ids(w)

\* The ops that wait for the journal are committed, and when the thread is told
\* that they are in the journal, they are.
Journaling ==
    /\ waiting \cap thread.batch = {}
    /\ waiting \cup thread.batch \subseteq Committed
    /\ thread.pc = "returned" => thread.batch \subseteq Flushed
    /\ thread.pc = "called" /\ thread.served /\ sync.pc # "token" =>
          thread.batch \subseteq Flushed
    /\ thread.pc \in {"called", "returned"} <=> thread.batch # {}
    /\ sync.by = "oplogJournalThread" => /\ sync.pc # "free"
                                         /\ thread.pc = "called"
                                         /\ thread.served

\* What is applied is committed, and what is durable is in the journal.
Positions ==
    /\ applied \in Committed \cup {0}
    /\ sync.pc # "free" => sync.token \in Committed \cup {0}
    /\ sync.pc = "flushed" => sync.token \in Flushed \cup {0}
    /\ durable \in Flushed \cup {0}

\* A transaction at place k of the log, which is not in the journal, that was
\* committed after one with a later timestamp: its first id is still hidden.
Overtaken ==
    \A k \in flushed + 1 .. Len(wtLog) :
       (\E i \in 1 .. k - 1 : \E x \in wtLog[k], y \in wtLog[i] : x < y) =>
          \E u \in uncommitted \cap wtLog[k] : \A x \in wtLog[k] : u <= x

\* What was read, and what may be read, is before all that is hidden.
Shown ==
    /\ read \subseteq Committed
    /\ \A id \in read : \A u \in uncommitted : id < u
    /\ \A id \in read : \A j \in Committed : j < id => j \in read
    /\ readTill # None => /\ readTill <= lastTs
                          /\ \A u \in uncommitted : readTill <= u

IInv == /\ Types /\ Writers /\ Logged /\ Journaling /\ Positions /\ Overtaken
        /\ Shown

-----------------------------------------------------------------------------
(***************************************************************************)
(* The log                                                                 *)
(***************************************************************************)

\* What it is to be an entry of the first n transactions.
LEMMA EntriesOf ==
    \A n, x : x \in Entries(n) <=> \E i \in 1 .. n : x \in wtLog[i]
BY DEF Entries

\* A transaction goes behind those that are in the log.
LEMMA AppendOne ==
    ASSUME NEW s \in Seq(SUBSET Nat), NEW T \in SUBSET Nat
    PROVE  /\ Append(s, T) \in Seq(SUBSET Nat)
           /\ Len(Append(s, T)) = Len(s) + 1
           /\ \A i \in 1 .. Len(s) : Append(s, T)[i] = s[i]
           /\ Append(s, T)[Len(s) + 1] = T
OBVIOUS

\* The first of a set of record ids.
LEMMA FirstIsFirst ==
    ASSUME NEW S \in SUBSET Nat, S # {}
    PROVE  First(S) \in S /\ \A j \in S : First(S) <= j
<1> DEFINE R == OpToRel(<, Nat)
<1>1. IsWellFoundedOn(R, Nat)
  BY Zenon, NatLessThanWellFounded
<1>2. \A x, y \in Nat : y < x => <<y, x>> \in R
  BY DEF OpToRel
<1> HIDE DEF R
<1>3. \E i \in S : \A j \in S : ~(<<j, i>> \in R)
  BY Zenon, <1>1, WFMin
<1>4. PICK i \in S : \A j \in S : ~(<<j, i>> \in R)
  BY <1>3
<1>5. ASSUME NEW j \in S PROVE i <= j
  <2>1. i \in Nat /\ j \in Nat /\ ~(j < i)
    BY Zenon, <1>2, <1>4
  <2> QED
    BY <2>1
<1> QED
  BY Zenon, <1>5 DEF First

\* What an action shows of the transactions that are not in the journal was not
\* needed to hide one of them.
LEMMA OvertakenKept ==
    ASSUME Overtaken, wtLog' = wtLog, flushed' = flushed,
           \A k \in flushed + 1 .. Len(wtLog) :
              uncommitted \cap wtLog[k] \subseteq uncommitted'
    PROVE  Overtaken'
BY DEF Overtaken

\* An action that neither logs nor flushes keeps the entries as they are.
LEMMA SameEntries ==
    ASSUME wtLog' = wtLog, flushed' = flushed
    PROVE  Committed' = Committed /\ Flushed' = Flushed
BY DEF Committed, Flushed, Entries

\* What is in the journal is committed, and what is committed has been inserted.
LEMMA EntriesBounded ==
    ASSUME Types, Logged
    PROVE  Flushed \subseteq Committed /\ Committed \subseteq 1 .. highestSeen
BY SMTT(30) DEF Types, Logged, Committed, Flushed, Entries

-----------------------------------------------------------------------------
(***************************************************************************)
(* Every action keeps the invariant                                        *)
(***************************************************************************)

\* getNextOpTime: new timestamps are later than all others.
LEMMA KeepGetNextOpTime ==
    ASSUME IInv, NEW w \in Writer, NEW k \in 1 .. MaxBatch, GetNextOpTime(w, k)
    PROVE  IInv'
<1> USE OplogVisibilityAssumption DEF IInv, records, journal, Ids, Live, Hidden, Done
<1>0. Committed' = Committed /\ Flushed' = Flushed
  BY SameEntries DEF GetNextOpTime
<1>1. Types'
  BY DEF Types, WriterState, Writers, WriterOK, GetNextOpTime, Idle
<1>2. Writers'
  BY SMTT(30) DEF Types, WriterState, Writers, WriterOK, GetNextOpTime, Idle
<1>3. Logged'
  BY SMTT(30) DEF Types, WriterState, Writers, WriterOK, Logged, GetNextOpTime, Idle
<1>4. Journaling'
  BY <1>0 DEF Journaling, GetNextOpTime, Idle
<1>5. Positions'
  BY <1>0 DEF Positions, GetNextOpTime, Idle
<1>6. Overtaken'
  BY OvertakenKept DEF GetNextOpTime, Idle
<1>7. Shown'
  <2>1. read \subseteq 1 .. lastTs
    BY EntriesBounded DEF Types, Shown
  <2> QED
    BY <1>0, <2>1 DEF Types, Shown, GetNextOpTime
<1> QED
  BY <1>1, <1>2, <1>3, <1>4, <1>5, <1>6, <1>7 DEF IInv

\* _insertRecords moves only _oplog_highestSeen.
LEMMA KeepInsertRecords ==
    ASSUME IInv, NEW w \in Writer, InsertRecords(w)
    PROVE  IInv'
<1> USE OplogVisibilityAssumption DEF IInv, records, journal
<1>w. /\ \A v \in Writer : v # w => writer'[v] = writer[v]
      /\ writer'[w] = [pc |-> "inserted", first |-> writer[w].first,
                       last |-> writer[w].last]
      /\ writer' \in [Writer -> WriterState]
  <2>1. /\ writer \in [Writer -> WriterState]
        /\ writer' = [writer EXCEPT ![w].pc = "inserted"]
    BY DEF Types, InsertRecords
  <2> QED
    BY <2>1 DEF WriterState
<1>p. \A v \in Writer : /\ Ids(v)' = Ids(v) /\ Ids(v) \in SUBSET Nat
                        /\ Live(v)' <=> (Live(v))
                        /\ Hidden(v)' <=> (Hidden(v))
                        /\ v # w => (Done(v)' <=> Done(v))
                        /\ writer[v].first \in Nat /\ writer[v].last \in Nat
  <2>1. /\ writer \in [Writer -> WriterState]
        /\ writer[w].pc = "registered"
    BY DEF Types, InsertRecords
  <2> QED
    BY <1>w, <2>1 DEF WriterState, Ids, Live, Hidden, Done
<1>h. /\ highestSeen' \in 0 .. lastTs
      /\ highestSeen <= highestSeen'
      /\ writer[w].last <= highestSeen'
  BY SMTT(30) DEF Types, WriterState, Writers, WriterOK, InsertRecords, Later
<1>u. /\ writer[w].pc = "registered"
      /\ UNCHANGED <<lastTs, uncommitted, waiting, wtLog, applied, journal, thread,
                     readTill, read>>
  BY DEF InsertRecords
<1>0. Committed' = Committed /\ Flushed' = Flushed
  BY SameEntries DEF InsertRecords
<1>1. Types'
  BY ZenonT(60), <1>w, <1>h, <1>u DEF Types
<1>2. Writers'
  <2>1. ASSUME NEW v \in Writer, v # w PROVE WriterOK(v)'
    BY <1>w, <1>p, <1>h, <1>u, <2>1 DEF Types, WriterState, Writers, WriterOK
  <2>2. WriterOK(w)'
    BY <1>w, <1>p, <1>h, <1>u DEF Types, WriterState, Writers, WriterOK
  <2> QED
    BY <1>p, <2>1, <2>2 DEF Writers
<1>3. Logged'
  <2>1. Done(w)' <=> Done(w)
    BY <1>w, <1>u DEF Done
  <2>2. 1 .. highestSeen \subseteq 1 .. highestSeen'
    BY <1>h DEF Types
  <2>3. \A v \in Writer : (Done(v)' <=> Done(v))
    BY <1>p, <2>1
  <2> QED
    BY SMTT(30), <1>p, <1>u, <2>2, <2>3 DEF Logged
<1>4. Journaling'
  BY <1>0 DEF Journaling, InsertRecords, Later
<1>5. Positions'
  BY <1>0 DEF Positions, InsertRecords, Later
<1>6. Overtaken'
  BY OvertakenKept DEF InsertRecords, Later
<1>7. Shown'
  BY <1>0 DEF Shown, InsertRecords, Later
<1> QED
  BY <1>1, <1>2, <1>3, <1>4, <1>5, <1>6, <1>7 DEF IInv

\* A transaction that commits may be overtaken, and then is hidden.
LEMMA KeepTxnClose ==
    ASSUME IInv, NEW w \in Writer, TxnClose(w)
    PROVE  IInv'
<1> USE OplogVisibilityAssumption DEF IInv, records, journal
<1>w. /\ \A v \in Writer : v # w => writer'[v] = writer[v]
      /\ writer'[w] = [pc |-> "committed", first |-> writer[w].first,
                       last |-> writer[w].last]
      /\ writer' \in [Writer -> WriterState]
  <2>1. /\ writer \in [Writer -> WriterState]
        /\ writer' = [writer EXCEPT ![w].pc = "committed"]
    BY DEF Types, TxnClose
  <2> QED
    BY <2>1 DEF WriterState
<1>p. \A v \in Writer : /\ Ids(v)' = Ids(v) /\ Ids(v) \in SUBSET Nat
                        /\ Live(v)' <=> (Live(v) /\ v # w)
                        /\ Hidden(v)' <=> (Hidden(v))
                        /\ v # w => (Done(v)' <=> Done(v))
                        /\ writer[v].first \in Nat /\ writer[v].last \in Nat
  <2>1. /\ writer \in [Writer -> WriterState]
        /\ writer[w].pc = "inserted"
    BY DEF Types, TxnClose
  <2> QED
    BY <1>w, <2>1 DEF WriterState, Ids, Live, Hidden, Done
<1>u. /\ writer[w].pc = "inserted"
      /\ UNCHANGED <<records, applied, journal, thread, readTill, read>>
  BY DEF TxnClose
<1>i. Ids(w) \in SUBSET Nat
  BY <1>p
<1>l. /\ wtLog' \in Seq(SUBSET Nat)
      /\ Len(wtLog) \in Nat
      /\ Len(wtLog') = Len(wtLog) + 1
      /\ \A i \in 1 .. Len(wtLog) : wtLog'[i] = wtLog[i]
      /\ wtLog'[Len(wtLog) + 1] = Ids(w)
  BY <1>i, AppendOne DEF Types, TxnClose, Ids
<1>e. Flushed' = Flushed /\ Committed' = Committed \cup Ids(w)
  <2>1. \A i \in 1 .. flushed : i \in 1 .. Len(wtLog)
    BY DEF Types
  <2>2. Flushed' = Flushed
    BY <1>l, <1>u, <2>1 DEF Flushed, Entries
  <2>3. ASSUME NEW x
        PROVE  x \in Committed' <=> x \in Committed \/ x \in Ids(w)
    <3>1. x \in Committed' <=> \E i \in 1 .. Len(wtLog') : x \in wtLog'[i]
      BY DEF Committed, Entries
    <3> QED
      BY <1>l, <3>1, EntriesOf DEF Committed
  <2> QED
    BY <2>2, <2>3
<1>1. Types'
  BY SMTT(30), <1>w, <1>l, <1>u DEF Types
<1>2. Writers'
  <2>1. ASSUME NEW v \in Writer, v # w PROVE WriterOK(v)'
    BY SMTT(30), <1>w, <1>p, <1>u, <2>1 DEF Writers, WriterOK
  <2>2. WriterOK(w)'
    BY SMTT(30), <1>w, <1>p, <1>u DEF Writers, WriterOK
  <2> QED
    BY <1>p, <2>1, <2>2 DEF Writers
<1>3. Logged'
  <2>1. Ids(w) \in SUBSET (1 .. highestSeen)
    BY <1>p, <1>u DEF Types, WriterState, Writers, WriterOK, Ids
  <2>2. ASSUME NEW i \in 1 .. Len(wtLog')
        PROVE  \/ i \in 1 .. Len(wtLog) /\ wtLog'[i] = wtLog[i]
               \/ i = Len(wtLog) + 1 /\ wtLog'[i] = Ids(w)
    BY <1>l
  <2>3. \A i \in 1 .. Len(wtLog) : wtLog[i] \cap Ids(w) = {}
    BY <1>u DEF Logged, Live
  <2>4. \A i \in 1 .. Len(wtLog') : wtLog'[i] \in SUBSET (1 .. highestSeen')
    BY <1>u, <2>1, <2>2 DEF Logged
  <2>5. \A i, k \in 1 .. Len(wtLog') : i # k => wtLog'[i] \cap wtLog'[k] = {}
    BY <2>2, <2>3 DEF Logged
  <2>6. ASSUME NEW v \in Writer, NEW i \in 1 .. Len(wtLog'), Live(v)'
        PROVE  wtLog'[i] \cap Ids(v)' = {}
    <3>1. Live(v) /\ v # w
      BY <1>p, <2>6
    <3>2. Hidden(v) /\ Hidden(w)
      BY <1>u, <3>1 DEF Live, Hidden
    <3> QED
      BY <1>p, <2>2, <3>1, <3>2 DEF Logged, Writers
  <2>7. ASSUME NEW v \in Writer, Done(v)'
        PROVE  \E i \in 1 .. Len(wtLog') : wtLog'[i] = Ids(v)'
    <3>1. 1 .. Len(wtLog) \subseteq 1 .. Len(wtLog')
      BY <1>l
    <3>2. Len(wtLog) + 1 \in 1 .. Len(wtLog')
      BY <1>l
    <3> QED
      BY <1>l, <1>p, <2>7, <3>1, <3>2 DEF Logged
  <2> QED
    BY SMTT(30), <2>4, <2>5, <2>6, <2>7 DEF Logged
<1>4. Journaling'
  BY <1>e, <1>u DEF Journaling
<1>5. Positions'
  BY <1>e, <1>u DEF Positions
<1>6. Overtaken'
  <2>1. /\ writer[w].first \in uncommitted \cap Ids(w)
        /\ \A x \in Ids(w) : writer[w].first <= x
    BY <1>p, <1>u DEF Writers, WriterOK, Ids, Hidden
  <2>2. ASSUME NEW k \in flushed' + 1 .. Len(wtLog'),
               NEW i \in 1 .. k - 1, NEW x \in wtLog'[k], NEW y \in wtLog'[i],
               x < y
        PROVE  \E u \in uncommitted' \cap wtLog'[k] : \A z \in wtLog'[k] : u
        <= z
    <3>1. CASE k = Len(wtLog) + 1
      BY <1>l, <1>u, <2>1, <3>1
    <3>2. CASE k # Len(wtLog) + 1
      <4>1. /\ k \in flushed + 1 .. Len(wtLog)
            /\ k \in 1 .. Len(wtLog) /\ i \in 1 .. Len(wtLog)
        <5>1. flushed \in Nat /\ flushed' = flushed
          BY <1>l, <1>u DEF Types
        <5> QED
          BY <1>l, <3>2, <5>1
      <4>2. wtLog'[k] = wtLog[k] /\ wtLog'[i] = wtLog[i]
        BY <1>l, <4>1
      <4> QED
        BY <1>u, <2>2, <4>1, <4>2 DEF Overtaken
    <3> QED
      BY <3>1, <3>2
  <2> QED
    BY SMTT(30), <2>2 DEF Overtaken
<1>7. Shown'
  <2>1. \A id \in read : \A j \in Ids(w) : id < j /\ ~(j < id)
    <3>1. writer[w].first \in uncommitted
      BY <1>u DEF Writers, WriterOK, Hidden
    <3>2. read \subseteq Nat
      BY DEF Types
    <3> QED
      BY <1>p, <3>1, <3>2 DEF Shown, Ids
  <2> QED
    BY <1>e, <1>u, <2>1 DEF Shown
<1> QED
  BY <1>1, <1>2, <1>3, <1>4, <1>5, <1>6, <1>7 DEF IInv

\* CappedInsertChange::commit: only an op that nothing has overtaken is shown
\* before it is in the journal.
LEMMA KeepDealtWithCappedId ==
    ASSUME IInv, NEW w \in Writer, DealtWithCappedId(w)
    PROVE  IInv'
<1> USE OplogVisibilityAssumption DEF IInv, records, journal
<1>w. /\ \A v \in Writer : v # w => writer'[v] = writer[v]
      /\ writer'[w] = [pc |-> "dealt", first |-> writer[w].first,
                       last |-> writer[w].last]
      /\ writer' \in [Writer -> WriterState]
  <2>1. /\ writer \in [Writer -> WriterState]
        /\ writer' = [writer EXCEPT ![w].pc = "dealt"]
    BY DEF Types, DealtWithCappedId
  <2> QED
    BY <2>1 DEF WriterState
<1>p. \A v \in Writer : /\ Ids(v)' = Ids(v) /\ Ids(v) \in SUBSET Nat
                        /\ Live(v)' <=> (Live(v))
                        /\ Hidden(v)' <=> (Hidden(v) /\ v # w)
                        /\ v # w => (Done(v)' <=> Done(v))
                        /\ writer[v].first \in Nat /\ writer[v].last \in Nat
  <2>1. /\ writer \in [Writer -> WriterState]
        /\ writer[w].pc = "committed"
    BY DEF Types, DealtWithCappedId
  <2> QED
    BY <1>w, <2>1 DEF WriterState, Ids, Live, Hidden, Done
<1>t. /\ thread' \in [pc : {"check", "asleep", "called", "returned"},
                        batch : SUBSET uncommitted, served : BOOLEAN]
      /\ thread'.batch = thread.batch
      /\ thread'.pc \in {"called", "returned"} => thread' = thread
      /\ thread.pc \in {"called", "returned"} => thread' = thread
  <2>1. thread' = thread \/ (thread.pc = "asleep" /\ thread' = Waiting)
    BY DEF DealtWithCappedId, DeferRecordId, EraseRecordId, Notified
  <2>2. thread.pc = "asleep" => thread.batch = {}
    BY DEF Journaling
  <2>3. Waiting \in [pc : {"check", "asleep", "called", "returned"},
                     batch : SUBSET uncommitted, served : BOOLEAN]
    BY DEF Waiting
  <2> QED
    <3>1. CASE thread' = thread
      BY <3>1 DEF Types
    <3>2. CASE thread.pc = "asleep" /\ thread' = Waiting
      BY <2>2, <2>3, <3>2 DEF Waiting
    <3> QED
      BY <2>1, <3>1, <3>2
<1>u. /\ writer[w].pc = "committed"
      /\ UNCHANGED <<lastTs, highestSeen, wtLog, applied, journal, readTill, read>>
  BY DEF DealtWithCappedId
<1>c. \/ waiting' = waiting \cup {writer[w].first} /\ UNCHANGED uncommitted
      \/ /\ writer[w].first = highestSeen
         /\ uncommitted' = uncommitted \ {writer[w].first}
         /\ UNCHANGED waiting
  BY DEF DealtWithCappedId, DeferRecordId, EraseRecordId
<1>m. PICK m \in 1 .. Len(wtLog) : wtLog[m] = Ids(w)
  BY SMTT(30), <1>u DEF Logged, Done
<1>f. writer[w].first \in Ids(w) /\ writer[w].first \in Committed
  BY <1>m, <1>p, <1>u, EntriesOf DEF Writers, WriterOK, Ids, Committed
<1>0. Committed' = Committed /\ Flushed' = Flushed
  BY SameEntries DEF DealtWithCappedId
<1>1. Types'
  <2>1. /\ writer[w].first \in uncommitted
        /\ writer[w].first \notin waiting \cup thread.batch
    BY <1>u DEF Writers, WriterOK, Hidden
  <2>2. /\ uncommitted' \in SUBSET (1 .. lastTs)
        /\ waiting' \in SUBSET uncommitted'
        /\ thread.batch \in SUBSET uncommitted'
    BY ZenonT(30), <1>c, <2>1 DEF Types
  <2>3. thread' \in [pc : {"check", "asleep", "called", "returned"},
                     batch : SUBSET uncommitted', served : BOOLEAN]
    BY <1>t, <2>2
  <2> QED
    BY SMTT(30), <1>w, <1>u, <2>2, <2>3 DEF Types
<1>2. Writers'
  <2>1. ASSUME NEW v \in Writer, v # w PROVE WriterOK(v)'
    <3>1. Hidden(v) => writer[v].first # writer[w].first
      <4>1. Hidden(v) => writer[v].first \in Ids(v)
        BY SMTT(30), <1>p DEF Writers, WriterOK, Hidden, Ids
      <4>2. Hidden(v) => Ids(v) \cap Ids(w) = {}
        BY ZenonT(60), <1>u, <2>1 DEF Writers, Hidden
      <4> QED
        BY SMTT(30), <1>f, <4>1, <4>2
    <3> QED
      BY SMTT(30), <1>w, <1>p, <1>u, <1>t, <1>c, <2>1, <3>1 DEF Writers, WriterOK
  <2>2. WriterOK(w)'
    BY SMTT(30), <1>w, <1>p, <1>u DEF Writers, WriterOK
  <2> QED
    BY SMTT(30), <1>p, <2>1, <2>2 DEF Writers
<1>3. Logged'
  <2>1. Done(w)' <=> Done(w)
    BY SMTT(30), <1>w, <1>u DEF Done
  <2>2. \A v \in Writer : (Done(v)' <=> Done(v))
    BY <1>p, <2>1
  <2>3. wtLog' = wtLog /\ highestSeen' = highestSeen
    BY <1>u
  <2>4. \A v \in Writer : Ids(v)' = Ids(v) /\ (Live(v)' <=> Live(v))
    BY <1>p
  <2>5. \A v \in Writer, i \in 1 .. Len(wtLog') : Live(v)' => wtLog'[i] \cap Ids(v)' = {}
    BY <2>3, <2>4 DEF Logged
  <2>6. \A v \in Writer : Done(v)' => \E i \in 1 .. Len(wtLog') : wtLog'[i] = Ids(v)'
    BY <2>2, <2>3, <2>4 DEF Logged
  <2> QED
    BY <2>3, <2>5, <2>6 DEF Logged
<1>4. Journaling'
  <2>1. writer[w].first \notin waiting \cup thread.batch
    BY <1>u DEF Writers, WriterOK, Hidden
  <2>2. /\ waiting' \cap thread'.batch = {}
        /\ waiting' \cup thread'.batch \subseteq Committed'
    BY <1>0, <1>c, <1>t, <1>f, <2>1 DEF Journaling
  <2> QED
    BY SMTT(30), <1>0, <1>t, <1>u, <2>2 DEF Types, Journaling
<1>5. Positions'
  BY <1>0, <1>u DEF Positions
<1>6. Overtaken'
  <2>1. CASE UNCHANGED uncommitted
    BY <1>u, <2>1, OvertakenKept
  <2>2. CASE /\ writer[w].first = highestSeen
             /\ uncommitted' = uncommitted \ {writer[w].first}
    <3>1. \A x \in wtLog[m], i \in 1 .. Len(wtLog) : \A y \in wtLog[i] : ~(x <
    y)
      BY <1>m, <1>p, <2>2 DEF Types, Logged, Ids
    <3>2. \A k \in 1 .. Len(wtLog) : k # m => writer[w].first \notin wtLog[k]
      BY <1>m, <1>f DEF Logged
    <3>3. ASSUME NEW k \in flushed' + 1 .. Len(wtLog'),
                 NEW i \in 1 .. k - 1, NEW x \in wtLog'[k], NEW y \in
                 wtLog'[i],
                 x < y
          PROVE  \E u \in uncommitted' \cap wtLog'[k] : \A z \in wtLog'[k] : u
          <= z
      <4>1. /\ k \in flushed + 1 .. Len(wtLog)
            /\ k \in 1 .. Len(wtLog) /\ i \in 1 .. Len(wtLog)
        BY <1>u DEF Types
      <4>2. k # m
        BY <1>u, <3>1, <3>3, <4>1
      <4> QED
        BY SMTT(30), <1>u, <2>2, <3>2, <3>3, <4>1, <4>2 DEF Overtaken
    <3> QED
      BY SMTT(30), <3>3 DEF Overtaken
  <2> QED
    BY SMTT(30), <1>c, <2>1, <2>2
<1>7. Shown'
  BY SMTT(30), <1>0, <1>u, <1>c DEF Shown, None
<1> QED
  BY <1>1, <1>2, <1>3, <1>4, <1>5, <1>6, <1>7 DEF IInv

\* The hook of _logOpsInner: what is applied is committed.
LEMMA KeepOnCommit ==
    ASSUME IInv, NEW w \in Writer, OnCommit(w)
    PROVE  IInv'
<1> USE OplogVisibilityAssumption DEF IInv, records, journal, Ids, Live, Hidden, Done
<1>0. Committed' = Committed /\ Flushed' = Flushed
  BY SMTT(30), SameEntries DEF OnCommit
<1>1. Types'
  BY SMTT(30) DEF Types, WriterState, Writers, WriterOK, OnCommit, Idle, Later
<1>2. Writers'
  BY SMTT(30) DEF Writers, WriterOK, OnCommit, Idle, Later
<1>3. Logged'
  BY DEF Logged, OnCommit, Idle, Later
<1>4. Journaling'
  BY <1>0 DEF Journaling, OnCommit, Idle, Later
<1>5. Positions'
  <2>1. writer[w].last \in Committed
    <3>1. PICK i \in 1 .. Len(wtLog) : wtLog[i] = Ids(w)
      BY DEF Logged, OnCommit
    <3>2. writer[w].last \in Ids(w)
      BY DEF Types, WriterState, Writers, WriterOK, OnCommit
    <3> QED
      BY Zenon, <3>1, <3>2, EntriesOf DEF Committed
  <2> QED
    BY <1>0, <2>1 DEF Positions, OnCommit, Later
<1>6. Overtaken'
  BY OvertakenKept DEF OnCommit, Idle, Later
<1>7. Shown'
  BY <1>0 DEF Shown, OnCommit, Idle, Later
<1> QED
  BY <1>1, <1>2, <1>3, <1>4, <1>5, <1>6, <1>7 DEF IInv

\* CappedInsertChange::rollback: the timestamps belong to no entry.
LEMMA KeepAbort ==
    ASSUME IInv, NEW w \in Writer, Abort(w)
    PROVE  IInv'
<1> USE OplogVisibilityAssumption DEF IInv, records, journal, Ids, Live, Hidden, Done
<1>0. Committed' = Committed /\ Flushed' = Flushed
  BY SameEntries DEF Abort
<1>1. Types'
  <2>1. writer' \in [Writer -> WriterState]
    BY DEF Types, WriterState, Abort, Idle
  <2>2. writer[w].first \notin waiting \cup thread.batch
    BY DEF Writers, WriterOK, Abort
  <2> QED
    BY Zenon, <2>1, <2>2 DEF Types, Abort, EraseRecordId
<1>2. Writers'
  <2>1. ASSUME NEW v \in Writer PROVE WriterOK(v)'
    <3>1. CASE v = w
      BY SMTT(30), <3>1 DEF Types, WriterOK, Abort, Idle
    <3>2. CASE v # w
      <4>1. Hidden(v) => writer[v].first # writer[w].first
        BY SMTT(30), <3>2 DEF Types, WriterState, Writers, WriterOK, Abort
      <4> QED
        BY SMTT(30), <3>2, <4>1 DEF Types, Writers, WriterOK, Abort, EraseRecordId
    <3> QED
      BY <3>1, <3>2
  <2> QED
    BY <2>1 DEF Types, Writers, Abort, Idle
<1>3. Logged'
  BY SMTT(30) DEF Logged, Abort, EraseRecordId, Idle
<1>4. Journaling'
  BY <1>0 DEF Journaling, Abort, EraseRecordId, Idle
<1>5. Positions'
  BY <1>0 DEF Positions, Abort, EraseRecordId, Idle
<1>6. Overtaken'
  <2>1. \A k \in 1 .. Len(wtLog) : writer[w].first \notin wtLog[k]
    <3>1. writer[w].first \in Ids(w)
      BY DEF Types, WriterState, Writers, WriterOK, Abort
    <3> QED
      BY <3>1 DEF Logged, Abort
  <2>2. /\ uncommitted' = uncommitted \ {writer[w].first}
        /\ UNCHANGED <<wtLog, flushed>>
    BY DEF Abort, EraseRecordId
  <2>3. \A k \in flushed + 1 .. Len(wtLog) : k \in 1 .. Len(wtLog)
    BY DEF Types
  <2> QED
    BY ZenonT(60), <2>1, <2>2, <2>3, OvertakenKept
<1>7. Shown'
  BY <1>0 DEF Shown, Abort, EraseRecordId, Idle
<1> QED
  BY <1>1, <1>2, <1>3, <1>4, <1>5, <1>6, <1>7 DEF IInv

\* The ops the thread takes are still hidden.
LEMMA KeepTakeOpsWaiting ==
    ASSUME IInv, TakeOpsWaiting
    PROVE  IInv'
<1> USE OplogVisibilityAssumption DEF IInv, records, journal, Ids, Live, Hidden, Done
<1>0. Committed' = Committed /\ Flushed' = Flushed
  BY SameEntries DEF TakeOpsWaiting
<1>1. Types'
  BY SMTT(30) DEF Types, TakeOpsWaiting
<1>2. Writers'
  BY DEF Writers, WriterOK, TakeOpsWaiting
<1>3. Logged'
  BY DEF Logged, TakeOpsWaiting
<1>4. Journaling'
  BY <1>0 DEF Journaling, TakeOpsWaiting
<1>5. Positions'
  BY <1>0 DEF Positions, TakeOpsWaiting
<1>6. Overtaken'
  BY OvertakenKept DEF TakeOpsWaiting
<1>7. Shown'
  BY <1>0 DEF Shown, TakeOpsWaiting
<1> QED
  BY <1>1, <1>2, <1>3, <1>4, <1>5, <1>6, <1>7 DEF IInv

\* Another thread's sync has flushed what the thread waits for.
LEMMA KeepAlreadySynced ==
    ASSUME IInv, AlreadySynced
    PROVE  IInv'
<1> USE OplogVisibilityAssumption DEF IInv, records, journal, Ids, Live, Hidden, Done
<1>0. Committed' = Committed /\ Flushed' = Flushed
  BY SameEntries DEF AlreadySynced
<1>1. Types'
  BY Zenon DEF Types, AlreadySynced
<1>2. Writers'
  BY DEF Writers, WriterOK, AlreadySynced
<1>3. Logged'
  BY DEF Logged, AlreadySynced
<1>4. Journaling'
  BY <1>0 DEF Journaling, AlreadySynced
<1>5. Positions'
  BY <1>0 DEF Positions, AlreadySynced
<1>6. Overtaken'
  BY OvertakenKept DEF AlreadySynced
<1>7. Shown'
  BY <1>0 DEF Shown, AlreadySynced
<1> QED
  BY <1>1, <1>2, <1>3, <1>4, <1>5, <1>6, <1>7 DEF IInv

\* The token is a committed op.
LEMMA KeepGetToken ==
    ASSUME IInv, NEW by \in Syncer, GetToken(by)
    PROVE  IInv'
<1> USE OplogVisibilityAssumption DEF IInv, records, journal, Ids, Live, Hidden, Done
<1>0. Committed' = Committed /\ Flushed' = Flushed
  BY SameEntries DEF GetToken
<1>1. Types'
  BY Zenon DEF Types, GetToken
<1>2. Writers'
  BY DEF Writers, WriterOK, GetToken
<1>3. Logged'
  BY DEF Logged, GetToken
<1>4. Journaling'
  BY <1>0, Zenon DEF Types, Journaling, GetToken
<1>5. Positions'
  BY <1>0 DEF Positions, GetToken
<1>6. Overtaken'
  BY OvertakenKept DEF GetToken
<1>7. Shown'
  BY <1>0 DEF Shown, GetToken
<1> QED
  BY <1>1, <1>2, <1>3, <1>4, <1>5, <1>6, <1>7 DEF IInv

\* The flush takes all that is committed to the journal.
LEMMA KeepLogFlush ==
    ASSUME IInv, LogFlush
    PROVE  IInv'
<1> USE OplogVisibilityAssumption DEF IInv, records, journal, Ids, Live, Hidden, Done
<1>l. Len(wtLog) \in Nat
  BY DEF Types
<1>e. Flushed' = Committed /\ Committed' = Committed
  BY DEF LogFlush, Flushed, Committed, Entries
<1>s. /\ sync' = [pc |-> "flushed", by |-> sync.by, token |-> sync.token]
      /\ sync.pc = "token"
  BY SMTT(30) DEF Types, LogFlush
<1>u. /\ flushed' = Len(wtLog)
      /\ UNCHANGED <<writer, records, wtLog, applied, durable, thread, readTill,
                     read>>
  BY DEF LogFlush
<1>1. Types'
  BY <1>l, <1>s, <1>u DEF Types
<1>2. Writers'
  BY ZenonT(60), <1>u DEF Writers, WriterOK
<1>3. Logged'
  BY <1>u DEF Logged
<1>4. Journaling'
  BY <1>e, <1>s, <1>u DEF Types, Journaling
<1>5. Positions'
  BY SMTT(30), <1>e, <1>s, <1>u, EntriesBounded DEF Positions
<1>6. Overtaken'
  BY <1>l, <1>u DEF Overtaken
<1>7. Shown'
  BY <1>e, <1>u DEF Shown
<1> QED
  BY <1>1, <1>2, <1>3, <1>4, <1>5, <1>6, <1>7 DEF IInv

\* The token is in the journal when it is reported.
LEMMA KeepOnDurable ==
    ASSUME IInv, OnDurable
    PROVE  IInv'
<1> USE OplogVisibilityAssumption DEF IInv, records, journal, Ids, Live, Hidden, Done
<1>0. Committed' = Committed /\ Flushed' = Flushed
  BY SameEntries DEF OnDurable, Return
<1>1. Types'
  <2>1. durable' \in Nat
    BY DEF Types, OnDurable, Later
  <2>2. 0 \in Nat
    OBVIOUS
  <2> QED
    BY ZenonT(60), <2>1, <2>2 DEF Types, OnDurable, Return, NoSync
<1>2. Writers'
  BY DEF Writers, WriterOK, OnDurable, Return, Later, NoSync
<1>3. Logged'
  BY DEF Logged, OnDurable, Return, Later, NoSync
<1>4. Journaling'
  BY <1>0 DEF Journaling, OnDurable, Return, Later, NoSync
<1>5. Positions'
  BY <1>0 DEF Positions, OnDurable, Return, Later, NoSync
<1>6. Overtaken'
  BY OvertakenKept DEF OnDurable, Return, Later, NoSync
<1>7. Shown'
  BY <1>0 DEF Shown, OnDurable, Return, Later, NoSync
<1> QED
  BY <1>1, <1>2, <1>3, <1>4, <1>5, <1>6, <1>7 DEF IInv

\* The ops that are shown are in the journal.
LEMMA KeepOpsBecameVisible ==
    ASSUME IInv, OpsBecameVisible
    PROVE  IInv'
<1> USE OplogVisibilityAssumption DEF IInv, records, journal, Ids, Live, Hidden, Done
<1>0. Committed' = Committed /\ Flushed' = Flushed
  BY SameEntries DEF OpsBecameVisible
<1>1. Types'
  BY Zenon DEF Types, Journaling, OpsBecameVisible, Waiting
<1>2. Writers'
  BY SMTT(30) DEF Writers, WriterOK, OpsBecameVisible, Waiting
<1>3. Logged'
  BY DEF Logged, OpsBecameVisible, Waiting
<1>4. Journaling'
  BY SMTT(30), <1>0 DEF Journaling, OpsBecameVisible, Waiting
<1>5. Positions'
  BY <1>0 DEF Positions, OpsBecameVisible, Waiting
<1>6. Overtaken'
  <2>1. \A u \in thread.batch : \E i \in 1 .. flushed : u \in wtLog[i]
    BY EntriesOf DEF Journaling, Flushed, OpsBecameVisible
  <2>2. \A k \in flushed + 1 .. Len(wtLog) : thread.batch \cap wtLog[k] = {}
    <3> SUFFICES ASSUME NEW k \in flushed + 1 .. Len(wtLog),
                        NEW u \in thread.batch, u \in wtLog[k]
                 PROVE  FALSE
      OBVIOUS
    <3>1. PICK i \in 1 .. flushed : u \in wtLog[i]
      BY <2>1
    <3>2. i \in 1 .. Len(wtLog) /\ k \in 1 .. Len(wtLog) /\ i # k
      BY DEF Types
    <3> QED
      BY <3>1, <3>2 DEF Logged
  <2>3. uncommitted' = uncommitted \ thread.batch /\ UNCHANGED <<wtLog,
  flushed>>
    BY DEF OpsBecameVisible
  <2> QED
    BY ZenonT(60), <2>2, <2>3, OvertakenKept
<1>7. Shown'
  BY <1>0 DEF Shown, OpsBecameVisible, Waiting
<1> QED
  BY <1>1, <1>2, <1>3, <1>4, <1>5, <1>6, <1>7 DEF IInv

\* A cursor may read up to the first hidden op.
LEMMA KeepOplogSetStartHack ==
    ASSUME IInv, OplogSetStartHack
    PROVE  IInv'
<1> USE OplogVisibilityAssumption DEF IInv, records, journal, Ids, Live, Hidden, Done
<1>f. uncommitted # {} =>
         /\ First(uncommitted) \in uncommitted
         /\ \A u \in uncommitted : First(uncommitted) <= u
  BY FirstIsFirst DEF Types
<1>0. Committed' = Committed /\ Flushed' = Flushed
  BY SameEntries DEF OplogSetStartHack
<1>1. Types'
  BY SMTT(30), <1>f DEF Types, OplogSetStartHack
<1>2. Writers'
  BY ZenonT(60) DEF Writers, WriterOK, OplogSetStartHack, None
<1>3. Logged'
  BY DEF Logged, OplogSetStartHack, None
<1>4. Journaling'
  BY <1>0 DEF Journaling, OplogSetStartHack, None
<1>5. Positions'
  BY <1>0 DEF Positions, OplogSetStartHack, None
<1>6. Overtaken'
  BY OvertakenKept DEF OplogSetStartHack, None
<1>7. Shown'
  BY <1>0, <1>f DEF Types, Shown, OplogSetStartHack
<1> QED
  BY <1>1, <1>2, <1>3, <1>4, <1>5, <1>6, <1>7 DEF IInv

\* What is read is before all that is hidden.
LEMMA KeepReadForward ==
    ASSUME IInv, ReadForward
    PROVE  IInv'
<1> USE OplogVisibilityAssumption DEF IInv, records, journal, Ids, Live, Hidden, Done
<1>0. Committed' = Committed /\ Flushed' = Flushed
  BY SameEntries DEF ReadForward
<1>1. Types'
  <2>1. Committed \subseteq Nat
    BY EntriesBounded DEF Types
  <2>2. read' \in SUBSET Nat
    BY Zenon, <2>1 DEF Types, ReadForward
  <2>3. readTill' \in Nat
    BY SMTT(30) DEF ReadForward, None
  <2> QED
    BY <2>2, <2>3 DEF Types, ReadForward
<1>2. Writers'
  BY DEF Writers, WriterOK, ReadForward, None, IsCappedHidden
<1>3. Logged'
  BY Zenon DEF Logged, ReadForward
<1>4. Journaling'
  BY <1>0 DEF Journaling, ReadForward, None, IsCappedHidden
<1>5. Positions'
  BY <1>0 DEF Positions, ReadForward, None, IsCappedHidden
<1>6. Overtaken'
  BY OvertakenKept DEF ReadForward, None, IsCappedHidden
<1>7. Shown'
  <2> DEFINE New == read' \ read
  <2>1. \A id \in New : /\ id \in Committed
                        /\ \A j \in read : j < id
                        /\ \/ id < readTill
                           \/ id = readTill /\ ~IsCappedHidden(id)
    BY DEF ReadForward
  <2>2. read \subseteq read' /\ read' \subseteq Committed
    BY <2>1 DEF Shown, ReadForward
  <2>3. Committed \subseteq Nat
    BY EntriesBounded DEF Types
  <2>4. ASSUME NEW id \in read', NEW u \in uncommitted
        PROVE  id < u
    <3>1. CASE id \in read
      BY <3>1 DEF Shown
    <3>2. CASE id \in New
      <4>1. readTill <= u /\ readTill \in Nat /\ u \in Nat /\ id \in Nat
        BY <2>1, <2>3, <3>2 DEF Types, Shown, ReadForward
      <4>2. CASE id < readTill
        BY <4>1, <4>2
      <4>3. CASE ~IsCappedHidden(id)
        BY <4>1, <4>3 DEF IsCappedHidden
      <4> QED
        BY SMTT(30), <2>1, <3>2, <4>2, <4>3
    <3> QED
      BY <3>1, <3>2
  <2>5. ASSUME NEW id \in read', NEW j \in Committed, j < id
        PROVE  j \in read'
    <3>1. CASE \E r \in read : ~(r < j)
      <4>1. PICK r \in read : ~(r < j)
        BY <3>1
      <4>2. j = r \/ j < r
        BY <2>2, <2>3, <4>1
      <4> QED
        BY <2>2, <4>2 DEF Shown
    <3>2. CASE \A r \in read : r < j
      <4>1. id \notin read
        BY <2>2, <2>3, <2>5, <3>2
      <4>2. id <= readTill /\ readTill \in Nat
        <5>1. id \in New /\ id \in Nat /\ readTill \in Nat
          BY <2>2, <2>3, <4>1 DEF Types
        <5> QED
          BY <2>1, <5>1
      <4>3. j < readTill
        BY <2>3, <2>5, <4>2, <2>2
      <4> QED
        BY <3>2, <4>3 DEF ReadForward
    <3> QED
      BY <3>1, <3>2
  <2>6. readTill' = None /\ UNCHANGED uncommitted
    BY DEF ReadForward, records
  <2> QED
    BY <1>0, <2>2, <2>4, <2>5, <2>6 DEF Shown
<1> QED
  BY <1>1, <1>2, <1>3, <1>4, <1>5, <1>6, <1>7 DEF IInv

-----------------------------------------------------------------------------
(***************************************************************************)
(* The theorems                                                            *)
(***************************************************************************)

\* The invariant holds of an oplog nobody writes.
LEMMA InitIInv == Init => IInv
<1> SUFFICES ASSUME Init PROVE IInv
  OBVIOUS
<1> USE OplogVisibilityAssumption DEF Init
<1>1. Types
  BY DEF Types, WriterState, Idle, Waiting, NoSync, None, Syncer
<1>2. Committed = {} /\ Flushed = {}
  BY DEF Committed, Flushed, Entries
<1>3. Writers
  BY DEF Writers, WriterOK, Hidden, Idle
<1>4. Logged
  BY DEF Logged, Live, Done, Idle
<1>5. Journaling
  BY <1>2 DEF Journaling, Waiting, NoSync
<1>6. Positions
  BY DEF Positions, NoSync
<1>7. Overtaken
  BY DEF Overtaken
<1>8. Shown
  BY DEF Shown
<1> QED
  BY <1>1, <1>3, <1>4, <1>5, <1>6, <1>7, <1>8 DEF IInv

\* Every step keeps it.
LEMMA NextIInv == IInv /\ [Next]_vars => IInv'
<1> SUFFICES ASSUME IInv, [Next]_vars PROVE IInv'
  OBVIOUS
<1>1. ASSUME NEW w \in Writer, NEW k \in 1 .. MaxBatch, GetNextOpTime(w, k)
      PROVE  IInv'
  BY <1>1, KeepGetNextOpTime
<1>2. ASSUME NEW w \in Writer, WriterStep(w) \/ Abort(w)
      PROVE  IInv'
  BY <1>2, KeepInsertRecords, KeepTxnClose, KeepDealtWithCappedId, KeepOnCommit,
     KeepAbort DEF WriterStep
<1>3. CASE TakeOpsWaiting \/ AlreadySynced \/ OpsBecameVisible
  BY <1>3, KeepTakeOpsWaiting, KeepAlreadySynced, KeepOpsBecameVisible
<1>4. ASSUME NEW t \in Syncer, GetToken(t)
      PROVE  IInv'
  BY <1>4, KeepGetToken
<1>5. CASE LogFlush \/ OnDurable \/ OplogSetStartHack \/ ReadForward
  BY <1>5, KeepLogFlush, KeepOnDurable, KeepOplogSetStartHack, KeepReadForward
<1>6. CASE UNCHANGED vars
  <2>1. Committed' = Committed /\ Flushed' = Flushed
    BY <1>6, SameEntries DEF vars, journal
  <2> USE <1>6 DEF IInv, vars, records, journal, Ids, Live, Hidden, Done
  <2>2. Types'
    BY Zenon DEF Types
  <2>3. Writers'
    BY Zenon DEF Writers, WriterOK
  <2>4. Logged'
    BY Zenon DEF Logged
  <2>5. Journaling'
    BY <2>1 DEF Journaling
  <2>6. Positions' /\ Shown'
    BY SMTT(30), <2>1 DEF Positions, Shown
  <2>7. Overtaken'
    BY OvertakenKept
  <2> QED
    BY <2>2, <2>3, <2>4, <2>5, <2>6, <2>7
<1> QED
  BY <1>1, <1>2, <1>3, <1>4, <1>5, <1>6 DEF Next

\* The invariant holds in every reachable state.
LEMMA Invariance == Spec => []IInv
BY InitIInv, NextIInv, PTL DEF Spec

\* The types, and what holds of the ids that wait for the journal.
\* (_opsWaitingForJournal and _uncommittedRecordIds.)
THEOREM OplogTypes == Spec => []TypeOK
<1>1. ASSUME IInv PROVE TypeOK
  <2> USE <1>1, OplogVisibilityAssumption DEF IInv
  <2>1. highestSeen \in 0 .. MaxTs /\ lastTs \in 0 .. MaxTs
    BY DEF Types
  <2>2. Committed \subseteq 1 .. MaxTs
    BY <2>1, EntriesBounded
  <2>3. applied \in 0 .. MaxTs /\ durable \in 0 .. MaxTs
    <3>1. applied \in Committed \cup {0} /\ durable \in Committed \cup {0}
      BY EntriesBounded DEF Positions
    <3> QED
      BY <2>2, <3>1
  <2>4. ASSUME NEW w \in Writer
        PROVE  /\ writer[w].pc \in {"idle", "registered", "inserted", "committed",
                                    "dealt"}
               /\ writer[w] # Idle => writer[w].last \in Ts
    BY DEF Types, WriterState, Writers, WriterOK, Ts
  <2>5. waiting \cup thread.batch \subseteq uncommitted /\ uncommitted \subseteq Ts
    <3>1. uncommitted \subseteq 1 .. lastTs
      BY DEF Types
    <3>2. uncommitted \subseteq Ts
      BY <2>1, <3>1 DEF Ts
    <3>3. waiting \subseteq uncommitted /\ thread.batch \subseteq uncommitted
      BY DEF Types
    <3> QED
      BY <3>2, <3>3
  <2> QED
    BY <2>1, <2>3, <2>4, <2>5 DEF TypeOK, Types, Journaling, Shown
<1> QED
  BY <1>1, Invariance, PTL

\* For any writers, batches and interleavings: who reads the oplog forward has
\* all entries before the ones it has returned.  (isCappedHidden, _oplogReadTill.)
THEOREM ForwardReadsMissNothing == Spec => []NoSkippedEntry
<1>1. ASSUME IInv PROVE NoSkippedEntry
  <2> SUFFICES ASSUME NEW id \in read, NEW j \in 1 .. id, j \notin read
               PROVE  /\ j \notin Committed
                      /\ ~\E w \in Writer :
                             /\ writer[w].pc \in {"registered", "inserted"}
                             /\ j \in writer[w].first .. writer[w].last
    BY DEF NoSkippedEntry
  <2>1. id \in Nat /\ j \in Nat /\ j < id
    BY <1>1 DEF IInv, Types
  <2>2. j \notin Committed
    BY <1>1, <2>1 DEF IInv, Shown
  <2>3. ASSUME NEW w \in Writer, writer[w].pc \in {"registered", "inserted"},
               j \in writer[w].first .. writer[w].last
        PROVE  FALSE
    <3>1. id < writer[w].first
      BY <1>1, <2>3 DEF IInv, Shown, Writers, WriterOK, Hidden
    <3>2. writer[w].first \in Nat /\ writer[w].last \in Nat
      BY <1>1 DEF IInv, Types, WriterState
    <3> QED
      BY SMTT(30), <2>1, <2>3, <3>1, <3>2
  <2> QED
    BY <2>2, <2>3
<1> QED
  BY <1>1, Invariance, PTL

\* An entry that was read and is not in the journal was not overtaken: all that is
\* before it in the log has earlier timestamps.
LEMMA ReadInLogOrder ==
    ASSUME IInv, NEW k \in flushed + 1 .. Len(wtLog), NEW i \in 1 .. k - 1,
           NEW j \in wtLog[k], j \in read, NEW id \in wtLog[i]
    PROVE  ~(j < id)
<1> SUFFICES ASSUME j < id PROVE FALSE
  OBVIOUS
<1>1. PICK u \in uncommitted \cap wtLog[k] : \A x \in wtLog[k] : u <= x
  BY DEF IInv, Overtaken
<1>2. u <= j /\ j < u
  BY <1>1 DEF IInv, Shown
<1>3. u \in Nat /\ j \in Nat
  BY DEF IInv, Types
<1> QED
  BY <1>2, <1>3

\* A crash of the primary leaves no hole in what others have read, whatever part
\* of the log behind the journal's end it keeps.  (_dealtWithCappedId.)
THEOREM CrashLeavesNoHole == Spec => []NoHoleAfterCrash
<1>1. ASSUME IInv PROVE NoHoleAfterCrash
  <2> SUFFICES ASSUME NEW n \in flushed .. Len(wtLog), NEW id \in read,
                      id \in Entries(n), NEW j \in read, j < id,
                      j \notin Entries(n)
               PROVE  FALSE
    BY DEF NoHoleAfterCrash
  <2>1. PICK i \in 1 .. n : id \in wtLog[i]
    BY EntriesOf
  <2>2. PICK k \in 1 .. Len(wtLog) : j \in wtLog[k]
    BY <1>1, EntriesOf DEF IInv, Shown, Committed
  <2>3. ~(k \in 1 .. n)
    BY <2>2, EntriesOf
  <2>4. k \in flushed + 1 .. Len(wtLog) /\ i \in 1 .. k - 1
    BY <1>1, <2>3 DEF IInv, Types
  <2> QED
    BY <1>1, <2>1, <2>2, <2>4, ReadInLogOrder
<1> QED
  BY <1>1, Invariance, PTL

\* What the primary reports as durable, and others can have, is in its journal.
\* (JournalListenerImpl::getToken and onDurable.)
THEOREM DurableInJournal == Spec => []DurableIsJournaled
<1>1. ASSUME IInv PROVE DurableIsJournaled
  <2> SUFFICES ASSUME NEW id \in read, id <= durable, NEW j \in read, j <= id,
                      j \notin Flushed
               PROVE  FALSE
    BY DEF DurableIsJournaled
  <2>1. PICK k \in 1 .. Len(wtLog) : j \in wtLog[k]
    BY <1>1, EntriesOf DEF IInv, Shown, Committed
  <2>2. j \in 1 .. highestSeen /\ id \in Nat /\ durable \in Nat
    BY <1>1, EntriesBounded DEF IInv, Types, Shown
  <2>3. j \in Nat /\ 1 <= j
    BY <1>1, <2>2 DEF IInv, Types
  <2>4. durable \in Flushed
    BY <1>1, <2>2, <2>3 DEF IInv, Positions
  <2>5. PICK i \in 1 .. flushed : durable \in wtLog[i]
    BY <2>4, EntriesOf DEF Flushed
  <2>6. ~(k \in 1 .. flushed)
    BY <2>1, EntriesOf DEF Flushed
  <2>7. k \in flushed + 1 .. Len(wtLog) /\ i \in 1 .. k - 1
    BY <1>1, <2>6 DEF IInv, Types
  <2>8. j # durable
    BY <2>4
  <2>9. j < durable
    BY <2>2, <2>3, <2>8
  <2> QED
    BY <1>1, <2>1, <2>5, <2>7, <2>9, ReadInLogOrder
<1> QED
  BY <1>1, Invariance, PTL
=============================================================================
