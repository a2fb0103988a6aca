-------------------------- MODULE CommitRefinement --------------------------
(***************************************************************************)
(* What the commit points of a replica set promise: CommitPoint implements *)
(* CommittedHistory, with what each member takes to be committed as its    *)
(* view.                                                                   *)
(***************************************************************************)
EXTENDS CommitPoint

\* The operations a member takes to be committed: what a majority read may see.
CommittedView == [n \in Node |-> Covered(log[n], commit[n])]

Committed == INSTANCE CommittedHistory WITH view <- CommittedView

\* The commit points of all members, seen through their oplogs, implement the
\* abstract history until a member syncs astray: one committed sequence that only
\* grows, of which each member holds a prefix that only grows until it restarts.
\* (The first disjunct is a stuttering step, which TLC finds by it at less cost.)
ImplementsUnlessStrayed ==
    /\ Committed!Init
    /\ [][strayed' = {} => UNCHANGED <<history, log, commit>> \/ Committed!Next
         ]_<<history, CommittedView>>
=============================================================================
