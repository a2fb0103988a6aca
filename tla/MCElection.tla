----------------------------- MODULE MCElection -----------------------------
(* Instances of Election for TLC. *)
EXTENDS Election, TLC

CONSTANT First          \* the member that is primary of term 1 in SteadyInit

\* Members that are alike may be exchanged.
Members == {p \in Permutations(Node) :
              \A n \in Node : /\ n \in Electable <=> p[n] \in Electable
                              /\ n \in Fragile <=> p[n] \in Fragile
                              /\ n = First <=> p[n] = First}

\* A set that has been through its first election: all voted for First, which
\* is primary of term 1 and has replicated its first operation.
SteadyInit ==
    /\ role = [n \in Node |-> IF n = First THEN "leader" ELSE "follower"]
    /\ term = [n \in Node |-> 1]
    /\ lastVote = [n \in Node |-> 1]
    /\ diskVote = [n \in Node |-> 1]
    /\ stepDownPending = [n \in Node |-> FALSE]
    /\ stepDownScheduled = [n \in Node |-> FALSE]
    /\ applied = [n \in Node |-> 1]
    /\ poll = [n \in Node |-> NoPoll]
    /\ calls = {}
    /\ announced = {0, 1}
    /\ ballots = [voter : Node, candidate : {First}, term : {1}]
    /\ elected = {[node |-> First, term |-> 1]}
    /\ ahead = FALSE

SteadySpec == SteadyInit /\ [][Next]_vars

FairSteadySpec == SteadySpec /\ Fairness
=============================================================================
