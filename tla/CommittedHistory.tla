-------------------------- MODULE CommittedHistory --------------------------
(***************************************************************************)
(* What a replica set promises about its majority-committed operations.    *)
(* There is one history of committed operations, which only grows.  What   *)
(* a member serves to majority reads is always a prefix of it, and only    *)
(* moves forward, except that a member that restarts begins with nothing.  *)
(***************************************************************************)
EXTENDS OpTimes

CONSTANT Node

VARIABLES history,      \* the committed operations, in order
          view          \* what each member serves to majority reads

\* Every member starts with some part of what is committed.
Init == \A n \in Node : Begins(view[n], history)

\* Operations are committed at the end of the history; members catch up.
Next ==
    /\ Begins(history, history')
    /\ \A n \in Node :
          /\ Begins(view'[n], history')
          /\ view'[n] = << >> \/ Begins(view[n], view'[n])

Spec == Init /\ [][Next]_<<history, view>>
=============================================================================
