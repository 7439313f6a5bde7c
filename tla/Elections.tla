----------------------------- MODULE Elections -----------------------------
(***************************************************************************)
(* What the witness' votes promise, without messages, files, crashes and   *)
(* time: votes are given in rising terms, each to one server, and a server *)
(* that takes over by itself uses a vote of its own for a term newer than  *)
(* any it was in, so that no vote is used twice.  Failover implements it.  *)
(***************************************************************************)
EXTENDS Naturals

CONSTANT Node

VARIABLES
  votes,   \* <<term, node>>: the votes given
  term,    \* the term each server is in
  count    \* the takeovers of the day each server knows of

vars == <<votes, term, count>>

Init ==
  /\ votes = {}
  /\ term \in [Node -> Nat]
  /\ count = [n \in Node |-> 0]

\* The witness gives the vote of a term newer than all it gave before.
Vote ==
  /\ \E v \in votes' :
       /\ v[2] \in Node
       /\ \A u \in votes : u[1] < v[1]
       /\ votes' = votes \cup {v}
  /\ UNCHANGED <<term, count>>

\* A server takes over with a vote it has not used, nor passed by.
TakesOver(n) ==
  /\ \E v \in votes : v[2] = n /\ v[1] > term[n] /\ v[1] = term'[n]
  /\ count'[n] = count[n] + 1

\* A server learns of newer terms, or starts its count again.
GoesOn(n) == term'[n] >= term[n] /\ count'[n] <= count[n]

Next ==
  \/ Vote
  \/ /\ \A n \in Node : TakesOver(n) \/ GoesOn(n)
     /\ UNCHANGED votes

Spec == Init /\ [][Next]_vars
=============================================================================
