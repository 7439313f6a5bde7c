----------------------------- MODULE MCFailover -----------------------------
(* Instances of Failover for TLC. *)
EXTENDS Failover, TLC

Symmetry == Permutations(Node)

\* The clocks run alike: one order for the whole run.
FixedOrder ==
  {f \in [Node \cup {Witness} -> 1..3] : \A x, y \in DOMAIN f : x # y => f[x] # f[y]}
\* The clocks drift: any order, a new one in every round.
AnyOrder == {[x \in Node \cup {Witness} |-> 1]}
\* Two processes lose each other, in one direction or in both.
Pairs ==
  UNION {SUBSET {<<x, y>>, <<y, x>>} : x, y \in Proc} \ {{}}
Broken == {S \in Pairs : \A l \in S : l[1] # l[2]}
\* A server is cut off from everybody, the gateway included.
Isolated == {{l \in Links \cup Pings : n \in {l[1], l[2]}} : n \in Node}
\* Always the same server is cut off (no symmetry with this one).
OneIsolated == {CHOOSE S \in Isolated : TRUE}

\* The direct line between the servers is gone.
Direct == {{l \in Links : l[1] \in Node /\ l[2] \in Node}}

\* Nothing breaks.
Unbroken == {}
\* The witness ticks between the servers; of these orders only one.
OneOrder == {f \in FixedOrder : f[Witness] = 2}
SingleOrder == {CHOOSE f \in OneOrder : TRUE}
=============================================================================
