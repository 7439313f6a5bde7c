------------------------------ MODULE Failover ------------------------------
(***************************************************************************)
(* The failover protocol of pdh-ha: two database nodes and, in Trio mode,  *)
(* a witness.  internal/ha decides (Step, Vote), cmd/pdh-ha feeds it from  *)
(* heartbeats, messages and commands, saves the result and sends.          *)
(*                                                                         *)
(* Time is counted in ticks.  A process ticks once between two TickPasses  *)
(* steps, in any order relative to the others; a heartbeat is there by the *)
(* receiver's next tick or is lost, any other message before the second    *)
(* TickPasses or it is lost.  A clock reading minus a remembered instant   *)
(* is an age; ages stop at the largest threshold compared with them, so no *)
(* bound on the length of a run is needed.                                 *)
(*                                                                         *)
(* A name X_Y with X defined below it is a faulty variant of X: put in its *)
(* place, it must break a property.                                        *)
(***************************************************************************)
EXTENDS Naturals, Sequences, FiniteSets

CONSTANTS
  Node,           \* the two database nodes
  Witness,        \* the witness' identity (takes part in Trio only)
  Nobody,         \* no candidate
  Gateway,        \* the router the nodes ping (counts in Duo only)
  Mode,           \* "trio" | "duo"
  Reals,          \* initial AutoMode of a node: TRUE "real", FALSE observe only
  SeenTicks,      \* a path is alive for this many ticks after the last receipt
  FenceAfter,     \* Settings.FenceAfter in ticks
  Takeover,       \* Settings.Takeover(Mode) in ticks
  DemoteWait,     \* demoteWait in ticks
  DemoteTicks,    \* bound: a demote takes at most this long after the swap began
  VoteRepeat, HandoverRepeat, HandoverQuiet,  \* the tick counts of step.go
  MaxPerDay,      \* Settings.MaxPerDay
  Commands,       \* manual commands the operator may give
  Brakes,         \* what version, cool-down and data state may answer
  Phases,         \* orders in which the processes may tick within one round
  Breakdowns,     \* sets of directed links that may break (and heal) together
  Env,            \* what the environment may do: failures, and a new day
  MaxTerm, MaxSeq, MaxDemotes, \* bounds: terms, maintenance changes, queued demotes
  MaxFaults       \* bound: breakdowns, crashes and failed saves together

ASSUME ConstantsAssumption ==
  /\ IsFiniteSet(Node) /\ Cardinality(Node) = 2
  /\ Witness \notin Node /\ Nobody \notin Node \cup {Witness}
  /\ Gateway \notin Node \cup {Witness}
  /\ Mode \in {"trio", "duo"}
  /\ Reals \in (SUBSET BOOLEAN) \ {{}}
  /\ {SeenTicks, FenceAfter, Takeover, MaxTerm} \subseteq Nat \ {0}
  /\ {DemoteWait, DemoteTicks, VoteRepeat, HandoverRepeat, HandoverQuiet, MaxPerDay,
      MaxSeq, MaxDemotes, MaxFaults} \subseteq Nat
  /\ Takeover > SeenTicks
  /\ Commands \subseteq {"swap", "force_takeover", "maint_on", "maint_off", "auto"}
  /\ Phases \subseteq [Node \cup {Witness} -> Nat]
  /\ Breakdowns \subseteq SUBSET ((Node \cup {Witness}) \X (Node \cup {Witness, Gateway}))
  /\ Brakes \in (SUBSET BOOLEAN) \ {{}}
  /\ Env \subseteq {"crash", "witness", "save", "demote", "midnight"}

Active  == "aktiv"
Passive == "passiv"
Fenced  == "abgeschaltet"
Rejoin  == "wiedereingliederung"
Zeuge   == "zeuge"
Role    == {Active, Passive, Fenced, Rejoin}

Trio == Mode = "trio"
Proc == IF Trio THEN Node \cup {Witness} ELSE Node
Other(n) == CHOOSE m \in Node : m # n
Peers(x) == Proc \ {x}
Links == {l \in Proc \X Proc : l[1] # l[2]}   \* directions: <<from, to>>
Pings == Node \X {Gateway}

VARIABLES
  p,        \* Persisted in memory (daemon.p), per process
  disk,     \* the state file
  unsaved,  \* the last save failed: not active until one succeeds
  carry,    \* what a Step hands to the next one (Output without Persist)
  view,     \* view[x][y]: what x last received from y, and how long ago
  beat,     \* the latest heartbeat x sent
  air,      \* the links on which the latest heartbeat is under way
  cut,      \* the links that are broken
  faults,   \* how many failures there were
  up, booting,
  phase,    \* the ticks of one round come in this order (equal: in any order)
  ticked,   \* the processes that had their tick since the last TickPasses
  real,     \* Settings.Real() as the node knows it: decisions take effect
  command,  \* a manual command waiting for the tick
  request,  \* vote_req in flight from a node
  response, \* vote_resp in flight to a node
  granted,  \* daemon.voteGranted
  probed,   \* daemon.probeGranted
  offer,    \* handover in flight to a node
  handIn,   \* daemon.handoverIn
  demotes,  \* queue of demote actions (their terms) of the action worker
  demoteDone, demoteFailed,  \* terms of the last finished and failed demote
  gateway,  \* age of the last successful gateway ping
  ledger    \* history: <<term, node>> of every vote the witness saved

nodeVars   == <<p, disk, unsaved, carry>>
netVars    == <<view, beat, air, cut, faults>>
voteVars   == <<request, response, granted, probed, ledger>>
swapVars   == <<command, offer, handIn, demotes, demoteDone, demoteFailed>>
vars == <<nodeVars, netVars, voteVars, swapVars, up, booting, real, phase, ticked, gateway>>

-----------------------------------------------------------------------------
(* Data                                                                    *)

Larger(i, j) == IF i >= j THEN i ELSE j
Older(i, cap) == IF i < cap THEN i + 1 ELSE cap

Persisted == [role : Role \cup {Zeuge}, term : Nat, maint : BOOLEAN, seq : Nat,
              count : Nat, votedTerm : Nat, votedFor : Node \cup {Nobody}]

Carry == [hold : Nat, vote : Nat, askedAge : Nat, handover : Nat, handAge : Nat,
          ready : BOOLEAN, readyAge : Nat, sentAge : Nat, mutualAge : Nat]

NoCarry == [hold |-> 0, vote |-> 0, askedAge |-> 0, handover |-> 0, handAge |-> 0,
            ready |-> FALSE, readyAge |-> 0, sentAge |-> 0, mutualAge |-> 0]

Beat == [role : Role \cup {Zeuge}, term : Nat, maint : BOOLEAN, seq : Nat,
         votedFor : Node \cup {Nobody}, sees : SUBSET (Node \cup {Witness})]

Obs == [heard : BOOLEAN, age : Nat, hb : Beat]

NoBeat == [role |-> Passive, term |-> 0, maint |-> FALSE, seq |-> 0,
           votedFor |-> Nobody, sees |-> {}]
NeverSeen == [heard |-> FALSE, age |-> 0, hb |-> NoBeat]

\* A message in flight carries a term (0: none); late: it is lost when time
\* passes once more.
Letter == [term : Nat, probe : BOOLEAN, late : BOOLEAN]
NoLetter == [term |-> 0, probe |-> FALSE, late |-> FALSE]
Sent(t, probe) == [term |-> t, probe |-> probe, late |-> FALSE]
Delayed(l) == IF l.late THEN NoLetter ELSE [l EXCEPT !.late = l.term # 0]

TypeOK ==
  /\ p \in [Proc -> Persisted]
  /\ disk \in [Proc -> Persisted]
  /\ unsaved \in [Node -> BOOLEAN]
  /\ carry \in [Node -> Carry]
  /\ view \in [Proc -> [Proc -> Obs]]
  /\ beat \in [Proc -> Beat]
  /\ air \in SUBSET Links
  /\ cut \subseteq UNION Breakdowns
  /\ faults \in Nat
  /\ up \in [Proc -> BOOLEAN]
  /\ booting \in [Node -> BOOLEAN]
  /\ real \in [Node -> BOOLEAN]
  /\ phase \in Phases
  /\ ticked \in SUBSET Proc
  /\ command \in [Node -> {"none", "swap", "force_takeover"}]
  /\ request \in [Node -> Letter]
  /\ response \in [Node -> Letter]
  /\ granted \in [Node -> Nat]
  /\ probed \in [Node -> Nat]
  /\ offer \in [Node -> Letter]
  /\ handIn \in [Node -> Nat]
  /\ demotes \in [Node -> Seq(Nat)]
  /\ demoteDone \in [Node -> Nat]
  /\ demoteFailed \in [Node -> Nat]
  /\ gateway \in [Node -> [heard : BOOLEAN, age : Nat]]
  /\ ledger \in SUBSET (Nat \X Node)

-----------------------------------------------------------------------------
(* Views                                                                   *)

Seen(o) == o.heard /\ o.age <= SeenTicks
Absent(o, d) == ~Seen(o) /\ o.age >= d
\* seen, and the other side reports that it sees x
Mutual(x, o) == Seen(o) /\ x \in o.hb.sees

\* The view of x after it received the heartbeats of the processes in S.
Hear(x, S) ==
  [y \in Proc |-> IF y \in S THEN [heard |-> TRUE, age |-> 0, hb |-> beat[y]]
                             ELSE view[x][y]]

\* Whose heartbeat x has received by its tick.
Heard(x) == {y \in Peers(x) : <<y, x>> \in air \ cut}
Received(x) == {l \in air : l[2] # x}    \* what remains under way

Heartbeat(x, q, v) ==
  [role |-> q.role,
   term |-> IF x = Witness THEN Larger(q.votedTerm, q.term) ELSE q.term,
   maint |-> q.maint, seq |-> q.seq, votedFor |-> q.votedFor,
   sees |-> {y \in Peers(x) : Seen(v[y])}]

\* A newer maintenance state wins; at the same state maintenance wins.
MergeMaint_NewerOnly(q, o) ==
  IF Seen(o) /\ o.hb.seq > q.seq
  THEN [q EXCEPT !.maint = o.hb.maint, !.seq = o.hb.seq] ELSE q
MergeMaint(q, o) ==
  IF ~Seen(o) \/ o.hb.seq < q.seq THEN q
  ELSE IF o.hb.seq > q.seq
       THEN [q EXCEPT !.maint = o.hb.maint, !.seq = o.hb.seq]
       ELSE [q EXCEPT !.maint = q.maint \/ o.hb.maint]

SetMaint(q, on) == [q EXCEPT !.maint = on, !.seq = q.seq + 1]
MaintAgreed(q, pa) == pa.hb.seq = q.seq
-----------------------------------------------------------------------------
(* Whose turn it is, and the end of every tick: saving and sending         *)

Ticks(x) ==
  /\ up[x] /\ x \notin ticked
  /\ \A y \in Proc : up[y] /\ phase[y] < phase[x] => y \in ticked
  /\ ticked' = ticked \cup {x}
  /\ UNCHANGED phase

Nothing == [ask |-> 0, give |-> 0, demote |-> 0]

ClearVote(c) == [c EXCEPT !.vote = 0, !.askedAge = 0]
ClearHandover(c) ==
  [c EXCEPT !.handover = 0, !.handAge = 0, !.ready = FALSE, !.readyAge = 0,
            !.sentAge = 0]

\* A hold belongs to a fenced node, a handover to a passive one.
Tidy(q, c) ==
  LET h == IF q.role = Fenced THEN c ELSE [c EXCEPT !.hold = 0]
  IN  IF q.role = Passive THEN h ELSE ClearHandover(h)

SaveDone(n, q, c, send) ==
  /\ p' = [p EXCEPT ![n] = q]
  /\ disk' = [disk EXCEPT ![n] = q]
  /\ unsaved' = [unsaved EXCEPT ![n] = FALSE]
  /\ carry' = [carry EXCEPT ![n] = Tidy(q, c)]
  /\ booting' = [booting EXCEPT ![n] = FALSE]
  /\ command' = [command EXCEPT ![n] = "none"]
  /\ handIn' = [handIn EXCEPT ![n] = 0]
  /\ granted' = [granted EXCEPT ![n] =
       IF c.vote # granted[n] \/ q.term >= granted[n] THEN 0 ELSE granted[n]]
  /\ beat' = [beat EXCEPT ![n] = Heartbeat(n, q, view'[n])]
  /\ air' = Received(n) \cup ({n} \X Peers(n))
  /\ request' = IF send.ask = 0 \/ <<n, Witness>> \in cut THEN request
                ELSE [request EXCEPT ![n] = Sent(send.ask, ~real[n])]
  /\ offer' = IF send.give = 0 \/ <<n, Other(n)>> \in cut THEN offer
              ELSE [offer EXCEPT ![Other(n)] = Sent(send.give, FALSE)]
  /\ demotes' = IF send.demote = 0 THEN demotes
                ELSE [demotes EXCEPT ![n] = Append(demotes[n], send.demote)]
  /\ UNCHANGED faults

\* A failure is taken from the budget.
Fault == faults < MaxFaults /\ faults' = faults + 1

\* The state file was not written, or written without confirmation; nothing
\* is sent and the tick's inputs wait for the next one.
SaveFails(n, q) ==
  /\ "save" \in Env /\ Fault
  /\ q # p[n] \/ unsaved[n]
  /\ disk' \in {disk, [disk EXCEPT ![n] = q]}
  /\ unsaved' = [unsaved EXCEPT ![n] = TRUE]
  /\ air' = Received(n)
  /\ UNCHANGED <<p, carry, booting, command, handIn, granted, beat, request,
                 offer, demotes>>

Save(n, q, c, send) == SaveDone(n, q, c, send) \/ SaveFails(n, q)

Become(n, q, role, c) == Save(n, [q EXCEPT !.role = role], c, Nothing)
Stay(n, q, c) == Save(n, q, c, Nothing)

-----------------------------------------------------------------------------
(* The decision step of a node (Step).  in: partner, witness, gateway, brakes; *)
(* q: the state to be saved, c: the carry so far                               *)

Promoted(q, term, counted) ==
  [q EXCEPT !.role = Active, !.term = term,
            !.count = IF counted THEN q.count + 1 ELSE q.count]

\* The brakes of Allowed other than the daily maximum.
Unbraked_Alone(q, in) == ~q.maint /\ in.free
Unbraked(q, in) == ~q.maint /\ MaintAgreed(q, in.pa) /\ in.free
TakeoverAllowed(q, in) == Unbraked(q, in) /\ q.count < MaxPerDay
\* Only the daily maximum stands in the way: the automatic goes into maintenance.
Braked(q, in) ==
  IF Unbraked(q, in) /\ q.count >= MaxPerDay THEN SetMaint(q, TRUE) ELSE q

Forcing(n, q) == command[n] = "force_takeover" /\ q.role # Active

ForceTakeover(n, in, q, c) ==
  /\ Forcing(n, q)
  /\ Save(n, Promoted(q, Larger(q.term, Larger(in.pa.hb.term, in.w.hb.term)) + 1, FALSE),
          ClearVote(c), Nothing)

\* The term after adoptHigherTerm.  A term the witness gave to this node is
\* not adopted away from its own pending vote.
AdoptedTerm(n, in, q, c) ==
  LET t == Larger(q.term, Larger(in.pa.hb.term, in.w.hb.term))
      mine == /\ c.vote > q.term /\ t = c.vote
              /\ in.w.hb.term = t /\ in.w.hb.votedFor = n
              /\ ~(in.pa.hb.role = Active /\ in.pa.hb.term >= t)
  IN  IF mine THEN Larger(q.term, t - 1) ELSE t

Superseded_StaysOn(n, q, c, t) ==
  /\ q.role \in {Active, Fenced}
  /\ Stay(n, [q EXCEPT !.term = t], c)
Superseded(n, q, c, t) ==
  /\ q.role \in {Active, Fenced}
  /\ Become(n, [q EXCEPT !.term = t], Rejoin, c)

Swapping(n, in, q) ==
  /\ command[n] = "swap" /\ q.role = Active
  /\ Seen(in.pa) /\ in.pa.hb.role = Passive

Swap(n, in, q, c) ==
  /\ Swapping(n, in, q)
  /\ Save(n, [q EXCEPT !.role = Passive],
          [ClearHandover(c) EXCEPT !.handover = q.term + 1],
          [Nothing EXCEPT !.demote = q.term])

Booting(n, q) == booting[n] /\ q.role \in {Active, Fenced}

Boot_AtOnce(n, in, q, c) == Booting(n, q) /\ Become(n, q, Active, c)

\* A node that was active waits fenced after a restart until it sees the
\* partner or the takeover time has passed.
Boot(n, in, q, c) ==
  /\ Booting(n, q)
  /\ \/ ~real[n] /\ Stay(n, q, c)
     \/ real[n] /\ Mutual(n, in.pa) /\ Become(n, q, Active, c)
     \/ /\ real[n] /\ ~Mutual(n, in.pa)
        /\ Become(n, q, Fenced, [c EXCEPT !.hold = Takeover])

TwoActives(in, q) ==
  Seen(in.pa) /\ in.pa.hb.role = Active /\ in.pa.hb.term = q.term

\* Mutual sight was lost for too long, and maintenance does not hold.
Lost(in, q, c) ==
  /\ ~(q.maint /\ MaintAgreed(q, in.pa))
  /\ c.mutualAge >= FenceAfter
  /\ Trio \/ in.gw.age >= FenceAfter

ActiveTick(n, in, q, c) ==
  /\ q.role = Active
  /\ \/ TwoActives(in, q) /\ Stay(n, IF q.maint THEN q ELSE SetMaint(q, TRUE), c)
     \/ ~TwoActives(in, q) /\ Lost(in, q, c) /\ real[n] /\ Become(n, q, Fenced, c)
     \/ ~TwoActives(in, q) /\ ~(Lost(in, q, c) /\ real[n]) /\ Stay(n, q, c)

Back(n, in, c) ==
  \/ Mutual(n, in.pa)
  \/ c.hold = 0 /\ Trio /\ Mutual(n, in.w)
  \/ c.hold = 0 /\ ~Trio /\ Seen(in.gw)

FencedTick(n, in, q, c) ==
  /\ q.role = Fenced
  /\ \/ Back(n, in, c) /\ Become(n, q, Active, c)
     \/ ~Back(n, in, c) /\ Stay(n, q, c)

RejoinTick(n, q, c) == q.role = Rejoin /\ Become(n, q, Passive, c)
(* Passive: a handover received, an own handover running, or the automatic *)

ReceivingHandover(n, in, q, c) ==
  /\ handIn[n] # 0 /\ handIn[n] = q.term + 1 /\ c.handover = 0
  /\ Seen(in.pa) /\ in.pa.hb.role = Passive /\ in.pa.hb.term = q.term

ReceiveHandover(n, in, q, c) ==
  /\ ReceivingHandover(n, in, q, c)
  /\ Save(n, Promoted(q, handIn[n], FALSE), ClearVote(c), Nothing)

\* The vote for the pending term is there; in observe mode a trial vote.
Elected_Trial(n, q, c) == c.vote > q.term /\ c.vote \in {granted[n], probed[n]}
Elected(n, q, c) ==
  c.vote > q.term /\ c.vote = IF real[n] THEN granted[n] ELSE probed[n]

\* With the vote the node takes over, as long as the witness sees it and the
\* partner is not active or fenced, or gone for the whole takeover time.
TrioWon(n, in, q, c) ==
  /\ Elected(n, q, c)
  /\ LET gone == \/ Seen(in.pa) /\ in.pa.hb.role \notin {Active, Fenced}
                 \/ Absent(in.pa, Takeover)
         usable == gone /\ Mutual(n, in.w)
     IN  \/ /\ usable /\ TakeoverAllowed(q, in) /\ real[n]
            /\ Save(n, Promoted(q, c.vote, TRUE), ClearVote(c), Nothing)
         \/ /\ ~(usable /\ TakeoverAllowed(q, in) /\ real[n])
            /\ Stay(n, IF usable THEN Braked(q, in) ELSE q, c)

VoteDue_Once(q, c) == c.vote <= q.term
VoteDue(q, c) == c.vote <= q.term \/ c.askedAge >= VoteRepeat

TrioAsk(n, in, q, c) ==
  LET vote == IF c.vote <= q.term THEN q.term + 1 ELSE c.vote
      ask == TakeoverAllowed(q, in) /\ VoteDue(q, c) /\ vote <= MaxTerm
  IN  /\ ~Elected(n, q, c)
      /\ \/ ~Absent(in.pa, Takeover) /\ Stay(n, q, c)
         \/ /\ Absent(in.pa, Takeover) /\ ask
            /\ Save(n, q, [c EXCEPT !.vote = vote, !.askedAge = 0],
                    [Nothing EXCEPT !.ask = vote])
         \/ Absent(in.pa, Takeover) /\ ~ask /\ Stay(n, Braked(q, in), c)

DuoTakeover_Blind(n, in, q, c) ==
  LET take == Absent(in.pa, Takeover) /\ TakeoverAllowed(q, in) /\ real[n] /\ q.term < MaxTerm
  IN  \/ take /\ Save(n, Promoted(q, q.term + 1, TRUE), ClearVote(c), Nothing)
      \/ ~take /\ Stay(n, q, c)
DuoTakeover(n, in, q, c) ==
  LET may == Absent(in.pa, Takeover) /\ Seen(in.gw)
      take == may /\ TakeoverAllowed(q, in) /\ real[n] /\ q.term < MaxTerm
  IN  \/ take /\ Save(n, Promoted(q, q.term + 1, TRUE), ClearVote(c), Nothing)
      \/ ~take /\ Stay(n, IF may THEN Braked(q, in) ELSE q, c)

Automatic(n, in, q, c) ==
  \/ Trio /\ (TrioWon(n, in, q, c) \/ TrioAsk(n, in, q, c))
  \/ ~Trio /\ DuoTakeover(n, in, q, c)

\* The handover needs no more attention: this node or the partner has its term.
HandedOver(in, q, c) ==
  q.term >= c.handover \/ (Seen(in.pa) /\ in.pa.hb.term >= c.handover)

\* Giving up the own database failed or took too long.
DemoteHopeless(n, c) ==
  LET t == c.handover - 1
  IN  demoteFailed[n] = t \/ (demoteDone[n] # t /\ c.handAge >= Takeover + DemoteWait)

\* The partner was lost from sight, or is no longer passive at the end: whether
\* it took over is unknown, the term counts as given away.
HandoverUnclear(n, in, c) ==
  ~Mutual(n, in.pa) \/ (c.readyAge >= Takeover /\ in.pa.hb.role # Passive)

ResendDue(in, c) ==
  /\ in.pa.hb.role = Passive /\ c.sentAge >= HandoverRepeat
  /\ c.readyAge + HandoverQuiet < Takeover

Resent_Again(c) == [c EXCEPT !.sentAge = 0, !.readyAge = 0]
Resent(c) == [c EXCEPT !.sentAge = 0]

GivenAway_Kept(q, c) == q
GivenAway(q, c) == [q EXCEPT !.term = c.handover]

GiveHandover(n, in, q, c) ==
  LET give == [Nothing EXCEPT !.give = c.handover]
  IN  \/ DemoteHopeless(n, c) /\ Become(n, q, Active, c)
      \/ /\ ~DemoteHopeless(n, c) /\ demoteDone[n] # c.handover - 1
         /\ Stay(n, q, c)
      \/ /\ ~DemoteHopeless(n, c) /\ demoteDone[n] = c.handover - 1
         /\ \/ ~c.ready /\ Save(n, q, [c EXCEPT !.ready = TRUE], give)
            \/ /\ c.ready /\ HandoverUnclear(n, in, c)
               /\ Automatic(n, in, GivenAway(q, c), ClearHandover(c))
            \/ /\ c.ready /\ ~HandoverUnclear(n, in, c)
               /\ \/ c.readyAge >= Takeover /\ Become(n, q, Active, c)
                  \/ /\ c.readyAge < Takeover /\ ResendDue(in, c)
                     /\ Save(n, q, Resent(c), give)
                  \/ /\ c.readyAge < Takeover /\ ~ResendDue(in, c)
                     /\ Stay(n, q, c)

PassiveTick(n, in, q, c) ==
  /\ q.role = Passive
  /\ \/ ReceiveHandover(n, in, q, c)
     \/ /\ ~ReceivingHandover(n, in, q, c)
        /\ \/ c.handover = 0 /\ Automatic(n, in, q, c)
           \/ /\ c.handover # 0 /\ HandedOver(in, q, c)
              /\ Automatic(n, in, q, ClearHandover(c))
           \/ /\ c.handover # 0 /\ ~HandedOver(in, q, c)
              /\ GiveHandover(n, in, q, c)

RoleTick(n, in, q, c) ==
  \/ RejoinTick(n, q, c)
  \/ ActiveTick(n, in, q, c)
  \/ FencedTick(n, in, q, c)
  \/ PassiveTick(n, in, q, c)

Decide(n, in, q, c) ==
  \/ ForceTakeover(n, in, q, c)
  \/ /\ ~Forcing(n, q)
     /\ LET t == AdoptedTerm(n, in, q, c)
            q1 == [q EXCEPT !.term = t]
            c1 == IF t > q.term /\ c.vote <= t THEN ClearVote(c) ELSE c
        IN  \/ t > q.term /\ Superseded(n, q, c1, t)
            \/ /\ ~(t > q.term /\ q.role \in {Active, Fenced})
               /\ \/ Swap(n, in, q1, c1)
                  \/ /\ ~Swapping(n, in, q1)
                     /\ \/ Boot(n, in, q1, c1)
                        \/ ~Booting(n, q1) /\ RoleTick(n, in, q1, c1)

\* The ping a tick starts runs beside it: its answer counts from the next tick.
Pinged(n) ==
  IF Trio \/ <<n, Gateway>> \in cut THEN gateway
  ELSE [gateway EXCEPT ![n] = [heard |-> TRUE, age |-> 0]]

\* One tick of a node (tickNodeLocked): receive, decide, save, send.
NodeTick(n) ==
  /\ Ticks(n)
  /\ \E free \in Brakes :
       LET v  == Hear(n, Heard(n))
           in == [pa |-> v[Other(n)], w |-> IF Trio THEN v[Witness] ELSE NeverSeen,
                  gw |-> gateway[n], free |-> free]
           q  == IF unsaved[n] /\ p[n].role = Active
                 THEN [p[n] EXCEPT !.role = Fenced] ELSE p[n]
           c  == IF Mutual(n, in.pa) \/ Mutual(n, in.w)
                 THEN [carry[n] EXCEPT !.mutualAge = 0] ELSE carry[n]
       IN  /\ view' = [view EXCEPT ![n] = v]
           /\ gateway' = Pinged(n)
           /\ Decide(n, in, MergeMaint(MergeMaint(q, in.pa), in.w), c)
  /\ UNCHANGED <<cut, up, real, response, probed, ledger, demoteDone, demoteFailed>>

-----------------------------------------------------------------------------
(* The witness                                                             *)

WitnessSave_Later(q) ==
  /\ p' = [p EXCEPT ![Witness] = q]
  /\ UNCHANGED <<disk, faults>>
WitnessSave(q) ==
  /\ p' = [p EXCEPT ![Witness] = q]
  /\ disk' = [disk EXCEPT ![Witness] = q]
  /\ UNCHANGED faults

WitnessSaveFails(q) ==
  /\ "save" \in Env /\ Fault /\ q # p[Witness]
  /\ disk' \in {disk, [disk EXCEPT ![Witness] = q]}
  /\ UNCHANGED p

WitnessTick ==
  /\ Trio /\ Ticks(Witness)
  /\ LET v == Hear(Witness, Heard(Witness))
         a == CHOOSE n \in Node : TRUE
         b == Other(a)
         t == Larger(p[Witness].term, Larger(v[a].hb.term, v[b].hb.term))
         q == MergeMaint(MergeMaint([p[Witness] EXCEPT !.term = t], v[a]), v[b])
     IN  /\ view' = [view EXCEPT ![Witness] = v]
         /\ \/ /\ WitnessSave(q)
               /\ beat' = [beat EXCEPT ![Witness] = Heartbeat(Witness, q, v)]
               /\ air' = Received(Witness) \cup ({Witness} \X Peers(Witness))
            \/ /\ WitnessSaveFails(q)
               /\ air' = Received(Witness)
               /\ UNCHANGED beat
  /\ UNCHANGED <<unsaved, carry, cut, voteVars, swapVars, up, booting, real, gateway>>

Protected_WhileSeen(m, term) ==
  LET o == view[Witness][m]
      holder == o.hb.role \in {Active, Fenced} \/ (p[Witness].votedFor = m /\ o.hb.term < p[Witness].votedTerm)
  IN  o.hb.term > term \/ (holder /\ Seen(o))
\* May the other node m still be, or come back, active?  (the loop of Vote)
Protected(m, term) ==
  LET o == view[Witness][m]
      w == p[Witness]
      holder == o.hb.role \in {Active, Fenced} \/ (w.votedFor = m /\ o.hb.term < w.votedTerm)
  IN  \/ o.hb.term > term
      \/ (holder \/ ~o.heard) /\ (Seen(o) \/ o.age < Takeover)

\* Vote
Grants(n, term) ==
  LET w == p[Witness]
      known == Larger(w.votedTerm, w.term)
      again == term = w.votedTerm /\ n = w.votedFor /\ term >= known
  IN  (term > known \/ again) /\ ~Protected(Other(n), term)

Voted_NoTerm(n, term) == [p[Witness] EXCEPT !.votedFor = n]
Voted(n, term) ==
  [p[Witness] EXCEPT !.votedTerm = term, !.votedFor = n,
                     !.term = Larger(p[Witness].term, term)]

Respond(n) ==
  response' = IF <<Witness, n>> \in cut THEN response
              ELSE [response EXCEPT ![n] = [request[n] EXCEPT !.late = FALSE]]

\* Without the saved vote there is no answer.
NoAnswer_ButGranted(n) == Respond(n)
NoAnswer(n) == UNCHANGED response

\* vote_req at the witness: the vote is saved first, then answered
\* (voteLocked).  vote_probe is answered without saving (probeLocked).
AnswerVote(n) ==
  /\ Trio /\ up[Witness] /\ request[n].term # 0
  /\ request' = [request EXCEPT ![n] = NoLetter]
  /\ LET term == request[n].term
         probe == request[n].probe
     IN  \/ /\ Grants(n, term) /\ ~probe
            /\ WitnessSave(Voted(n, term)) /\ Respond(n)
            /\ ledger' = ledger \cup {<<term, n>>}
         \/ /\ Grants(n, term) /\ ~probe
            /\ WitnessSaveFails(Voted(n, term))
            /\ NoAnswer(n) /\ UNCHANGED ledger
         \/ /\ Grants(n, term) /\ probe
            /\ Respond(n)
            /\ UNCHANGED <<p, disk, faults, ledger>>
         \/ ~Grants(n, term) /\ NoAnswer(n) /\ UNCHANGED <<p, disk, faults, ledger>>
  /\ UNCHANGED <<unsaved, carry, view, beat, air, cut, granted, probed, swapVars,
                 up, booting, real, phase, ticked, gateway>>

\* vote_resp at the node: only the answer to the vote still pending counts.
ReceiveVote(n) ==
  /\ up[n] /\ response[n].term # 0
  /\ response' = [response EXCEPT ![n] = NoLetter]
  /\ IF response[n].term # carry[n].vote THEN UNCHANGED <<granted, probed>>
     ELSE IF response[n].probe
     THEN probed' = [probed EXCEPT ![n] = response[n].term] /\ UNCHANGED granted
     ELSE granted' = [granted EXCEPT ![n] = response[n].term] /\ UNCHANGED probed
  /\ UNCHANGED <<nodeVars, netVars, request, ledger, swapVars, up, booting, real, phase, ticked, gateway>>

-----------------------------------------------------------------------------
(* Handover message, operator, action worker                               *)

DeliverHandover(n) ==
  /\ up[n] /\ offer[n].term # 0
  /\ handIn' = [handIn EXCEPT ![n] = offer[n].term]
  /\ offer' = [offer EXCEPT ![n] = NoLetter]
  /\ UNCHANGED <<nodeVars, netVars, voteVars, command, demotes, demoteDone,
                 demoteFailed, up, booting, real, phase, ticked, gateway>>

\* The checks of command(): they look at the state of now, the tick acts later.
GiveCommand(n, cmd) ==
  /\ cmd \in Commands \cap {"swap", "force_takeover"}
  /\ up[n] /\ command[n] = "none" /\ p[n].term < MaxTerm
  /\ \/ /\ cmd = "swap" /\ p[n].role = Active
        /\ Len(demotes[n]) < MaxDemotes
     \/ /\ cmd = "force_takeover" /\ p[n].role # Active
        /\ ~(/\ ~booting[n] /\ Other(n) \in beat[n].sees
             /\ view[n][Other(n)].hb.role = Active)
        /\ view[n][Other(n)].hb.term < MaxTerm
        /\ Trio => view[n][Witness].hb.term < MaxTerm
  /\ command' = [command EXCEPT ![n] = cmd]
  /\ UNCHANGED <<nodeVars, netVars, voteVars, offer, handIn, demotes, demoteDone,
                 demoteFailed, up, booting, real, phase, ticked, gateway>>

SetMaintenance(n, on) ==
  /\ (IF on THEN "maint_on" ELSE "maint_off") \in Commands
  /\ up[n] /\ p[n].seq < MaxSeq
  /\ LET q == SetMaint(p[n], on)
     IN  \/ /\ p' = [p EXCEPT ![n] = q]
            /\ disk' = [disk EXCEPT ![n] = q]
            /\ UNCHANGED faults
         \/ /\ "save" \in Env /\ Fault
            /\ disk' \in {disk, [disk EXCEPT ![n] = q]}
            /\ UNCHANGED p
  /\ UNCHANGED <<unsaved, carry, view, beat, air, cut, voteVars, swapVars, up, booting, real, phase, ticked, gateway>>

\* The operator changes the cluster's AutoMode; each node learns it by itself.
SetAutoMode(n) ==
  /\ "auto" \in Commands /\ up[n]
  /\ real' = [real EXCEPT ![n] = ~real[n]]
  /\ UNCHANGED <<nodeVars, netVars, voteVars, swapVars, up, booting, phase, ticked, gateway>>

\* The worker finishes the demote at the head of its queue.
DemoteSucceeds(n) ==
  /\ up[n] /\ demotes[n] # <<>>
  /\ demotes' = [demotes EXCEPT ![n] = Tail(demotes[n])]
  /\ demoteDone' = [demoteDone EXCEPT ![n] = Head(demotes[n])]
  /\ UNCHANGED <<nodeVars, netVars, voteVars, command, offer, handIn,
                 demoteFailed, up, booting, real, phase, ticked, gateway>>

\* A failed action switches maintenance on (actionFailed).
DemoteFails(n) ==
  /\ "demote" \in Env
  /\ up[n] /\ demotes[n] # <<>> /\ p[n].seq < MaxSeq
  /\ demotes' = [demotes EXCEPT ![n] = Tail(demotes[n])]
  /\ demoteFailed' = [demoteFailed EXCEPT ![n] = Head(demotes[n])]
  /\ LET q == SetMaint(p[n], TRUE)
     IN  \/ /\ p' = [p EXCEPT ![n] = q]
            /\ disk' = [disk EXCEPT ![n] = q]
            /\ unsaved' = [unsaved EXCEPT ![n] = FALSE]
            /\ UNCHANGED faults
         \/ /\ "save" \in Env /\ Fault
            /\ disk' \in {disk, [disk EXCEPT ![n] = q]}
            /\ unsaved' = [unsaved EXCEPT ![n] = TRUE]
            /\ UNCHANGED p
  /\ UNCHANGED <<carry, view, beat, air, cut, voteVars, command, offer, handIn,
                 demoteDone, up, booting, real, phase, ticked, gateway>>

-----------------------------------------------------------------------------
(* Crash, restart, time                                                    *)

Crash(x) ==
  /\ up[x] /\ Fault
  /\ IF x = Witness THEN "witness" \in Env ELSE "crash" \in Env
  /\ up' = [up EXCEPT ![x] = FALSE]
  /\ p' = [p EXCEPT ![x] = disk[x]]
  /\ view' = [view EXCEPT ![x] = [y \in Proc |-> NeverSeen]]
  /\ IF x = Witness
     THEN UNCHANGED <<unsaved, carry, voteVars, swapVars, gateway>>
     ELSE /\ unsaved' = [unsaved EXCEPT ![x] = FALSE]
          /\ carry' = [carry EXCEPT ![x] = NoCarry]
          /\ response' = [response EXCEPT ![x] = NoLetter]
          /\ granted' = [granted EXCEPT ![x] = 0]
          /\ probed' = [probed EXCEPT ![x] = 0]
          /\ command' = [command EXCEPT ![x] = "none"]
          /\ offer' = [offer EXCEPT ![x] = NoLetter]
          /\ handIn' = [handIn EXCEPT ![x] = 0]
          /\ demotes' = [demotes EXCEPT ![x] = <<>>]
          /\ demoteDone' = [demoteDone EXCEPT ![x] = 0]
          /\ demoteFailed' = [demoteFailed EXCEPT ![x] = 0]
          /\ gateway' = [gateway EXCEPT ![x] = [heard |-> FALSE, age |-> 0]]
          /\ UNCHANGED <<request, ledger>>
  /\ UNCHANGED <<disk, beat, air, cut, booting, real, phase, ticked>>

Restart(x) ==
  /\ ~up[x]
  /\ up' = [up EXCEPT ![x] = TRUE]
  /\ booting' = IF x = Witness THEN booting ELSE [booting EXCEPT ![x] = TRUE]
  /\ UNCHANGED <<nodeVars, netVars, voteVars, swapVars, real, phase, ticked, gateway>>

\* Between two ticks links break or come back.
Breaks(S) ==
  /\ ticked = {} /\ Fault
  /\ ~(S \subseteq cut)
  /\ cut' = cut \cup S
  /\ UNCHANGED <<nodeVars, view, beat, air, voteVars, swapVars, up, booting, real, phase, ticked, gateway>>

Heals(S) ==
  /\ ticked = {} /\ S \cap cut # {}
  /\ cut' = cut \ S
  /\ UNCHANGED <<nodeVars, view, beat, air, faults, voteVars, swapVars, up, booting, real, phase, ticked, gateway>>

\* The day changes: the daily count starts again (switchesToday).
NewDay ==
  /\ "midnight" \in Env
  /\ \E n \in Node : p[n].count # 0
  /\ p' = [x \in Proc |-> [p[x] EXCEPT !.count = 0]]
  /\ disk' = [x \in Proc |-> [disk[x] EXCEPT !.count = 0]]
  /\ UNCHANGED <<unsaved, carry, netVars, voteVars, swapVars, up, booting, real, phase, ticked, gateway>>

Aged_BelowZero(c) ==
  [c EXCEPT !.hold = c.hold - 1,
            !.askedAge = IF c.vote = 0 THEN 0 ELSE Older(c.askedAge, VoteRepeat),
            !.mutualAge = Older(c.mutualAge, FenceAfter)]
Aged(c) ==
  [c EXCEPT !.hold = IF c.hold > 0 THEN c.hold - 1 ELSE 0,
            !.askedAge = IF c.vote = 0 THEN 0 ELSE Older(c.askedAge, VoteRepeat),
            !.handAge = IF c.handover = 0 THEN 0 ELSE Older(c.handAge, Takeover + DemoteWait),
            !.readyAge = IF c.ready THEN Older(c.readyAge, Takeover) ELSE 0,
            !.sentAge = IF c.ready THEN Older(c.sentAge, HandoverRepeat) ELSE 0,
            !.mutualAge = Older(c.mutualAge, FenceAfter)]

AgeCap(y) == IF y = Witness THEN SeenTicks + 1 ELSE Takeover

\* One tick of time: every running process had its turn.
TickPasses ==
  /\ {x \in Proc : up[x]} \subseteq ticked
  /\ \A n \in Node : up[n] /\ demotes[n] # <<>> => carry[n].handAge < DemoteTicks
  /\ ticked' = {}
  /\ air' = {l \in air : up[l[2]]}
  /\ view' = [x \in Proc |-> [y \in Proc |->
                IF up[x] /\ y # x
                THEN [view[x][y] EXCEPT !.age = Older(view[x][y].age, AgeCap(y))]
                ELSE view[x][y]]]
  /\ carry' = [n \in Node |-> IF up[n] THEN Aged(carry[n]) ELSE carry[n]]
  /\ gateway' = [n \in Node |->
                   IF up[n] /\ ~Trio
                   THEN [gateway[n] EXCEPT !.age = Older(gateway[n].age, Larger(FenceAfter, SeenTicks + 1))]
                   ELSE gateway[n]]
  /\ request' = [n \in Node |-> Delayed(request[n])]
  /\ response' = [n \in Node |-> Delayed(response[n])]
  /\ offer' = [n \in Node |-> Delayed(offer[n])]
  /\ UNCHANGED <<p, disk, unsaved, beat, cut, faults, granted, probed, ledger, command, handIn, demotes,
                 demoteDone, demoteFailed, up, booting, real, phase>>

-----------------------------------------------------------------------------
(* Specification                                                           *)

StateFile(role) ==
  [role |-> role, term |-> 1, maint |-> FALSE, seq |-> 0, count |-> 0,
   votedTerm |-> 0, votedFor |-> Nobody]

\* A set-up cluster: one node active, one passive, all in term 1.
Init ==
  /\ \E a \in Node :
       p = [x \in Proc |-> StateFile(IF x = a THEN Active
                                     ELSE IF x = Witness THEN Zeuge ELSE Passive)]
  /\ disk = p
  /\ unsaved = [n \in Node |-> FALSE]
  /\ carry = [n \in Node |-> NoCarry]
  /\ view = [x \in Proc |-> [y \in Proc |-> NeverSeen]]
  /\ beat = [x \in Proc |-> NoBeat]
  /\ air = {}
  /\ cut = {}
  /\ faults = 0
  /\ up = [x \in Proc |-> TRUE]
  /\ booting = [n \in Node |-> FALSE]
  /\ real \in [Node -> Reals]
  /\ phase \in Phases
  /\ ticked = {}
  /\ command = [n \in Node |-> "none"]
  /\ request = [n \in Node |-> NoLetter]
  /\ response = [n \in Node |-> NoLetter]
  /\ granted = [n \in Node |-> 0]
  /\ probed = [n \in Node |-> 0]
  /\ offer = [n \in Node |-> NoLetter]
  /\ handIn = [n \in Node |-> 0]
  /\ demotes = [n \in Node |-> <<>>]
  /\ demoteDone = [n \in Node |-> 0]
  /\ demoteFailed = [n \in Node |-> 0]
  /\ gateway = [n \in Node |-> [heard |-> FALSE, age |-> 0]]
  /\ ledger = {}

Next ==
  \/ \E n \in Node :
       \/ NodeTick(n) \/ AnswerVote(n) \/ ReceiveVote(n) \/ DeliverHandover(n)
       \/ \E cmd \in Commands : GiveCommand(n, cmd)
       \/ \E on \in BOOLEAN : SetMaintenance(n, on)
       \/ SetAutoMode(n) \/ DemoteSucceeds(n) \/ DemoteFails(n)
  \/ WitnessTick
  \/ \E x \in Proc : Crash(x) \/ Restart(x)
  \/ \E S \in Breakdowns : Breaks(S) \/ Heals(S)
  \/ NewDay
  \/ TickPasses

Spec == Init /\ [][Next]_vars

-----------------------------------------------------------------------------
(* Properties                                                              *)

\* What the daemon itself counts as active (observe.go: not while booting,
\* not while the state on disk is uncertain).
IsActive(n) == up[n] /\ ~booting[n] /\ ~unsaved[n] /\ p[n].role = Active

\* Two servers never both run as the active one.
AtMostOneActive == \A m, n \in Node : IsActive(m) /\ IsActive(n) => m = n

\* A term belongs to one server: the other one is never active, or fenced and
\* able to come back, in the same term.
OneOwnerPerTerm ==
  \A m, n \in Node :
    p[m].role \in {Active, Fenced} /\ p[n].role \in {Active, Fenced} /\ m # n
      => p[m].term # p[n].term

\* The witness gives the vote of a term to one server only, also across its
\* own crashes and failed saves.
OneVotePerTerm == \A v, w \in ledger : v[1] = w[1] => v = w

\* The term of a process never goes down, in a crash and a restart as little
\* as in a tick that adopts, hands over or takes over.
TermsNeverFall == [][\A x \in Proc : p'[x].term >= p[x].term]_vars

\* A server that takes over by itself (it counts the takeover) has the saved
\* vote of the witness for exactly the term it takes.
TakeoverIsVoted ==
  [][Trio => \A n \in Node : p'[n].count > p[n].count => <<p'[n].term, n>> \in ledger]_vars

\* With a witness the terms, the votes and the counted takeovers are those of
\* Elections: votes in rising order, none used twice, also if a takeover was
\* only in the file when its server crashed, and the same term is asked again.
Promise == INSTANCE Elections
  WITH votes <- ledger, term <- [n \in Node |-> p[n].term],
       count <- [n \in Node |-> p[n].count]
ElectionsInOrder == Promise!Spec

\* The partner is asked to take the database only after it was given up: no
\* handover is under way for a term whose demote still waits for the worker.
OfferedAfterDemote ==
  \A n \in Node : offer[Other(n)].term # 0 =>
    \A i \in 1..Len(demotes[n]) : demotes[n][i] + 1 # offer[Other(n)].term

-----------------------------------------------------------------------------
(* Liveness                                                                *)

\* The clocks run on while any process is up: every tick changes ticked, and
\* TickPasses waits for every running process, so this is fair to each of them.
\* A vote asked for again and again is at last answered; the worker works its
\* queue off.
Fairness ==
  /\ []<><<TRUE>>_ticked \/ <>[](\A x \in Proc : ~up[x])
  /\ \A n \in Node :
       /\ WF_vars(DemoteSucceeds(n))
       /\ SF_vars(AnswerVote(n)) /\ SF_vars(ReceiveVote(n))

FairSpec == Spec /\ Fairness

\* If a server stays away, the other one ends up active for good, as long as
\* it, the witness and their connection hold, maintenance is off for both (so
\* far as is known) and the bound on the terms leaves it one.
SurvivorTakesOver ==
  \A n \in Node :
    <>[](/\ ~up[Other(n)] /\ up[n] /\ (Trio => up[Witness]) /\ cut = {}
         /\ ~p[n].maint /\ MaintAgreed(p[n], view[n][Other(n)]) /\ p[n].term < MaxTerm)
      => <>[]IsActive(n)

\* While all are up and connected, a swap of roles ends, successful or not:
\* again and again some server is active, even if every handover message were
\* lost, the demote or a save failed.
SwapEnds ==
  [](cut = {} /\ \A x \in Proc : up[x]) => []<>(\E n \in Node : IsActive(n))

\* Once the network is whole again the servers settle: nobody stays fenced or
\* in reintegration, at most one is active, and all agree on maintenance.
ClusterSettles ==
  <>[](cut = {} /\ \A x \in Proc : up[x]) =>
    <>[](/\ \A n \in Node : p[n].role \in {Active, Passive}
         /\ AtMostOneActive
         /\ \A x, y \in Proc : p[x].maint = p[y].maint /\ p[x].seq = p[y].seq)
=============================================================================
