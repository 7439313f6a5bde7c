--------------------------- MODULE Failover_proofs ---------------------------
(* Theorems about Failover, for every value of its constants. *)
EXTENDS Failover, FiniteSetTheorems, TLAPS

-----------------------------------------------------------------------------
(* Data                                                                    *)

Inputs == [pa : Obs, w : Obs, gw : [heard : BOOLEAN, age : Nat], free : BOOLEAN]
Sends == [ask : Nat, give : Nat, demote : Nat]

\* The states that may follow q in a file: the term does not fall.
Later(q) == {r \in Persisted : r.term >= q.term}

\* A step of node n ends by saving a state that may follow q.
Saves(n, q) == \E r \in Later(q), c \in Carry, s \in Sends : Save(n, r, c, s)

\* The larger of two numbers is a number, at least as large as both.
LEMMA LargerNat ==
  ASSUME NEW i \in Nat, NEW j \in Nat
  PROVE  /\ Larger(i, j) \in Nat /\ Larger(i, j) >= i /\ Larger(i, j) >= j
         /\ Larger(i, j) \in {i, j}
  BY DEF Larger

\* An age stays a number.
LEMMA OlderNat ==
  ASSUME NEW i \in Nat, NEW cap \in Nat
  PROVE  Older(i, cap) \in Nat
  BY DEF Older

\* A node has a partner.
LEMMA OtherNode ==
  ASSUME NEW n \in Node
  PROVE  Other(n) \in Node /\ Other(n) # n
<1>1. \E m \in Node : m # n
  <2> SUFFICES ASSUME \A m \in Node : m = n PROVE FALSE OBVIOUS
  <2>1. Node = {n} OBVIOUS
  <2>2. Cardinality({n}) = 1 BY FS_Singleton
  <2> QED BY <2>1, <2>2, ConstantsAssumption DEF ConstantsAssumption
<1> QED BY <1>1 DEF Other

\* The witness is no node.
LEMMA Identities ==
  /\ Witness \notin Node /\ Nobody \notin Node /\ Node \subseteq Proc
  /\ (Trio => Witness \in Proc) /\ (~Trio => Proc = Node)
  BY ConstantsAssumption DEF ConstantsAssumption, Proc

\* What a step writes into the state file may follow what was there.
LEMMA LaterSame ==
  ASSUME NEW q \in Persisted
  PROVE  q \in Later(q)
  BY DEF Later, Persisted

LEMMA LaterRole ==
  ASSUME NEW q \in Persisted, NEW role \in Role
  PROVE  [q EXCEPT !.role = role] \in Later(q)
  BY DEF Later, Persisted

LEMMA LaterTerm ==
  ASSUME NEW q \in Persisted, NEW t \in Nat, t >= q.term
  PROVE  [q EXCEPT !.term = t] \in Later(q)
  BY DEF Later, Persisted

LEMMA LaterPromoted ==
  ASSUME NEW q \in Persisted, NEW t \in Nat, t >= q.term, NEW counted \in BOOLEAN
  PROVE  Promoted(q, t, counted) \in Later(q)
<1> DEFINE k == IF counted THEN q.count + 1 ELSE q.count
           r == [q EXCEPT !.role = Active, !.term = t, !.count = k]
<1>1. k \in Nat BY DEF Persisted
<1> HIDE DEF k
<1>2. r \in Persisted BY <1>1 DEF Persisted, Role, Active
<1>3. r.term = t BY DEF Persisted
<1> QED BY <1>2, <1>3 DEF Later, Promoted, k

LEMMA LaterMaint ==
  ASSUME NEW q \in Persisted, NEW on \in BOOLEAN
  PROVE  SetMaint(q, on) \in Later(q)
<1>1. q.seq + 1 \in Nat BY DEF Persisted
<1>2. SetMaint(q, on) \in Persisted BY <1>1 DEF Persisted, SetMaint
<1>3. SetMaint(q, on).term = q.term BY DEF Persisted, SetMaint
<1> QED BY <1>2, <1>3 DEF Later, Persisted

LEMMA LaterMerge ==
  ASSUME NEW q \in Persisted, NEW o \in Obs
  PROVE  /\ MergeMaint(q, o) \in Later(q)
         /\ MergeMaint(q, o).term = q.term
         /\ MergeMaint(q, o).votedTerm = q.votedTerm
         /\ MergeMaint(q, o).votedFor = q.votedFor
<1>1. o.hb.maint \in BOOLEAN /\ o.hb.seq \in Nat BY DEF Obs, Beat
<1> DEFINE a == [q EXCEPT !.maint = o.hb.maint, !.seq = o.hb.seq]
           b == [q EXCEPT !.maint = q.maint \/ o.hb.maint]
<1>2. MergeMaint(q, o) \in {q, a, b} BY DEF MergeMaint
<1>3. a \in Persisted /\ a.term = q.term /\ a.votedTerm = q.votedTerm /\ a.votedFor = q.votedFor
  BY <1>1 DEF Persisted
<1>4. b \in Persisted /\ b.term = q.term /\ b.votedTerm = q.votedTerm /\ b.votedFor = q.votedFor
  BY <1>1 DEF Persisted
<1>5. q.term \in Nat BY DEF Persisted
<1> HIDE DEF a, b
<1> QED BY <1>2, <1>3, <1>4, <1>5 DEF Later

LEMMA LaterBraked ==
  ASSUME NEW q \in Persisted, NEW in
  PROVE  Braked(q, in) \in Later(q)
<1>1. SetMaint(q, TRUE) \in Later(q) BY LaterMaint
<1>2. q \in Later(q) BY LaterSame
<1> QED BY <1>1, <1>2 DEF Braked

LEMMA LaterTrans ==
  ASSUME NEW n, NEW q \in Persisted, NEW r \in Later(q), Saves(n, r)
  PROVE  Saves(n, q)
<1>1. \A x \in Later(r) : x \in Later(q) BY DEF Later, Persisted
<1> QED BY <1>1 DEF Saves

\* What a step hands to the next one stays of its type.
LEMMA CarryTypes ==
  ASSUME NEW c \in Carry
  PROVE  /\ ClearVote(c) \in Carry /\ ClearHandover(c) \in Carry
         /\ \A q : Tidy(q, c) \in Carry
<1>1. ClearVote(c) \in Carry BY DEF Carry, ClearVote
<1>2. \A d \in Carry : ClearHandover(d) \in Carry BY DEF Carry, ClearHandover
<1>3. [c EXCEPT !.hold = 0] \in Carry BY DEF Carry
<1> QED BY <1>1, <1>2, <1>3 DEF Tidy

LEMMA SavesIntro ==
  ASSUME NEW n, NEW q \in Persisted, NEW r \in Later(q), NEW c \in Carry, NEW s \in Sends,
         Save(n, r, c, s)
  PROVE  Saves(n, q)
  BY DEF Saves

LEMMA NothingSent == Nothing \in Sends
  BY DEF Nothing, Sends

\* Staying in a role, and entering another, saves.
LEMMA StaySaves ==
  ASSUME NEW n, NEW q \in Persisted, NEW r \in Later(q), NEW c \in Carry, Stay(n, r, c)
  PROVE  Saves(n, q)
  BY SavesIntro, NothingSent DEF Stay

LEMMA BecomeSaves ==
  ASSUME NEW n, NEW q \in Persisted, NEW r \in Later(q), NEW role \in Role, NEW c \in Carry,
         Become(n, r, role, c)
  PROVE  Saves(n, q)
<1>1. r \in Persisted BY DEF Later
<1>2. [r EXCEPT !.role = role] \in Later(r) BY <1>1, LaterRole
<1>3. [r EXCEPT !.role = role] \in Later(q) BY <1>1, <1>2 DEF Later, Persisted
<1> QED BY <1>3, SavesIntro, NothingSent DEF Become

-----------------------------------------------------------------------------
(* Every decision ends by saving a state that may follow                   *)

\* A vote pending, a handover answered, a maintenance brake: the passive node.
LEMMA AutomaticSaves ==
  ASSUME NEW n \in Node, NEW in \in Inputs, NEW q \in Persisted, NEW c \in Carry,
         Automatic(n, in, q, c)
  PROVE  Saves(n, q)
<1>1. q \in Later(q) /\ Braked(q, in) \in Later(q) /\ q.term \in Nat
  BY LaterBraked DEF Later, Persisted
<1>2. c.vote \in Nat /\ ClearVote(c) \in Carry BY CarryTypes DEF Carry
<1>3. ASSUME TrioWon(n, in, q, c) PROVE Saves(n, q)
  <2>1. c.vote >= q.term BY <1>1, <1>2, <1>3 DEF TrioWon, Elected
  <2>2. Promoted(q, c.vote, TRUE) \in Later(q) BY <1>2, <2>1, LaterPromoted
  <2>3. \/ Save(n, Promoted(q, c.vote, TRUE), ClearVote(c), Nothing)
        \/ \E r \in Later(q) : Stay(n, r, c)
    BY <1>1, <1>3 DEF TrioWon
  <2> QED BY <1>2, <2>2, <2>3, SavesIntro, StaySaves, NothingSent
<1>4. ASSUME TrioAsk(n, in, q, c) PROVE Saves(n, q)
  <2> DEFINE vote == IF c.vote <= q.term THEN q.term + 1 ELSE c.vote
             d == [c EXCEPT !.vote = vote, !.askedAge = 0]
             s == [Nothing EXCEPT !.ask = vote]
  <2>1. vote \in Nat BY <1>1, <1>2
  <2>2. \/ Save(n, q, d, s) \/ \E r \in Later(q) : Stay(n, r, c)
    BY <1>1, <1>4 DEF TrioAsk
  <2> HIDE DEF vote
  <2>3. d \in Carry /\ s \in Sends BY <2>1 DEF Carry, Sends, Nothing
  <2> HIDE DEF d, s
  <2> QED BY <1>1, <2>2, <2>3, SavesIntro, StaySaves
<1>5. ASSUME DuoTakeover(n, in, q, c) PROVE Saves(n, q)
  <2> q.term + 1 \in Nat /\ q.term + 1 >= q.term BY <1>1
  <2>1. Promoted(q, q.term + 1, TRUE) \in Later(q) BY LaterPromoted
  <2>2. \/ Save(n, Promoted(q, q.term + 1, TRUE), ClearVote(c), Nothing)
        \/ \E r \in Later(q) : Stay(n, r, c)
    BY <1>1, <1>5 DEF DuoTakeover
  <2> QED BY <1>2, <2>1, <2>2, SavesIntro, StaySaves, NothingSent
<1> QED BY <1>3, <1>4, <1>5 DEF Automatic

LEMMA GiveHandoverSaves ==
  ASSUME NEW n \in Node, NEW in \in Inputs, NEW q \in Persisted, NEW c \in Carry,
         ~HandedOver(in, q, c), GiveHandover(n, in, q, c)
  PROVE  Saves(n, q)
<1> DEFINE give == [Nothing EXCEPT !.give = c.handover]
           ready == [c EXCEPT !.ready = TRUE]
<1>1. c.handover \in Nat /\ q.term \in Nat /\ q \in Later(q) BY DEF Carry, Later, Persisted
<1>2. give \in Sends /\ ready \in Carry /\ Resent(c) \in Carry /\ ClearHandover(c) \in Carry
  BY <1>1, CarryTypes DEF Sends, Nothing, Carry, Resent
<1>3. c.handover >= q.term BY <1>1 DEF HandedOver
<1>4. GivenAway(q, c) \in Later(q) BY <1>1, <1>3, LaterTerm DEF GivenAway
<1>5. \/ Become(n, q, Active, c) \/ Stay(n, q, c)
      \/ Save(n, q, ready, give) \/ Save(n, q, Resent(c), give)
      \/ Automatic(n, in, GivenAway(q, c), ClearHandover(c))
  BY DEF GiveHandover
<1>6. Active \in Role BY DEF Role
<1>7. ASSUME Automatic(n, in, GivenAway(q, c), ClearHandover(c)) PROVE Saves(n, q)
  <2>1. GivenAway(q, c) \in Persisted BY <1>4 DEF Later
  <2> QED BY <1>2, <1>4, <1>7, <2>1, AutomaticSaves, LaterTrans
<1> HIDE DEF give, ready
<1> QED BY <1>1, <1>2, <1>5, <1>6, <1>7, SavesIntro, StaySaves, BecomeSaves

LEMMA PassiveSaves ==
  ASSUME NEW n \in Node, NEW in \in Inputs, NEW q \in Persisted, NEW c \in Carry,
         PassiveTick(n, in, q, c)
  PROVE  Saves(n, q)
<1>1. ASSUME ReceiveHandover(n, in, q, c) PROVE Saves(n, q)
  <2>1. handIn[n] = q.term + 1 /\ q.term \in Nat
    BY <1>1 DEF ReceiveHandover, ReceivingHandover, Persisted
  <2> handIn[n] \in Nat /\ handIn[n] >= q.term BY <2>1
  <2>2. Promoted(q, handIn[n], FALSE) \in Later(q) BY LaterPromoted
  <2> QED BY <1>1, <2>2, CarryTypes, NothingSent, SavesIntro DEF ReceiveHandover
<1>2. ClearHandover(c) \in Carry BY CarryTypes
<1> QED BY <1>1, <1>2, AutomaticSaves, GiveHandoverSaves DEF PassiveTick

LEMMA RoleTickSaves ==
  ASSUME NEW n \in Node, NEW in \in Inputs, NEW q \in Persisted, NEW c \in Carry,
         RoleTick(n, in, q, c)
  PROVE  Saves(n, q)
<1>1. q \in Later(q) /\ SetMaint(q, TRUE) \in Later(q)
  BY LaterSame, LaterMaint
<1>2. {Active, Passive, Fenced} \subseteq Role BY DEF Role
<1>3. CASE RejoinTick(n, q, c) BY <1>1, <1>2, <1>3, BecomeSaves DEF RejoinTick
<1>4. CASE ActiveTick(n, in, q, c)
  <2>1. \/ \E r \in Later(q) : Stay(n, r, c)
        \/ Become(n, q, Fenced, c)
    BY <1>1, <1>4 DEF ActiveTick
  <2> QED BY <1>1, <1>2, <2>1, StaySaves, BecomeSaves
<1>5. CASE FencedTick(n, in, q, c)
  BY <1>1, <1>2, <1>5, StaySaves, BecomeSaves DEF FencedTick
<1> QED BY <1>3, <1>4, <1>5, PassiveSaves DEF RoleTick

\* Whatever a node decides, it saves a state with at least the old term.
LEMMA DecideSaves ==
  ASSUME NEW n \in Node, NEW in \in Inputs, NEW q \in Persisted, NEW c \in Carry,
         Decide(n, in, q, c)
  PROVE  Saves(n, q)
<1> DEFINE t == AdoptedTerm(n, in, q, c)
           q1 == [q EXCEPT !.term = t]
           c1 == IF t > q.term /\ c.vote <= t THEN ClearVote(c) ELSE c
<1>1. /\ q.term \in Nat /\ in.pa.hb.term \in Nat /\ in.w.hb.term \in Nat /\ c.vote \in Nat
  BY DEF Persisted, Inputs, Obs, Beat, Carry
<1> DEFINE top == Larger(q.term, Larger(in.pa.hb.term, in.w.hb.term))
<1>2. top \in Nat /\ top >= q.term BY <1>1, LargerNat
<1>3. t \in Nat /\ t >= q.term
  <2>1. t \in {top, Larger(q.term, top - 1)} BY DEF AdoptedTerm
  <2>2. CASE t = top BY <1>2, <2>2
  <2>3. CASE t = Larger(q.term, top - 1)
    BY <1>1, <1>2, <2>3 DEF Larger
  <2> QED BY <2>1, <2>2, <2>3
<1>4. q1 \in Later(q) /\ q1 \in Persisted BY <1>3, LaterTerm DEF Later
<1>5. c1 \in Carry BY CarryTypes
<1>6. {Active, Passive, Fenced, Rejoin} \subseteq Role BY DEF Role
<1>7. ASSUME ForceTakeover(n, in, q, c) PROVE Saves(n, q)
  <2>1. Save(n, Promoted(q, top + 1, FALSE), ClearVote(c), Nothing)
    BY <1>7 DEF ForceTakeover
  <2> top + 1 \in Nat /\ top + 1 >= q.term BY <1>1, <1>2
  <2>2. Promoted(q, top + 1, FALSE) \in Later(q) BY LaterPromoted
  <2> QED BY <2>1, <2>2, CarryTypes, NothingSent, SavesIntro
<1>8. \/ ForceTakeover(n, in, q, c)
      \/ Superseded(n, q, c1, t)
      \/ Swap(n, in, q1, c1)
      \/ Boot(n, in, q1, c1)
      \/ RoleTick(n, in, q1, c1)
  BY DEF Decide
<1> HIDE DEF t, q1, c1, top
<1>9. ASSUME Superseded(n, q, c1, t) PROVE Saves(n, q)
  <2>1. Become(n, [q EXCEPT !.term = t], Rejoin, c1) BY <1>9 DEF Superseded
  <2>2. [q EXCEPT !.term = t] \in Later(q) BY <1>3, LaterTerm
  <2> QED BY <1>5, <1>6, <2>1, <2>2, BecomeSaves
<1>10. ASSUME Swap(n, in, q1, c1) PROVE Saves(n, q1)
  <2> DEFINE d == [ClearHandover(c1) EXCEPT !.handover = q1.term + 1]
             s == [Nothing EXCEPT !.demote = q1.term]
             r == [q1 EXCEPT !.role = Passive]
  <2>1. Save(n, r, d, s) BY <1>10 DEF Swap
  <2>2. q1.term \in Nat BY <1>4 DEF Persisted
  <2>3. d \in Carry /\ s \in Sends
    BY <1>5, <2>2, CarryTypes DEF Carry, Sends, Nothing
  <2>4. r \in Later(q1) BY <1>4, <1>6, LaterRole
  <2> HIDE DEF d, s, r
  <2> QED BY <1>4, <2>1, <2>3, <2>4, SavesIntro
<1>11. ASSUME Boot(n, in, q1, c1) PROVE Saves(n, q1)
  <2> DEFINE d == [c1 EXCEPT !.hold = Takeover]
  <2>1. Stay(n, q1, c1) \/ Become(n, q1, Active, c1) \/ Become(n, q1, Fenced, d)
    BY <1>11 DEF Boot
  <2>2. d \in Carry BY <1>5, ConstantsAssumption DEF Carry, ConstantsAssumption
  <2>3. q1 \in Later(q1) BY <1>4 DEF Later, Persisted
  <2> HIDE DEF d
  <2> QED BY <1>4, <1>5, <1>6, <2>1, <2>2, <2>3, StaySaves, BecomeSaves
<1>12. ASSUME Saves(n, q1) PROVE Saves(n, q) BY <1>4, <1>12, LaterTrans
<1> QED BY <1>4, <1>5, <1>7, <1>8, <1>9, <1>10, <1>11, <1>12, RoleTickSaves

-----------------------------------------------------------------------------
(* A decision counts a takeover only with the granted vote                 *)

\* From state q to r node n counts a takeover, with the vote for a newer term.
Wins(n, q, r) ==
  /\ r.term \in Nat /\ r.term # 0 /\ r.term = granted[n]
  /\ r.term > q.term /\ r.count = q.count + 1

\* A step of node n saves a state that counts no takeover, or one of the term
\* that was granted.
Counts(n, q) ==
  \E r, c, s : Save(n, r, c, s) /\ (r.count = q.count \/ Wins(n, q, r))

\* Only a promotion with a vote counts.
LEMMA SameCount ==
  ASSUME NEW q \in Persisted
  PROVE  /\ \A role : [q EXCEPT !.role = role].count = q.count
         /\ \A t : [q EXCEPT !.term = t].count = q.count
         /\ \A t, role : [[q EXCEPT !.term = t] EXCEPT !.role = role].count = q.count
         /\ \A on : SetMaint(q, on).count = q.count
         /\ \A in : Braked(q, in).count = q.count
         /\ \A o : MergeMaint(q, o).count = q.count
         /\ \A t : /\ Promoted(q, t, FALSE).count = q.count
                   /\ Promoted(q, t, TRUE).term = t
                   /\ Promoted(q, t, TRUE).count = q.count + 1
<1>1. \A on : SetMaint(q, on).count = q.count BY DEF Persisted, SetMaint
<1>2. \A in : Braked(q, in).count = q.count BY <1>1 DEF Braked
<1>3. \A o : MergeMaint(q, o).count = q.count BY DEF Persisted, MergeMaint
<1>4. \A t : /\ Promoted(q, t, FALSE).count = q.count /\ Promoted(q, t, TRUE).term = t
             /\ Promoted(q, t, TRUE).count = q.count + 1
  BY DEF Persisted, Promoted
<1>5. /\ \A role : [q EXCEPT !.role = role].count = q.count
      /\ \A t : [q EXCEPT !.term = t].count = q.count
      /\ \A t, role : [[q EXCEPT !.term = t] EXCEPT !.role = role].count = q.count
  BY DEF Persisted
<1> QED BY <1>1, <1>2, <1>3, <1>4, <1>5

\* What else a decision writes leaves role and term.
LEMMA SameClaim ==
  ASSUME NEW q \in Persisted
  PROVE  /\ SetMaint(q, TRUE).role = q.role /\ SetMaint(q, TRUE).term = q.term
         /\ SetMaint(q, FALSE).role = q.role /\ SetMaint(q, FALSE).term = q.term
         /\ \A in : Braked(q, in).role = q.role /\ Braked(q, in).term = q.term
         /\ \A o : MergeMaint(q, o).role = q.role /\ MergeMaint(q, o).term = q.term
         /\ \A role : [q EXCEPT !.role = role].role = role
         /\ \A role : [q EXCEPT !.role = role].term = q.term
<1>1. \A on : SetMaint(q, on).role = q.role /\ SetMaint(q, on).term = q.term
  BY DEF Persisted, SetMaint
<1>2. \A in : Braked(q, in).role = q.role /\ Braked(q, in).term = q.term
  BY <1>1 DEF Braked
<1>3. \A o : MergeMaint(q, o).role = q.role /\ MergeMaint(q, o).term = q.term
  BY DEF Persisted, MergeMaint
<1>4. \A role : /\ [q EXCEPT !.role = role].role = role
                /\ [q EXCEPT !.role = role].term = q.term
  BY DEF Persisted
<1> QED BY <1>1, <1>2, <1>3, <1>4

LEMMA CountsIntro ==
  ASSUME NEW n, NEW q, NEW r, NEW c, NEW s, Save(n, r, c, s),
         r.count = q.count \/ Wins(n, q, r)
  PROVE  Counts(n, q)
  BY DEF Counts

LEMMA CountsTrans ==
  ASSUME NEW n, NEW q \in Persisted, NEW r \in Persisted, Counts(n, r),
         r.count = q.count, r.term >= q.term
  PROVE  Counts(n, q)
<1>1. q.term \in Nat /\ r.term \in Nat BY DEF Persisted
<1>2. \A u : Wins(n, r, u) => Wins(n, q, u) BY <1>1 DEF Wins
<1> QED BY <1>2 DEF Counts

LEMMA StayCounts ==
  ASSUME NEW n, NEW q \in Persisted, NEW r, NEW c, Stay(n, r, c), r.count = q.count
  PROVE  Counts(n, q)
  BY DEF Counts, Stay

LEMMA BecomeCounts ==
  ASSUME NEW n, NEW q \in Persisted, NEW role, NEW c, Become(n, q, role, c)
  PROVE  Counts(n, q)
<1>1. [q EXCEPT !.role = role].count = q.count BY SameCount
<1> QED BY <1>1 DEF Counts, Become

\* With a witness the automatic takes over with the granted vote only: a trial
\* vote counts for an observing node, and that one does not take over.
LEMMA AutomaticCounts ==
  ASSUME Trio, NEW n \in Node, NEW in, NEW q \in Persisted, NEW c \in Carry,
         Automatic(n, in, q, c)
  PROVE  Counts(n, q)
<1>1. Braked(q, in).count = q.count BY SameCount
<1>2. c.vote \in Nat /\ q.term \in Nat /\ q.count \in Nat BY DEF Carry, Persisted
<1>3. CASE TrioWon(n, in, q, c)
  <2>1. \/ real[n] /\ Save(n, Promoted(q, c.vote, TRUE), ClearVote(c), Nothing)
        \/ Stay(n, Braked(q, in), c) \/ Stay(n, q, c)
    BY <1>3 DEF TrioWon
  <2>2. CASE real[n] /\ Save(n, Promoted(q, c.vote, TRUE), ClearVote(c), Nothing)
    <3>1. c.vote > q.term /\ c.vote = granted[n] BY <1>3, <2>2 DEF TrioWon, Elected
    <3> DEFINE r == Promoted(q, c.vote, TRUE)
    <3>2. r.term = c.vote /\ r.count = q.count + 1 BY SameCount
    <3>3. Save(n, r, ClearVote(c), Nothing) BY <2>2
    <3> HIDE DEF r
    <3>4. Wins(n, q, r) BY <1>2, <3>1, <3>2 DEF Wins
    <3> QED BY <3>3, <3>4, CountsIntro
  <2> QED BY <1>1, <2>1, <2>2, StayCounts
<1>4. CASE TrioAsk(n, in, q, c)
  <2>1. \/ \E d, s : Save(n, q, d, s)
        \/ Stay(n, Braked(q, in), c) \/ Stay(n, q, c)
    BY <1>4 DEF TrioAsk
  <2> QED BY <1>1, <2>1, StayCounts, CountsIntro
<1> QED BY <1>3, <1>4 DEF Automatic

LEMMA PassiveCounts ==
  ASSUME Trio, NEW n \in Node, NEW in, NEW q \in Persisted, NEW c \in Carry,
         PassiveTick(n, in, q, c)
  PROVE  Counts(n, q)
<1>1. ClearHandover(c) \in Carry BY CarryTypes
<1>2. CASE ReceiveHandover(n, in, q, c)
  <2>1. Promoted(q, handIn[n], FALSE).count = q.count BY SameCount
  <2> QED BY <1>2, <2>1, CountsIntro DEF ReceiveHandover
<1>3. CASE Automatic(n, in, q, c) \/ Automatic(n, in, q, ClearHandover(c))
  BY <1>1, <1>3, AutomaticCounts
<1>4. CASE GiveHandover(n, in, q, c) /\ ~HandedOver(in, q, c)
  <2>1. \/ Become(n, q, Active, c) \/ \E d, s : Save(n, q, d, s)
        \/ Stay(n, q, c) \/ Automatic(n, in, GivenAway(q, c), ClearHandover(c))
    BY <1>4 DEF GiveHandover
  <2>2. c.handover \in Nat /\ q.term \in Nat /\ c.handover >= q.term
    BY <1>4 DEF Carry, Persisted, HandedOver
  <2>3. /\ GivenAway(q, c) \in Persisted /\ GivenAway(q, c).count = q.count
        /\ GivenAway(q, c).term >= q.term
    BY <2>2 DEF GivenAway, Persisted
  <2> QED BY <1>1, <2>1, <2>3, AutomaticCounts, CountsTrans, CountsIntro, StayCounts, BecomeCounts
<1> QED BY <1>2, <1>3, <1>4 DEF PassiveTick

LEMMA RoleTickCounts ==
  ASSUME Trio, NEW n \in Node, NEW in, NEW q \in Persisted, NEW c \in Carry,
         RoleTick(n, in, q, c)
  PROVE  Counts(n, q)
<1>1. SetMaint(q, TRUE).count = q.count BY SameCount
<1>2. CASE RejoinTick(n, q, c) BY <1>2, BecomeCounts DEF RejoinTick
<1>3. CASE ActiveTick(n, in, q, c)
  <2>1. Stay(n, q, c) \/ Stay(n, SetMaint(q, TRUE), c) \/ Become(n, q, Fenced, c)
    BY <1>3 DEF ActiveTick
  <2> QED BY <1>1, <2>1, StayCounts, BecomeCounts
<1>4. CASE FencedTick(n, in, q, c) BY <1>4, StayCounts, BecomeCounts DEF FencedTick
<1> QED BY <1>2, <1>3, <1>4, PassiveCounts DEF RoleTick

\* Whatever a node decides, it counts a takeover only with the granted vote.
LEMMA DecideCounts ==
  ASSUME Trio, NEW n \in Node, NEW in \in Inputs, NEW q \in Persisted, NEW c \in Carry,
         Decide(n, in, q, c)
  PROVE  Counts(n, q)
<1> DEFINE t == AdoptedTerm(n, in, q, c)
           q1 == [q EXCEPT !.term = t]
           c1 == IF t > q.term /\ c.vote <= t THEN ClearVote(c) ELSE c
<1>1. c1 \in Carry BY CarryTypes
<1>2. t \in Nat /\ t >= q.term
  <2>1. /\ q.term \in Nat /\ in.pa.hb.term \in Nat /\ in.w.hb.term \in Nat
    BY DEF Persisted, Inputs, Obs, Beat
  <2> DEFINE top == Larger(q.term, Larger(in.pa.hb.term, in.w.hb.term))
  <2>2. top \in Nat /\ top >= q.term BY <2>1, LargerNat
  <2>3. t \in {top, Larger(q.term, top - 1)} BY DEF AdoptedTerm
  <2> HIDE DEF top
  <2> QED BY <2>1, <2>2, <2>3 DEF Larger
<1>3. \/ ForceTakeover(n, in, q, c)
      \/ Superseded(n, q, c1, t)
      \/ Swap(n, in, q1, c1)
      \/ Boot(n, in, q1, c1)
      \/ RoleTick(n, in, q1, c1)
  BY DEF Decide
<1> HIDE DEF t, c1
<1>4. q1 \in Persisted /\ q1.count = q.count /\ q1.term >= q.term
  BY <1>2 DEF Persisted
<1>5. CASE ForceTakeover(n, in, q, c)
  <2>1. PICK u, d : Save(n, Promoted(q, u, FALSE), d, Nothing) BY <1>5 DEF ForceTakeover
  <2>2. Promoted(q, u, FALSE).count = q.count BY SameCount
  <2> QED BY <2>1, <2>2, CountsIntro
<1> HIDE DEF q1
<1>6. CASE Superseded(n, q, c1, t)
  <2>1. Become(n, q1, Rejoin, c1) BY <1>6 DEF Superseded, q1
  <2> QED BY <1>4, <2>1, BecomeCounts, CountsTrans
<1>7. CASE Swap(n, in, q1, c1)
  <2>1. \E d, s : Save(n, [q1 EXCEPT !.role = Passive], d, s) BY <1>7 DEF Swap
  <2>2. [q1 EXCEPT !.role = Passive].count = q1.count BY <1>4, SameCount
  <2> QED BY <1>4, <2>1, <2>2, CountsIntro
<1>8. CASE Boot(n, in, q1, c1)
  <2>1. Stay(n, q1, c1) \/ \E role, d : Become(n, q1, role, d) BY <1>8 DEF Boot
  <2> QED BY <1>4, <2>1, StayCounts, BecomeCounts, CountsTrans
<1>9. CASE RoleTick(n, in, q1, c1) BY <1>1, <1>4, <1>9, RoleTickCounts, CountsTrans
<1> QED BY <1>3, <1>5, <1>6, <1>7, <1>8, <1>9

-----------------------------------------------------------------------------
(* Types                                                                   *)

\* An update with a value of the range keeps a function's type.
LEMMA Update ==
  ASSUME NEW D, NEW S, NEW f \in [D -> S], NEW x, NEW e \in S
  PROVE  [f EXCEPT ![x] = e] \in [D -> S]
  OBVIOUS

LEMMA CarryZero == NoCarry \in Carry
  BY DEF NoCarry, Carry

LEMMA LetterTypes ==
  /\ NoLetter \in Letter
  /\ \A t \in Nat, b \in BOOLEAN : Sent(t, b) \in Letter
  /\ \A l \in Letter : Delayed(l) \in Letter
<1>1. NoLetter \in Letter BY DEF NoLetter, Letter
<1>2. ASSUME NEW t \in Nat, NEW b \in BOOLEAN PROVE Sent(t, b) \in Letter
  BY DEF Sent, Letter
<1>3. ASSUME NEW l \in Letter PROVE Delayed(l) \in Letter
  <2>1. (l.term # 0) \in BOOLEAN OBVIOUS
  <2> QED BY <1>1, <2>1 DEF Delayed, Letter
<1> QED BY <1>1, <1>2, <1>3

LEMMA FaultTypes ==
  ASSUME TypeOK, Fault \/ UNCHANGED faults
  PROVE  faults' \in Nat
  BY DEF TypeOK, Fault

LEMMA BeatTypes ==
  ASSUME NEW x \in Proc, NEW q \in Persisted, NEW v
  PROVE  Heartbeat(x, q, v) \in Beat
<1>1. {y \in Peers(x) : Seen(v[y])} \in SUBSET (Node \cup {Witness})
  BY DEF Peers, Proc
<1>2. Larger(q.votedTerm, q.term) \in Nat BY LargerNat DEF Persisted
<1> QED BY <1>1, <1>2 DEF Heartbeat, Beat, Persisted

LEMMA HearTypes ==
  ASSUME TypeOK, NEW x \in Proc, NEW S
  PROVE  Hear(x, S) \in [Proc -> Obs]
<1>1. \A y \in Proc : [heard |-> TRUE, age |-> 0, hb |-> beat[y]] \in Obs
  BY DEF TypeOK, Obs
<1>2. \A y \in Proc : view[x][y] \in Obs BY DEF TypeOK
<1> QED BY <1>1, <1>2 DEF Hear

\* A node's save, with the rest of its tick, keeps the types.
LEMMA SaveTypes ==
  ASSUME TypeOK, NEW n \in Node, NEW q \in Persisted, NEW c \in Carry, NEW s \in Sends,
         Save(n, q, c, s), Ticks(n),
         view' \in [Proc -> [Proc -> Obs]],
         gateway' \in [Node -> [heard : BOOLEAN, age : Nat]],
         UNCHANGED <<cut, up, real, response, probed, ledger, demoteDone, demoteFailed>>
  PROVE  TypeOK'
<1>1. n \in Proc /\ Other(n) \in Node BY Identities, OtherNode
<1>2. ticked' \in SUBSET Proc /\ phase' \in Phases BY <1>1 DEF TypeOK, Ticks
<1>3. s.ask \in Nat /\ s.give \in Nat /\ s.demote \in Nat BY DEF Sends
<1>4. Received(n) \cup ({n} \X Peers(n)) \in SUBSET Links /\ Received(n) \in SUBSET Links
  BY <1>1 DEF TypeOK, Received, Peers, Links
<1>5. CASE SaveDone(n, q, c, s)
  <2>1. Heartbeat(n, q, view'[n]) \in Beat BY <1>1, BeatTypes
  <2>2. Tidy(q, c) \in Carry BY CarryTypes
  <2>3. /\ p' \in [Proc -> Persisted] /\ disk' \in [Proc -> Persisted]
        /\ unsaved' \in [Node -> BOOLEAN] /\ carry' \in [Node -> Carry]
        /\ booting' \in [Node -> BOOLEAN]
        /\ command' \in [Node -> {"none", "swap", "force_takeover"}]
        /\ handIn' \in [Node -> Nat] /\ granted' \in [Node -> Nat]
        /\ beat' \in [Proc -> Beat]
    BY <1>1, <1>5, <2>1, <2>2 DEF TypeOK, SaveDone
  <2>4. air' \in SUBSET Links /\ faults' \in Nat BY <1>4, <1>5 DEF TypeOK, SaveDone
  <2>5. request' \in [Node -> Letter]
    <3>1. (~real[n]) \in BOOLEAN OBVIOUS
    <3>2. Sent(s.ask, ~real[n]) \in Letter BY <1>3, <3>1, LetterTypes
    <3> QED BY <1>5, <3>2 DEF TypeOK, SaveDone
  <2>6. offer' \in [Node -> Letter]
    <3>1. Sent(s.give, FALSE) \in Letter BY <1>3, LetterTypes
    <3> QED BY <1>5, <3>1 DEF TypeOK, SaveDone
  <2>7. demotes' \in [Node -> Seq(Nat)]
    <3>1. Append(demotes[n], s.demote) \in Seq(Nat) BY <1>3 DEF TypeOK
    <3> QED BY <1>5, <3>1 DEF TypeOK, SaveDone
  <2> QED BY <1>2, <2>3, <2>4, <2>5, <2>6, <2>7 DEF TypeOK
<1>6. CASE SaveFails(n, q)
  <2>1. disk' \in [Proc -> Persisted] /\ unsaved' \in [Node -> BOOLEAN]
    <3>1. disk' \in {disk, [disk EXCEPT ![n] = q]} /\ unsaved' = [unsaved EXCEPT ![n] = TRUE]
      BY <1>6 DEF SaveFails
    <3> QED BY <1>1, <3>1 DEF TypeOK
  <2>2. air' \in SUBSET Links /\ faults' \in Nat
    BY <1>4, <1>6 DEF TypeOK, SaveFails, Fault
  <2> QED BY <1>2, <1>6, <2>1, <2>2 DEF TypeOK, SaveFails
<1> QED BY <1>5, <1>6 DEF Save

\* What a node's tick decides on.
LEMMA NodeTickDecides ==
  ASSUME TypeOK, NEW n \in Node, NodeTick(n)
  PROVE  /\ view' \in [Proc -> [Proc -> Obs]]
         /\ gateway' \in [Node -> [heard : BOOLEAN, age : Nat]]
         /\ \E q \in Later(p[n]), c \in Carry, s \in Sends : Save(n, q, c, s)
         /\ Trio => Counts(n, p[n])
         /\ \E in \in Inputs, m \in Persisted, c \in Carry :
              /\ Decide(n, in, m, c)
              /\ m.term = p[n].term /\ c.handover = carry[n].handover
              /\ m.role \in {Active, Fenced} => p[n].role \in {Active, Fenced}
<1>1. n \in Proc /\ Other(n) \in Proc BY Identities, OtherNode
<1>2. p[n] \in Persisted /\ carry[n] \in Carry /\ view \in [Proc -> [Proc -> Obs]]
  BY <1>1 DEF TypeOK
<1>3. NeverSeen \in Obs
  BY DEF NeverSeen, Obs, NoBeat, Beat, Role
<1> PICK free \in Brakes :
      LET v  == Hear(n, Heard(n))
          in == [pa |-> v[Other(n)], w |-> IF Trio THEN v[Witness] ELSE NeverSeen,
                 gw |-> gateway[n], free |-> free]
          q  == IF unsaved[n] /\ p[n].role = Active
                THEN [p[n] EXCEPT !.role = Fenced] ELSE p[n]
          c  == IF Mutual(n, in.pa) \/ Mutual(n, in.w)
                THEN [carry[n] EXCEPT !.mutualAge = 0] ELSE carry[n]
      IN  /\ view' = [view EXCEPT ![n] = v]
          /\ gateway' = Pinged(n)
          /\ Decide(n, in, MergeMaint(MergeMaint(q, in.pa), in.w), c)
  BY DEF NodeTick
<1> DEFINE v  == Hear(n, Heard(n))
           in == [pa |-> v[Other(n)], w |-> IF Trio THEN v[Witness] ELSE NeverSeen,
                  gw |-> gateway[n], free |-> free]
           q  == IF unsaved[n] /\ p[n].role = Active
                 THEN [p[n] EXCEPT !.role = Fenced] ELSE p[n]
           c  == IF Mutual(n, in.pa) \/ Mutual(n, in.w)
                 THEN [carry[n] EXCEPT !.mutualAge = 0] ELSE carry[n]
           m  == MergeMaint(MergeMaint(q, in.pa), in.w)
<1>4. /\ view' = [view EXCEPT ![n] = v] /\ gateway' = Pinged(n)
      /\ Decide(n, in, m, c)
  OBVIOUS
<1>5. v \in [Proc -> Obs] BY <1>1, HearTypes
<1>6. gateway[n] \in [heard : BOOLEAN, age : Nat] BY DEF TypeOK
<1>7. free \in BOOLEAN BY ConstantsAssumption DEF ConstantsAssumption
<1>8. v[Other(n)] \in Obs /\ (IF Trio THEN v[Witness] ELSE NeverSeen) \in Obs
  BY <1>1, <1>3, <1>5, Identities
<1>9. q \in Later(p[n])
  <2>1. Fenced \in Role BY DEF Role
  <2> QED BY <1>2, <2>1, LaterRole, LaterSame
<1>10. c \in Carry /\ c.handover = carry[n].handover
  <2>1. LET d == [carry[n] EXCEPT !.mutualAge = 0]
        IN  d \in Carry /\ d.handover = carry[n].handover
    BY <1>2 DEF Carry
  <2> QED BY <1>2, <2>1
<1> HIDE DEF v, q, c
<1>11. /\ view' \in [Proc -> [Proc -> Obs]]
       /\ gateway' \in [Node -> [heard : BOOLEAN, age : Nat]]
  <2>1. view' = [view EXCEPT ![n] = v] /\ gateway' = Pinged(n)
    BY <1>4
  <2>2. view' \in [Proc -> [Proc -> Obs]] BY <1>2, <1>5, <2>1
  <2>3. gateway' \in [Node -> [heard : BOOLEAN, age : Nat]]
    BY <2>1 DEF TypeOK, Pinged
  <2> QED BY <2>2, <2>3
<1>12. in \in Inputs BY <1>6, <1>7, <1>8 DEF Inputs
<1>13. in.pa \in Obs /\ in.w \in Obs BY <1>12 DEF Inputs
<1> HIDE DEF in
<1>14. m \in Later(p[n]) /\ m \in Persisted
  <2>1. q \in Persisted BY <1>9 DEF Later
  <2>2. MergeMaint(q, in.pa) \in Later(q) /\ MergeMaint(q, in.pa) \in Persisted
    BY <1>13, <2>1, LaterMerge DEF Later
  <2>3. m \in Later(MergeMaint(q, in.pa)) BY <1>13, <2>2, LaterMerge
  <2> QED BY <1>2, <1>9, <2>2, <2>3 DEF Later, Persisted
<1>15. m.count = p[n].count
  <2>1. q \in Persisted /\ q.count = p[n].count
    BY <1>2, <1>9, SameCount DEF Later, q
  <2>2. MergeMaint(q, in.pa) \in Persisted BY <1>13, <2>1, LaterMerge DEF Later
  <2>3. MergeMaint(q, in.pa).count = q.count BY <2>1, SameCount
  <2>4. m.count = MergeMaint(q, in.pa).count BY <2>2, SameCount
  <2> QED BY <2>1, <2>3, <2>4
<1>19. /\ m.term = p[n].term
       /\ m.role \in {Active, Fenced} => p[n].role \in {Active, Fenced}
  <2>1. /\ q \in Persisted /\ q.term = p[n].term
        /\ q.role = p[n].role \/ p[n].role = Active
    BY <1>2, <1>9, SameClaim DEF Later, q
  <2>2. /\ MergeMaint(q, in.pa) \in Persisted
        /\ MergeMaint(q, in.pa).role = q.role /\ MergeMaint(q, in.pa).term = q.term
    BY <1>13, <2>1, LaterMerge, SameClaim DEF Later
  <2>3. /\ m.role = MergeMaint(q, in.pa).role /\ m.term = MergeMaint(q, in.pa).term
    BY <2>2, SameClaim
  <2> QED BY <2>1, <2>2, <2>3
<1> HIDE DEF m
<1>16. Saves(n, m) BY <1>4, <1>10, <1>12, <1>14, DecideSaves
<1>17. Saves(n, p[n]) BY <1>2, <1>14, <1>16, LaterTrans
<1>18. Trio => Counts(n, p[n])
  BY <1>2, <1>4, <1>10, <1>12, <1>14, <1>15, DecideCounts, CountsTrans DEF Later
<1> QED BY <1>4, <1>10, <1>11, <1>12, <1>14, <1>17, <1>18, <1>19 DEF Saves

-----------------------------------------------------------------------------
(* The type invariant                                                      *)

LEMMA InitTypes == Init => TypeOK
<1> SUFFICES ASSUME Init PROVE TypeOK OBVIOUS
<1>1. \A r \in Role \cup {Zeuge} : StateFile(r) \in Persisted
  BY DEF StateFile, Persisted
<1>2. p \in [Proc -> Persisted] /\ disk \in [Proc -> Persisted]
  <2>1. {Active, Passive, Zeuge} \subseteq Role \cup {Zeuge} BY DEF Role
  <2> QED BY <1>1, <2>1 DEF Init
<1>3. NoCarry \in Carry BY DEF NoCarry, Carry
<1>4. NoBeat \in Beat BY DEF NoBeat, Beat, Role
<1>5. NeverSeen \in Obs BY <1>4 DEF NeverSeen, Obs
<1>6. real \in [Node -> BOOLEAN] BY ConstantsAssumption DEF Init, ConstantsAssumption
<1>7. /\ carry \in [Node -> Carry] /\ beat \in [Proc -> Beat]
      /\ view \in [Proc -> [Proc -> Obs]]
  BY <1>3, <1>4, <1>5 DEF Init
<1>8. demotes \in [Node -> Seq(Nat)] BY DEF Init
<1>9. /\ request \in [Node -> Letter] /\ response \in [Node -> Letter]
      /\ offer \in [Node -> Letter]
  BY LetterTypes DEF Init
<1> QED BY <1>2, <1>6, <1>7, <1>8, <1>9 DEF Init, TypeOK

LEMMA WitnessSaveTypes ==
  ASSUME TypeOK, NEW q \in Persisted, WitnessSave(q) \/ WitnessSaveFails(q)
  PROVE  /\ p' \in [Proc -> Persisted] /\ disk' \in [Proc -> Persisted]
         /\ faults' \in Nat
<1>1. CASE WitnessSave(q) BY <1>1 DEF TypeOK, WitnessSave
<1>2. CASE WitnessSaveFails(q)
  <2>1. faults' \in Nat BY <1>2, FaultTypes DEF WitnessSaveFails
  <2> QED BY <1>2, <2>1 DEF TypeOK, WitnessSaveFails
<1> QED BY <1>1, <1>2

\* The witness' tick, and the vote it gives.
LEMMA WitnessTickTypes ==
  ASSUME TypeOK, WitnessTick
  PROVE  /\ TypeOK'
         /\ \E q \in Later(p[Witness]) :
              /\ q.votedTerm = p[Witness].votedTerm /\ q.votedFor = p[Witness].votedFor
              /\ WitnessSave(q) \/ WitnessSaveFails(q)
<1> DEFINE v == Hear(Witness, Heard(Witness))
           a == CHOOSE n \in Node : TRUE
           b == Other(a)
           t == Larger(p[Witness].term, Larger(v[a].hb.term, v[b].hb.term))
           r == [p[Witness] EXCEPT !.term = t]
           q == MergeMaint(MergeMaint(r, v[a]), v[b])
<1>1. Witness \in Proc /\ Trio BY Identities DEF WitnessTick
<1>2. p[Witness] \in Persisted BY <1>1 DEF TypeOK
<1>3. v \in [Proc -> Obs] BY <1>1, HearTypes
<1>4. a \in Node /\ b \in Node
  <2>1. Node # {} BY FS_EmptySet, ConstantsAssumption DEF ConstantsAssumption
  <2> QED BY <2>1, OtherNode
<1>5. v[a] \in Obs /\ v[b] \in Obs BY <1>3, <1>4, Identities
<1>6. /\ view' = [view EXCEPT ![Witness] = v]
      /\ \/ /\ WitnessSave(q)
            /\ beat' = [beat EXCEPT ![Witness] = Heartbeat(Witness, q, v)]
            /\ air' = Received(Witness) \cup ({Witness} \X Peers(Witness))
         \/ /\ WitnessSaveFails(q)
            /\ air' = Received(Witness)
            /\ UNCHANGED beat
  BY DEF WitnessTick
<1> HIDE DEF v, a, b
<1>7. t \in Nat /\ t >= p[Witness].term
  <2>1. v[a].hb.term \in Nat /\ v[b].hb.term \in Nat /\ p[Witness].term \in Nat
    BY <1>2, <1>5 DEF Obs, Beat, Persisted
  <2>2. Larger(v[a].hb.term, v[b].hb.term) \in Nat BY <2>1, LargerNat
  <2> QED BY <2>1, <2>2, LargerNat
<1> HIDE DEF t
<1>8. /\ r \in Later(p[Witness]) /\ r \in Persisted
      /\ r.votedTerm = p[Witness].votedTerm /\ r.votedFor = p[Witness].votedFor
  BY <1>2, <1>7, LaterTerm DEF Later, Persisted
<1> HIDE DEF r
<1>9. /\ q \in Later(p[Witness]) /\ q \in Persisted
      /\ q.votedTerm = p[Witness].votedTerm /\ q.votedFor = p[Witness].votedFor
  <2> DEFINE m == MergeMaint(r, v[a])
  <2>1. /\ m \in Persisted /\ m.term = r.term
        /\ m.votedTerm = r.votedTerm /\ m.votedFor = r.votedFor
    BY <1>5, <1>8, LaterMerge DEF Later
  <2> HIDE DEF m
  <2>2. MergeMaint(m, v[b]) \in Persisted /\ MergeMaint(m, v[b]).term = r.term
    BY <1>5, <2>1, LaterMerge DEF Later
  <2>3. /\ MergeMaint(m, v[b]).votedTerm = r.votedTerm
        /\ MergeMaint(m, v[b]).votedFor = r.votedFor
    BY <1>5, <2>1, LaterMerge
  <2>4. q = MergeMaint(m, v[b]) BY DEF m
  <2> HIDE DEF q
  <2> QED BY <1>8, <2>2, <2>3, <2>4 DEF Later
<1> HIDE DEF q
<1>10. WitnessSave(q) \/ WitnessSaveFails(q) BY <1>6
<1>11. TypeOK'
  <2>1. p' \in [Proc -> Persisted] /\ disk' \in [Proc -> Persisted] /\ faults' \in Nat
    BY <1>9, <1>10, WitnessSaveTypes
  <2>2. view' \in [Proc -> [Proc -> Obs]] BY <1>3, <1>6 DEF TypeOK
  <2>3. beat' \in [Proc -> Beat]
    <3>1. Heartbeat(Witness, q, v) \in Beat BY <1>1, <1>9, BeatTypes
    <3> QED BY <1>6, <3>1 DEF TypeOK
  <2>4. air' \in SUBSET Links
    BY <1>1, <1>6 DEF TypeOK, Received, Peers, Links
  <2>5. ticked' \in SUBSET Proc /\ phase' \in Phases
    BY <1>1 DEF TypeOK, WitnessTick, Ticks
  <2> QED
    BY <2>1, <2>2, <2>3, <2>4, <2>5 DEF TypeOK, WitnessTick, voteVars, swapVars
<1> QED BY <1>9, <1>10, <1>11

LEMMA VotedTypes ==
  ASSUME TypeOK, Trio, NEW n \in Node, NEW t \in Nat
  PROVE  /\ Voted(n, t) \in Later(p[Witness])
         /\ Voted(n, t).votedTerm = t /\ Voted(n, t).votedFor = n
<1> DEFINE u == Larger(p[Witness].term, t)
<1>1. p[Witness] \in Persisted BY Identities DEF TypeOK
<1>2. u \in Nat /\ u >= p[Witness].term BY <1>1, LargerNat DEF Persisted
<1> HIDE DEF u
<1>3. [p[Witness] EXCEPT !.votedTerm = t, !.votedFor = n, !.term = u] \in Later(p[Witness])
  BY <1>1, <1>2 DEF Later, Persisted
<1>4. /\ Voted(n, t) = [p[Witness] EXCEPT !.votedTerm = t, !.votedFor = n, !.term = u]
      /\ Voted(n, t).votedTerm = t /\ Voted(n, t).votedFor = n
  BY <1>1 DEF Voted, u, Persisted
<1> QED BY <1>3, <1>4

LEMMA AnswerVoteTypes ==
  ASSUME TypeOK, NEW n \in Node, AnswerVote(n)
  PROVE  TypeOK'
<1> DEFINE t == request[n].term
<1>1. request[n] \in Letter /\ t \in Nat BY DEF TypeOK, Letter
<1>2. Trio /\ Witness \in Proc BY Identities DEF AnswerVote
<1>3. Voted(n, t) \in Persisted BY <1>1, <1>2, VotedTypes DEF Later
<1>4. [request[n] EXCEPT !.late = FALSE] \in Letter BY <1>1 DEF Letter
<1>5. response' \in [Node -> Letter]
  BY <1>4 DEF TypeOK, AnswerVote, NoAnswer, Respond
<1>6. request' \in [Node -> Letter] BY LetterTypes DEF TypeOK, AnswerVote
<1>7. \/ WitnessSave(Voted(n, t)) \/ WitnessSaveFails(Voted(n, t))
      \/ UNCHANGED <<p, disk, faults>>
  BY DEF AnswerVote
<1>8. ledger' \in SUBSET (Nat \X Node)
  <2>1. ledger' = ledger \/ ledger' = ledger \cup {<<t, n>>} BY DEF AnswerVote
  <2>2. ledger \in SUBSET (Nat \X Node) /\ <<t, n>> \in Nat \X Node BY <1>1 DEF TypeOK
  <2> QED BY <2>1, <2>2
<1> HIDE DEF t
<1>9. p' \in [Proc -> Persisted] /\ disk' \in [Proc -> Persisted] /\ faults' \in Nat
  BY <1>3, <1>7, WitnessSaveTypes DEF TypeOK
<1> QED BY <1>5, <1>6, <1>8, <1>9 DEF TypeOK, AnswerVote, swapVars

LEMMA CrashTypes ==
  ASSUME TypeOK, NEW x \in Proc, Crash(x)
  PROVE  TypeOK'
<1>1. NeverSeen \in Obs BY DEF NeverSeen, Obs, NoBeat, Beat, Role
<1>2. /\ up' \in [Proc -> BOOLEAN] /\ p' \in [Proc -> Persisted] /\ faults' \in Nat
      /\ view' \in [Proc -> [Proc -> Obs]]
  BY <1>1 DEF TypeOK, Crash, Fault
<1>3. CASE x = Witness
  BY <1>2, <1>3 DEF TypeOK, Crash, voteVars, swapVars
<1>4. CASE x # Witness
  <2>1. /\ unsaved' = [unsaved EXCEPT ![x] = FALSE]
        /\ carry' = [carry EXCEPT ![x] = NoCarry]
        /\ response' = [response EXCEPT ![x] = NoLetter]
        /\ offer' = [offer EXCEPT ![x] = NoLetter]
        /\ demotes' = [demotes EXCEPT ![x] = <<>>]
        /\ gateway' = [gateway EXCEPT ![x] = [heard |-> FALSE, age |-> 0]]
    BY <1>4 DEF Crash
  <2>2. unsaved' \in [Node -> BOOLEAN] /\ carry' \in [Node -> Carry]
    BY <2>1, CarryZero DEF TypeOK
  <2>3. response' \in [Node -> Letter] /\ offer' \in [Node -> Letter]
    BY <2>1, LetterTypes DEF TypeOK
  <2>4. demotes' \in [Node -> Seq(Nat)]
    <3>1. << >> \in Seq(Nat) OBVIOUS
    <3>2. [demotes EXCEPT ![x] = << >>] \in [Node -> Seq(Nat)]
      BY <3>1, Update, Zenon DEF TypeOK
    <3> QED BY <2>1, <3>2, Zenon
  <2>5. gateway' \in [Node -> [heard : BOOLEAN, age : Nat]] BY <2>1 DEF TypeOK
  <2>7. /\ granted' = [granted EXCEPT ![x] = 0] /\ probed' = [probed EXCEPT ![x] = 0]
        /\ command' = [command EXCEPT ![x] = "none"]
        /\ handIn' = [handIn EXCEPT ![x] = 0]
        /\ demoteDone' = [demoteDone EXCEPT ![x] = 0]
        /\ demoteFailed' = [demoteFailed EXCEPT ![x] = 0]
    BY <1>4 DEF Crash
  <2>8. /\ granted' \in [Node -> Nat] /\ probed' \in [Node -> Nat]
        /\ handIn' \in [Node -> Nat] /\ demoteDone' \in [Node -> Nat]
        /\ demoteFailed' \in [Node -> Nat]
    BY <2>7 DEF TypeOK
  <2>9. command' \in [Node -> {"none", "swap", "force_takeover"}]
    BY <2>7, Zenon DEF TypeOK
  <2>6. UNCHANGED <<disk, beat, air, cut, booting, real, phase, ticked, request, ledger>>
    BY <1>4 DEF Crash
  <2> QED BY <1>2, <2>2, <2>3, <2>4, <2>5, <2>6, <2>8, <2>9 DEF TypeOK
<1> QED BY <1>3, <1>4

LEMMA TickPassesTypes ==
  ASSUME TypeOK, TickPasses
  PROVE  TypeOK'
<1>1. \A y : AgeCap(y) \in Nat BY ConstantsAssumption DEF AgeCap, ConstantsAssumption
<1>2. \A o \in Obs, cap \in Nat : [o EXCEPT !.age = Older(o.age, cap)] \in Obs
  BY OlderNat DEF Obs
<1>3. view' \in [Proc -> [Proc -> Obs]] BY <1>1, <1>2 DEF TypeOK, TickPasses
<1>4. \A c \in Carry : Aged(c) \in Carry
  <2> SUFFICES ASSUME NEW c \in Carry PROVE Aged(c) \in Carry OBVIOUS
  <2> DEFINE h == IF c.hold > 0 THEN c.hold - 1 ELSE 0
             k == IF c.vote = 0 THEN 0 ELSE Older(c.askedAge, VoteRepeat)
             l == IF c.handover = 0 THEN 0 ELSE Older(c.handAge, Takeover + DemoteWait)
             m == IF c.ready THEN Older(c.readyAge, Takeover) ELSE 0
             o == IF c.ready THEN Older(c.sentAge, HandoverRepeat) ELSE 0
             u == Older(c.mutualAge, FenceAfter)
  <2>1. {VoteRepeat, Takeover, DemoteWait, HandoverRepeat, FenceAfter} \subseteq Nat
    BY ConstantsAssumption DEF ConstantsAssumption
  <2>2. {h, k, l, m, o, u} \subseteq Nat
    <3>1. /\ c.hold \in Nat /\ c.askedAge \in Nat /\ c.handAge \in Nat
          /\ c.readyAge \in Nat /\ c.sentAge \in Nat /\ c.mutualAge \in Nat
      BY DEF Carry
    <3>2. Takeover + DemoteWait \in Nat BY <2>1
    <3>3. h \in Nat BY <3>1
    <3>4. k \in Nat /\ m \in Nat BY <2>1, <3>1, OlderNat
    <3>5. l \in Nat /\ o \in Nat BY <2>1, <3>1, <3>2, OlderNat
    <3>6. u \in Nat BY <2>1, <3>1, OlderNat
    <3> QED BY <3>3, <3>4, <3>5, <3>6
  <2> HIDE DEF h, k, l, m, o, u
  <2>3. [c EXCEPT !.hold = h, !.askedAge = k, !.handAge = l, !.readyAge = m,
                  !.sentAge = o, !.mutualAge = u] \in Carry
    BY <2>2 DEF Carry
  <2> QED BY <2>3 DEF Aged, h, k, l, m, o, u
<1>5. carry' \in [Node -> Carry] BY <1>4 DEF TypeOK, TickPasses
<1>6. gateway' \in [Node -> [heard : BOOLEAN, age : Nat]]
  <2>1. Larger(FenceAfter, SeenTicks + 1) \in Nat
    <3>1. FenceAfter \in Nat /\ SeenTicks + 1 \in Nat
      BY ConstantsAssumption DEF ConstantsAssumption
    <3> QED BY <3>1, LargerNat
  <2>2. \A g \in [heard : BOOLEAN, age : Nat] :
          [g EXCEPT !.age = Older(g.age, Larger(FenceAfter, SeenTicks + 1))]
             \in [heard : BOOLEAN, age : Nat]
    BY <2>1, OlderNat
  <2> QED BY <2>2 DEF TypeOK, TickPasses
<1>7. /\ request' \in [Node -> Letter] /\ response' \in [Node -> Letter]
      /\ offer' \in [Node -> Letter]
  BY LetterTypes DEF TypeOK, TickPasses
<1>8. air' \in SUBSET Links /\ ticked' \in SUBSET Proc BY DEF TypeOK, TickPasses
<1> QED BY <1>3, <1>5, <1>6, <1>7, <1>8 DEF TypeOK, TickPasses

LEMMA DemoteTypes ==
  ASSUME TypeOK, NEW n \in Node, DemoteSucceeds(n) \/ DemoteFails(n)
  PROVE  TypeOK'
<1>1. demotes[n] \in Seq(Nat) /\ demotes[n] # << >>
  BY DEF TypeOK, DemoteSucceeds, DemoteFails
<1>2. Tail(demotes[n]) \in Seq(Nat) /\ Head(demotes[n]) \in Nat BY <1>1
<1>3. CASE DemoteSucceeds(n)
  BY <1>2, <1>3 DEF TypeOK, DemoteSucceeds, nodeVars, netVars, voteVars
<1>4. CASE DemoteFails(n)
  <2>1. SetMaint(p[n], TRUE) \in Persisted
    BY Identities, LaterMaint DEF TypeOK, Later
  <2>2. faults' \in Nat BY <1>4, FaultTypes DEF DemoteFails
  <2>4. p' \in [Proc -> Persisted] /\ disk' \in [Proc -> Persisted]
    <3> DEFINE q == SetMaint(p[n], TRUE)
    <3>1. /\ p' = [p EXCEPT ![n] = q] \/ p' = p
          /\ disk' \in {disk, [disk EXCEPT ![n] = q]}
      BY <1>4 DEF DemoteFails
    <3>2. p \in [Proc -> Persisted] /\ disk \in [Proc -> Persisted] BY DEF TypeOK
    <3> HIDE DEF q
    <3>3. [p EXCEPT ![n] = q] \in [Proc -> Persisted] BY <2>1, <3>2, Update DEF q
    <3>4. [disk EXCEPT ![n] = q] \in [Proc -> Persisted] BY <2>1, <3>2, Update DEF q
    <3> QED BY <3>1, <3>2, <3>3, <3>4
  <2>5. unsaved' \in [Node -> BOOLEAN]
    <3>1. \/ unsaved' = [unsaved EXCEPT ![n] = FALSE]
          \/ unsaved' = [unsaved EXCEPT ![n] = TRUE]
      BY <1>4, Zenon DEF DemoteFails
    <3>2. unsaved \in [Node -> BOOLEAN] BY DEF TypeOK
    <3>3. /\ [unsaved EXCEPT ![n] = FALSE] \in [Node -> BOOLEAN]
          /\ [unsaved EXCEPT ![n] = TRUE] \in [Node -> BOOLEAN]
      BY <3>2
    <3> QED BY <3>1, <3>3, Zenon
  <2>3. demotes' \in [Node -> Seq(Nat)] /\ demoteFailed' \in [Node -> Nat]
    BY <1>2, <1>4 DEF TypeOK, DemoteFails
  <2> QED BY <1>4, <2>2, <2>3, <2>4, <2>5 DEF TypeOK, DemoteFails, voteVars
<1> QED BY <1>3, <1>4

\* Every step keeps the types.
LEMMA TypesStep ==
  ASSUME TypeOK, [Next]_vars
  PROVE  TypeOK'
<1> USE DEF nodeVars, netVars, voteVars, swapVars
<1>1. ASSUME NEW n \in Node, NodeTick(n) PROVE TypeOK'
  <2>1. PICK q \in Later(p[n]), c \in Carry, s \in Sends : Save(n, q, c, s)
    BY <1>1, NodeTickDecides
  <2>2. q \in Persisted BY DEF Later
  <2>3. /\ Ticks(n)
        /\ UNCHANGED <<cut, up, real, response, probed, ledger, demoteDone, demoteFailed>>
    BY <1>1 DEF NodeTick
  <2> QED BY <1>1, <2>1, <2>2, <2>3, NodeTickDecides, SaveTypes
<1>2. CASE WitnessTick BY <1>2, WitnessTickTypes
<1>3. ASSUME NEW n \in Node, AnswerVote(n) PROVE TypeOK' BY <1>3, AnswerVoteTypes
<1>4. ASSUME NEW n \in Node, ReceiveVote(n) PROVE TypeOK'
  <2>1. response[n].term \in Nat BY DEF TypeOK, Letter
  <2> QED BY <1>4, <2>1, LetterTypes DEF TypeOK, ReceiveVote
<1>5. ASSUME NEW n \in Node, DeliverHandover(n) PROVE TypeOK'
  <2>1. offer[n].term \in Nat BY DEF TypeOK, Letter
  <2> QED BY <1>5, <2>1, LetterTypes DEF TypeOK, DeliverHandover
<1>6. ASSUME NEW n \in Node, NEW cmd, GiveCommand(n, cmd) PROVE TypeOK'
  BY <1>6 DEF TypeOK, GiveCommand
<1>7. ASSUME NEW n \in Node, NEW on \in BOOLEAN, SetMaintenance(n, on) PROVE TypeOK'
  <2>1. SetMaint(p[n], on) \in Persisted BY Identities, LaterMaint DEF TypeOK, Later
  <2>2. faults' \in Nat BY <1>7, FaultTypes DEF SetMaintenance
  <2>3. p' \in [Proc -> Persisted] /\ disk' \in [Proc -> Persisted]
    <3> DEFINE q == SetMaint(p[n], on)
    <3>1. p' \in {p, [p EXCEPT ![n] = q]} /\ disk' \in {disk, [disk EXCEPT ![n] = q]}
      BY <1>7 DEF SetMaintenance
    <3>2. q \in Persisted BY <2>1
    <3>3. p \in [Proc -> Persisted] /\ disk \in [Proc -> Persisted] BY DEF TypeOK
    <3> HIDE DEF q
    <3> QED BY <3>1, <3>2, <3>3
  <2> QED BY <1>7, <2>2, <2>3 DEF TypeOK, SetMaintenance
<1>8. ASSUME NEW n \in Node, SetAutoMode(n) PROVE TypeOK'
  BY <1>8 DEF TypeOK, SetAutoMode
<1>9. ASSUME NEW n \in Node, DemoteSucceeds(n) \/ DemoteFails(n) PROVE TypeOK'
  BY <1>9, DemoteTypes
<1>10. ASSUME NEW x \in Proc, Crash(x) PROVE TypeOK' BY <1>10, CrashTypes
<1>11. ASSUME NEW x \in Proc, Restart(x) PROVE TypeOK'
  BY <1>11 DEF TypeOK, Restart
<1>12. ASSUME NEW S \in Breakdowns, Breaks(S) \/ Heals(S) PROVE TypeOK'
  <2>1. faults' \in Nat BY <1>12, FaultTypes DEF Breaks, Heals
  <2>2. cut' \subseteq UNION Breakdowns BY <1>12 DEF TypeOK, Breaks, Heals
  <2> QED BY <1>12, <2>1, <2>2 DEF TypeOK, Breaks, Heals
<1>13. CASE NewDay
  <2>1. \A q \in Persisted : [q EXCEPT !.count = 0] \in Persisted BY DEF Persisted
  <2> QED BY <1>13, <2>1 DEF TypeOK, NewDay
<1>14. CASE TickPasses BY <1>14, TickPassesTypes
<1>15. CASE UNCHANGED vars BY <1>15 DEF vars, TypeOK
<1> QED
  BY <1>1, <1>2, <1>3, <1>4, <1>5, <1>6, <1>7, <1>8, <1>9, <1>10, <1>11, <1>12,
     <1>13, <1>14, <1>15 DEF Next

\* The types hold in every reachable state.
THEOREM TypesHold == Spec => []TypeOK
<1>1. TypeOK /\ [Next]_vars => TypeOK' BY TypesStep
<1> QED BY <1>1, InitTypes, PTL DEF Spec

-----------------------------------------------------------------------------
(* What is saved: the terms, and the votes of the witness                  *)

\* A file is never behind the memory of its process (it may be ahead: a write
\* reported as failed can have reached the disk).
SavedTerms == \A x \in Proc : disk[x].term >= p[x].term

Grows ==
  \A x \in Proc : p'[x].term >= p[x].term /\ disk'[x].term >= p'[x].term

\* One process changes its state, or only its file, by a state that may follow.
LEMMA OneGrows ==
  ASSUME TypeOK, SavedTerms, NEW y \in Proc, NEW q \in Later(p[y]),
         \/ p' = [p EXCEPT ![y] = q] /\ disk' = [disk EXCEPT ![y] = q]
         \/ UNCHANGED p /\ disk' \in {disk, [disk EXCEPT ![y] = q]}
  PROVE  Grows
<1> SUFFICES ASSUME NEW x \in Proc
             PROVE  p'[x].term >= p[x].term /\ disk'[x].term >= p'[x].term
  BY DEF Grows
<1>1. /\ p[x].term \in Nat /\ p[y].term \in Nat /\ q.term \in Nat
      /\ disk[x].term >= p[x].term /\ q.term >= p[y].term
  BY DEF TypeOK, Persisted, Later, SavedTerms
<1>2. DOMAIN p = Proc /\ DOMAIN disk = Proc BY DEF TypeOK
<1>3. CASE p' = [p EXCEPT ![y] = q] /\ disk' = [disk EXCEPT ![y] = q]
  BY <1>1, <1>2, <1>3
<1>4. CASE UNCHANGED p /\ disk' \in {disk, [disk EXCEPT ![y] = q]}
  BY <1>1, <1>2, <1>4
<1> QED BY <1>3, <1>4

LEMMA NoneGrows ==
  ASSUME TypeOK, SavedTerms, UNCHANGED <<p, disk>>
  PROVE  Grows
  BY DEF TypeOK, SavedTerms, Grows, Persisted

\* Whatever step is taken, no term falls and no file falls behind.
LEMMA TermsGrow ==
  ASSUME TypeOK, SavedTerms, [Next]_vars
  PROVE  Grows
<1> USE DEF nodeVars, netVars, voteVars, swapVars
<1>1. ASSUME NEW n \in Node, NodeTick(n) PROVE Grows
  <2>1. PICK q \in Later(p[n]), c \in Carry, s \in Sends : Save(n, q, c, s)
    BY <1>1, NodeTickDecides
  <2>2. \/ p' = [p EXCEPT ![n] = q] /\ disk' = [disk EXCEPT ![n] = q]
        \/ UNCHANGED p /\ disk' \in {disk, [disk EXCEPT ![n] = q]}
    BY <2>1 DEF Save, SaveDone, SaveFails
  <2> QED BY <2>2, Identities, OneGrows
<1>2. CASE WitnessTick
  <2>1. PICK q \in Later(p[Witness]) : WitnessSave(q) \/ WitnessSaveFails(q)
    BY <1>2, WitnessTickTypes
  <2>2. Witness \in Proc BY <1>2, Identities DEF WitnessTick
  <2> QED BY <2>1, <2>2, OneGrows DEF WitnessSave, WitnessSaveFails
<1>3. ASSUME NEW n \in Node, AnswerVote(n) PROVE Grows
  <2> DEFINE q == Voted(n, request[n].term)
  <2>1. Trio /\ Witness \in Proc /\ request[n].term \in Nat
    BY <1>3, Identities DEF AnswerVote, TypeOK, Letter
  <2>2. q \in Later(p[Witness]) BY <2>1, VotedTypes
  <2>3. WitnessSave(q) \/ WitnessSaveFails(q) \/ UNCHANGED <<p, disk>>
    BY <1>3 DEF AnswerVote
  <2> HIDE DEF q
  <2> QED BY <2>1, <2>2, <2>3, OneGrows, NoneGrows DEF WitnessSave, WitnessSaveFails
<1>4. ASSUME NEW n \in Node, NEW on \in BOOLEAN,
             SetMaintenance(n, on) \/ (on = TRUE /\ DemoteFails(n))
      PROVE  Grows
  <2> DEFINE q == SetMaint(p[n], on)
  <2>1. n \in Proc /\ q \in Later(p[n]) BY Identities, LaterMaint DEF TypeOK
  <2>2. \/ p' = [p EXCEPT ![n] = q] /\ disk' = [disk EXCEPT ![n] = q]
        \/ UNCHANGED p /\ disk' \in {disk, [disk EXCEPT ![n] = q]}
    BY <1>4 DEF SetMaintenance, DemoteFails
  <2> HIDE DEF q
  <2> QED BY <2>1, <2>2, OneGrows
<1>5. ASSUME NEW x \in Proc, Crash(x) PROVE Grows
  <2>1. p' = [p EXCEPT ![x] = disk[x]] /\ disk' = disk BY <1>5 DEF Crash
  <2>2. \A y \in Proc : p[y].term \in Nat /\ disk[y].term \in Nat BY DEF TypeOK, Persisted
  <2>3. DOMAIN p = Proc BY DEF TypeOK
  <2> QED BY <2>1, <2>2, <2>3 DEF SavedTerms, Grows
<1>6. CASE NewDay
  <2>1. /\ p' = [x \in Proc |-> [p[x] EXCEPT !.count = 0]]
        /\ disk' = [x \in Proc |-> [disk[x] EXCEPT !.count = 0]]
    BY <1>6 DEF NewDay
  <2>2. \A q \in Persisted : [q EXCEPT !.count = 0].term = q.term /\ q.term \in Nat
    BY DEF Persisted
  <2>3. \A x \in Proc : /\ p'[x].term = p[x].term /\ disk'[x].term = disk[x].term
                        /\ p[x].term \in Nat /\ disk[x].term \in Nat
    BY <2>1, <2>2 DEF TypeOK
  <2> QED BY <2>3 DEF SavedTerms, Grows
<1>7. ASSUME \/ \E n \in Node :
                  \/ ReceiveVote(n) \/ DeliverHandover(n) \/ SetAutoMode(n)
                  \/ DemoteSucceeds(n) \/ \E cmd \in Commands : GiveCommand(n, cmd)
             \/ \E x \in Proc : Restart(x)
             \/ \E S \in Breakdowns : Breaks(S) \/ Heals(S)
             \/ TickPasses \/ UNCHANGED vars
      PROVE  Grows
  <2>1. UNCHANGED <<p, disk>>
    BY <1>7 DEF ReceiveVote, DeliverHandover, SetAutoMode, DemoteSucceeds, GiveCommand,
                Restart, Breaks, Heals, TickPasses, vars
  <2> QED BY <2>1, NoneGrows
<1> QED BY <1>1, <1>2, <1>3, <1>4, <1>5, <1>6, <1>7 DEF Next

LEMMA SavedTermsHold == Spec => []SavedTerms
<1>1. Init => SavedTerms
  <2>1. \A r : StateFile(r).term = 1 BY DEF StateFile
  <2> QED BY <2>1 DEF Init, SavedTerms
<1>2. TypeOK /\ SavedTerms /\ [Next]_vars => SavedTerms'
  BY TermsGrow DEF Grows, SavedTerms
<1> QED BY <1>1, <1>2, TypesHold, PTL DEF Spec

\* The term of a process never goes down, whatever crashes and whatever write
\* of the state file fails.
THEOREM NoTermFalls == Spec => TermsNeverFall
<1>1. TypeOK /\ SavedTerms /\ [Next]_vars
        => [\A x \in Proc : p'[x].term >= p[x].term]_vars
  BY TermsGrow DEF Grows
<1> QED BY <1>1, TypesHold, SavedTermsHold, PTL DEF Spec, TermsNeverFall

\* A state of the witness that knows of every vote given out.
Knows(q) ==
  \A v \in ledger : v[1] < q.votedTerm \/ (v[1] = q.votedTerm /\ v[2] = q.votedFor)

\* Both the witness' memory and its file know every vote given out; they may
\* differ, and each of them may be what the next vote is decided on.
VotesKnown ==
  IF Trio THEN Knows(p[Witness]) /\ Knows(disk[Witness]) ELSE ledger = {}

\* A step that gives no vote changes the witness' book at most by what was in
\* memory or in the file.
LEMMA KeepsBook ==
  ASSUME VotesKnown, UNCHANGED ledger,
         Trio => \A q \in {p'[Witness], disk'[Witness]} :
                   \E r \in {p[Witness], disk[Witness]} :
                     q.votedTerm = r.votedTerm /\ q.votedFor = r.votedFor
  PROVE  VotesKnown'
<1>1. CASE Trio
  <2>1. \A r \in {p[Witness], disk[Witness]} : Knows(r) BY <1>1 DEF VotesKnown
  <2>2. ASSUME NEW q \in {p'[Witness], disk'[Witness]}
        PROVE  \A v \in ledger' : v[1] < q.votedTerm \/ (v[1] = q.votedTerm /\ v[2] = q.votedFor)
    BY <1>1, <2>1 DEF Knows
  <2> QED BY <1>1, <2>2 DEF VotesKnown, Knows, Trio
<1>2. CASE ~Trio BY <1>2 DEF VotesKnown, Trio
<1> QED BY <1>1, <1>2

\* The vote that is granted is new to the witness' book, or given again.
LEMMA NewVote ==
  ASSUME TypeOK, Trio, VotesKnown, NEW n \in Node, NEW t \in Nat, Grants(n, t)
  PROVE  /\ \A v \in ledger : v[1] < t \/ (v[1] = t /\ v[2] = n)
         /\ Knows(Voted(n, t))
<1>1. p[Witness] \in Persisted BY Identities DEF TypeOK
<1>2. /\ p[Witness].votedTerm \in Nat /\ p[Witness].term \in Nat
      /\ \A v \in ledger : v[1] \in Nat
  BY <1>1 DEF Persisted, TypeOK
<1>3. Larger(p[Witness].votedTerm, p[Witness].term) \in Nat
      /\ Larger(p[Witness].votedTerm, p[Witness].term) >= p[Witness].votedTerm
  BY <1>2, LargerNat
<1>4. \/ t > p[Witness].votedTerm
      \/ t = p[Witness].votedTerm /\ n = p[Witness].votedFor
  BY <1>2, <1>3 DEF Grants
<1>5. Knows(p[Witness]) BY DEF VotesKnown
<1>6. \A v \in ledger : v[1] < t \/ (v[1] = t /\ v[2] = n)
  BY <1>2, <1>4, <1>5 DEF Knows
<1>7. Voted(n, t).votedTerm = t /\ Voted(n, t).votedFor = n BY VotedTypes
<1> QED BY <1>6, <1>7 DEF Knows

LEMMA VoteStep ==
  ASSUME TypeOK, VotesKnown, OneVotePerTerm, NEW n \in Node, AnswerVote(n)
  PROVE  VotesKnown' /\ OneVotePerTerm'
<1> DEFINE t == request[n].term
           q == Voted(n, t)
<1>1. Trio /\ Witness \in Proc /\ t \in Nat
  BY Identities DEF AnswerVote, TypeOK, Letter
<1>2. \/ Grants(n, t) /\ WitnessSave(q) /\ ledger' = ledger \cup {<<t, n>>}
      \/ Grants(n, t) /\ WitnessSaveFails(q) /\ UNCHANGED ledger
      \/ UNCHANGED <<p, disk, ledger>>
  BY DEF AnswerVote
<1>3. q.votedTerm = t /\ q.votedFor = n BY <1>1, VotedTypes
<1> HIDE DEF t, q
<1>4. ASSUME Grants(n, t)
      PROVE  Knows(q) /\ \A v \in ledger : v[1] < t \/ (v[1] = t /\ v[2] = n)
  BY <1>1, <1>4, NewVote DEF t, q
<1>5. Knows(p[Witness]) /\ Knows(disk[Witness]) BY <1>1 DEF VotesKnown
<1>6. DOMAIN p = Proc /\ DOMAIN disk = Proc BY DEF TypeOK
<1>7. CASE Grants(n, t) /\ WitnessSave(q) /\ ledger' = ledger \cup {<<t, n>>}
  <2>1. p'[Witness] = q /\ disk'[Witness] = q
    BY <1>1, <1>6, <1>7 DEF WitnessSave
  <2>2. \A v \in ledger' : v[1] < q.votedTerm \/ (v[1] = q.votedTerm /\ v[2] = q.votedFor)
    BY <1>3, <1>4, <1>7
  <2>3. VotesKnown' BY <1>1, <2>1, <2>2 DEF VotesKnown, Knows, Trio
  <2>4. ASSUME NEW v \in ledger', NEW w \in ledger', v[1] = w[1] PROVE v = w
    <3>1. ledger \subseteq Nat \X Node BY DEF TypeOK
    <3>2. \A u \in ledger : u[1] = t => u = <<t, n>> BY <1>1, <1>4, <1>7, <3>1
    <3>3. \A x, y \in ledger : x[1] = y[1] => x = y BY DEF OneVotePerTerm
    <3> QED BY <1>7, <2>4, <3>2, <3>3
  <2> QED BY <2>3, <2>4 DEF OneVotePerTerm
<1>8. CASE Grants(n, t) /\ WitnessSaveFails(q) /\ UNCHANGED ledger
  <2>1. p' = p /\ disk'[Witness] \in {disk[Witness], q}
    BY <1>1, <1>6, <1>8 DEF WitnessSaveFails
  <2>2. \A r \in {p'[Witness], disk'[Witness]} : Knows(r) BY <1>4, <1>5, <1>8, <2>1
  <2>3. VotesKnown' BY <1>1, <1>8, <2>2 DEF VotesKnown, Knows, Trio
  <2> QED BY <1>8, <2>3 DEF OneVotePerTerm
<1>9. CASE UNCHANGED <<p, disk, ledger>>
  BY <1>9 DEF VotesKnown, Knows, OneVotePerTerm, Trio
<1> QED BY <1>2, <1>7, <1>8, <1>9

\* In every step the votes given out stay known, and no term is voted twice.
LEMMA BookStep ==
  ASSUME TypeOK, VotesKnown, OneVotePerTerm, [Next]_vars
  PROVE  VotesKnown' /\ OneVotePerTerm'
<1> USE DEF nodeVars, netVars, voteVars, swapVars
<1>1. ASSUME NEW n \in Node, AnswerVote(n) PROVE VotesKnown' /\ OneVotePerTerm'
  BY <1>1, VoteStep
<1>2. ASSUME UNCHANGED ledger,
             Trio => \A q \in {p'[Witness], disk'[Witness]} :
                       \E r \in {p[Witness], disk[Witness]} :
                         q.votedTerm = r.votedTerm /\ q.votedFor = r.votedFor
      PROVE  VotesKnown' /\ OneVotePerTerm'
  BY <1>2, KeepsBook DEF OneVotePerTerm
<1>3. Trio => Witness \in Proc BY Identities
<1>4. DOMAIN p = Proc /\ DOMAIN disk = Proc BY DEF TypeOK
<1>5. ASSUME NEW n \in Node, NodeTick(n) PROVE VotesKnown' /\ OneVotePerTerm'
  <2>1. PICK q \in Later(p[n]), c \in Carry, s \in Sends : Save(n, q, c, s)
    BY <1>5, NodeTickDecides
  <2>2. /\ p' \in {p, [p EXCEPT ![n] = q]} /\ disk' \in {disk, [disk EXCEPT ![n] = q]}
    BY <2>1 DEF Save, SaveDone, SaveFails
  <2>3. Trio => p'[Witness] = p[Witness] /\ disk'[Witness] = disk[Witness]
    BY <1>3, <1>4, <2>2, Identities
  <2> QED BY <1>2, <1>5, <2>3 DEF NodeTick
<1>6. CASE WitnessTick
  <2>1. PICK q \in Later(p[Witness]) :
          /\ q.votedTerm = p[Witness].votedTerm /\ q.votedFor = p[Witness].votedFor
          /\ WitnessSave(q) \/ WitnessSaveFails(q)
    BY <1>6, WitnessTickTypes
  <2>2. Trio => p'[Witness] \in {p[Witness], q} /\ disk'[Witness] \in {disk[Witness], q}
    BY <1>3, <1>4, <2>1 DEF WitnessSave, WitnessSaveFails
  <2> QED BY <1>2, <1>6, <2>1, <2>2 DEF WitnessTick
<1>7. ASSUME NEW n \in Node, NEW on \in BOOLEAN,
             SetMaintenance(n, on) \/ (on = TRUE /\ DemoteFails(n))
      PROVE  VotesKnown' /\ OneVotePerTerm'
  <2> DEFINE q == SetMaint(p[n], on)
  <2>1. p' \in {p, [p EXCEPT ![n] = q]} /\ disk' \in {disk, [disk EXCEPT ![n] = q]}
    BY <1>7 DEF SetMaintenance, DemoteFails
  <2> HIDE DEF q
  <2>2. Trio => p'[Witness] = p[Witness] /\ disk'[Witness] = disk[Witness]
    BY <1>3, <1>4, <2>1, Identities
  <2>3. UNCHANGED ledger BY <1>7 DEF SetMaintenance, DemoteFails
  <2> QED BY <1>2, <2>2, <2>3
<1>8. ASSUME NEW x \in Proc, Crash(x) PROVE VotesKnown' /\ OneVotePerTerm'
  <2>1. p' = [p EXCEPT ![x] = disk[x]] /\ disk' = disk /\ UNCHANGED ledger
    BY <1>8 DEF Crash
  <2>2. Trio => p'[Witness] \in {p[Witness], disk[Witness]} BY <1>3, <1>4, <2>1
  <2> QED BY <1>2, <2>1, <2>2
<1>9. CASE NewDay
  <2>1. /\ p' = [x \in Proc |-> [p[x] EXCEPT !.count = 0]] /\ UNCHANGED ledger
        /\ disk' = [x \in Proc |-> [disk[x] EXCEPT !.count = 0]]
    BY <1>9 DEF NewDay
  <2>2. \A q \in Persisted : /\ [q EXCEPT !.count = 0].votedTerm = q.votedTerm
                             /\ [q EXCEPT !.count = 0].votedFor = q.votedFor
    BY DEF Persisted
  <2>3. Trio => p[Witness] \in Persisted /\ disk[Witness] \in Persisted
    BY <1>3 DEF TypeOK
  <2> QED BY <1>2, <1>3, <2>1, <2>2, <2>3
<1>10. ASSUME \/ \E n \in Node :
                   \/ ReceiveVote(n) \/ DeliverHandover(n) \/ SetAutoMode(n)
                   \/ DemoteSucceeds(n) \/ \E cmd \in Commands : GiveCommand(n, cmd)
              \/ \E x \in Proc : Restart(x)
              \/ \E S \in Breakdowns : Breaks(S) \/ Heals(S)
              \/ TickPasses \/ UNCHANGED vars
       PROVE  VotesKnown' /\ OneVotePerTerm'
  <2>1. UNCHANGED <<p, disk, ledger>>
    BY <1>10 DEF ReceiveVote, DeliverHandover, SetAutoMode, DemoteSucceeds, GiveCommand,
                 Restart, Breaks, Heals, TickPasses, vars
  <2> QED BY <1>2, <2>1
<1> QED BY <1>1, <1>5, <1>6, <1>7, <1>8, <1>9, <1>10 DEF Next

LEMMA VotesKnownHolds == Spec => [](VotesKnown /\ OneVotePerTerm)
<1>1. Init => VotesKnown /\ OneVotePerTerm
  BY DEF Init, VotesKnown, Knows, OneVotePerTerm
<1>2. TypeOK /\ VotesKnown /\ OneVotePerTerm /\ [Next]_vars
        => VotesKnown' /\ OneVotePerTerm'
  BY BookStep
<1> QED BY <1>1, <1>2, TypesHold, PTL DEF Spec

\* The witness never gives the vote of one term to two servers: not across its
\* crashes, not across a failed save, and however the messages are ordered.
THEOREM VotesHold == Spec => []OneVotePerTerm
  BY VotesKnownHolds, PTL

-----------------------------------------------------------------------------
(* A counted takeover has the saved vote                                   *)

\* If r counts more takeovers than q it counts one more, which has the vote of
\* a newer term.
VotedFrom(n, q, r) ==
  r.count > q.count => <<r.term, n>> \in ledger /\ r.term > q.term /\ r.count = q.count + 1

\* What a node takes for its vote, and what is on its way to it, is in the
\* ledger, and so is a takeover that is only in its file.
VotedGrant(n) ==
  /\ granted[n] # 0 => <<granted[n], n>> \in ledger
  /\ response[n].term # 0 /\ ~response[n].probe => <<response[n].term, n>> \in ledger
  /\ VotedFrom(n, p[n], disk[n])

GrantsVoted == Trio => \A n \in Node : VotedGrant(n)

VotedTaking(n) == VotedFrom(n, p[n], p'[n])

TakenVoted == Trio => \A n \in Node : VotedTaking(n)

\* Both may be shown for one node at a time.
LEMMA EachGrant ==
  ASSUME GrantsVoted,
         \A n \in Node : Trio /\ VotedGrant(n) => VotedGrant(n)' /\ VotedTaking(n)
  PROVE  GrantsVoted' /\ TakenVoted
  BY DEF GrantsVoted, TakenVoted, Trio

\* A step that changes neither counts, terms nor grants, except files that are
\* brought up to the memory.
LEMMA SameGrants ==
  ASSUME TypeOK, GrantsVoted, ledger \subseteq ledger', UNCHANGED <<granted, response>>,
         \A n \in Node :
           /\ p'[n].count = p[n].count /\ p'[n].term = p[n].term
           /\ disk'[n] = disk[n] \/ disk'[n].count = p'[n].count
  PROVE  GrantsVoted' /\ TakenVoted
<1>1. \A n \in Node : p[n].count \in Nat BY Identities DEF TypeOK, Persisted
<1>2. ASSUME NEW n \in Node, VotedGrant(n) PROVE VotedGrant(n)' /\ VotedTaking(n)
  <2>1. VotedTaking(n) BY <1>1 DEF VotedTaking, VotedFrom
  <2>2. VotedFrom(n, p[n], disk[n])' BY <1>1, <1>2 DEF VotedGrant, VotedFrom
  <2> QED BY <1>2, <2>1, <2>2 DEF VotedGrant
<1> QED BY <1>2, EachGrant

LEMMA NodeTickGrants ==
  ASSUME TypeOK, GrantsVoted, NEW n \in Node, NodeTick(n)
  PROVE  GrantsVoted' /\ TakenVoted
<1> SUFFICES ASSUME Trio PROVE GrantsVoted' /\ TakenVoted
  BY DEF GrantsVoted, TakenVoted, Trio
<1>1. PICK r, c, s : /\ Save(n, r, c, s)
                     /\ r.count = p[n].count \/ Wins(n, p[n], r)
  BY NodeTickDecides DEF Counts
<1>2. UNCHANGED <<response, ledger>> BY DEF NodeTick
<1>3. \/ p' = [p EXCEPT ![n] = r] /\ disk' = [disk EXCEPT ![n] = r]
      \/ UNCHANGED p /\ disk' \in {disk, [disk EXCEPT ![n] = r]}
  BY <1>1 DEF Save, SaveDone, SaveFails
<1>4. /\ n \in Proc /\ Node \subseteq Proc /\ DOMAIN p = Proc /\ DOMAIN disk = Proc
      /\ DOMAIN granted = Node
      /\ \A m \in Node : p[m].count \in Nat
  BY Identities DEF TypeOK, Persisted
<1>5. \A m \in Node : granted'[m] \in {granted[m], 0}
  <2>1. \/ granted' = granted
        \/ granted' = [granted EXCEPT ![n] =
             IF c.vote # granted[n] \/ r.term >= granted[n] THEN 0 ELSE granted[n]]
    BY <1>1 DEF Save, SaveDone, SaveFails
  <2> QED BY <1>4, <2>1
<1>6. p[n].count \in Nat /\ VotedFrom(n, p[n], r)
  <2>1. Wins(n, p[n], r) => <<r.term, n>> \in ledger BY DEF GrantsVoted, VotedGrant, Wins
  <2> QED BY <1>1, <1>4, <2>1 DEF VotedFrom, Wins
<1>7. ASSUME NEW m \in Node, VotedGrant(m) PROVE VotedGrant(m)' /\ VotedTaking(m)
  <2>1. /\ granted'[m] # 0 => <<granted'[m], m>> \in ledger'
        /\ response'[m].term # 0 /\ ~response'[m].probe => <<response'[m].term, m>> \in ledger'
    BY <1>2, <1>5, <1>7 DEF VotedGrant
  <2>2. p[m].count \in Nat BY <1>4
  <2>3. \/ p'[m] = r /\ disk'[m] = r /\ m = n
        \/ p'[m] = p[m] /\ disk'[m] = disk[m]
        \/ p'[m] = p[m] /\ disk'[m] = r /\ m = n
    BY <1>3, <1>4
  <2>4. CASE p'[m] = r /\ disk'[m] = r /\ m = n
    <3>1. VotedTaking(m) BY <1>6, <2>4 DEF VotedTaking
    <3>2. r.count \in Nat BY <1>1, <1>6 DEF Wins
    <3>3. VotedFrom(m, p[m], disk[m])' BY <2>4, <3>2 DEF VotedFrom
    <3> QED BY <2>1, <3>1, <3>3 DEF VotedGrant
  <2>5. CASE p'[m] = p[m] /\ disk'[m] = disk[m]
    <3>1. VotedTaking(m) BY <2>2, <2>5 DEF VotedTaking, VotedFrom
    <3>2. VotedFrom(m, p[m], disk[m])' BY <1>2, <1>7, <2>5 DEF VotedGrant, VotedFrom
    <3> QED BY <2>1, <3>1, <3>2 DEF VotedGrant
  <2>6. CASE p'[m] = p[m] /\ disk'[m] = r /\ m = n
    <3>1. VotedTaking(m) BY <2>2, <2>6 DEF VotedTaking, VotedFrom
    <3>2. VotedFrom(m, p[m], disk[m])' BY <1>2, <1>6, <2>6 DEF VotedFrom
    <3> QED BY <2>1, <3>1, <3>2 DEF VotedGrant
  <2> QED BY <2>3, <2>4, <2>5, <2>6
<1> QED BY <1>7, EachGrant

LEMMA AnswerVoteGrants ==
  ASSUME TypeOK, GrantsVoted, NEW n \in Node, AnswerVote(n)
  PROVE  GrantsVoted' /\ TakenVoted
<1>1. Trio /\ Witness \in Proc /\ Witness \notin Node /\ Node \subseteq Proc
  BY Identities DEF AnswerVote
<1> DEFINE q == Voted(n, request[n].term)
<1>2. \/ Respond(n) /\ (request[n].probe \/ <<request[n].term, n>> \in ledger')
      \/ UNCHANGED response
  BY DEF AnswerVote, NoAnswer
<1>3. /\ ledger \subseteq ledger' /\ UNCHANGED granted
      /\ p' \in {p, [p EXCEPT ![Witness] = q]} /\ disk' \in {disk, [disk EXCEPT ![Witness] = q]}
  BY DEF AnswerVote, WitnessSave, WitnessSaveFails
<1> HIDE DEF q
<1>4. \A m \in Node : /\ p'[m] = p[m] /\ disk'[m] = disk[m] /\ p[m].count \in Nat
  BY <1>1, <1>3 DEF TypeOK, Persisted
<1>5. request[n] \in Letter /\ response \in [Node -> Letter] BY DEF TypeOK
<1>6. ASSUME NEW m \in Node, VotedGrant(m), response'[m].term # 0, ~response'[m].probe
      PROVE  <<response'[m].term, m>> \in ledger'
  <2>1. CASE response'[m] = response[m] BY <1>3, <1>6, <2>1 DEF VotedGrant
  <2>2. CASE response'[m] # response[m]
    <3>1. /\ m = n /\ response'[m] = [request[n] EXCEPT !.late = FALSE]
          /\ request[n].probe \/ <<request[n].term, n>> \in ledger'
      BY <1>2, <1>5, <2>2 DEF Respond
    <3>2. response'[m].term = request[n].term /\ response'[m].probe = request[n].probe
      BY <1>5, <3>1 DEF Letter
    <3> QED BY <1>6, <3>1, <3>2
  <2> QED BY <2>1, <2>2
<1>7. ASSUME NEW m \in Node, VotedGrant(m) PROVE VotedGrant(m)' /\ VotedTaking(m)
  <2>1. VotedTaking(m) BY <1>4 DEF VotedTaking, VotedFrom
  <2>2. VotedFrom(m, p[m], disk[m])' BY <1>3, <1>4, <1>7 DEF VotedGrant, VotedFrom
  <2> QED BY <1>3, <1>6, <1>7, <2>1, <2>2 DEF VotedGrant
<1> QED BY <1>7, EachGrant

\* The answer at the node: what becomes its grant was an answer in the ledger.
LEMMA ReceiveVoteGrants ==
  ASSUME TypeOK, GrantsVoted, NEW n \in Node, ReceiveVote(n)
  PROVE  GrantsVoted' /\ TakenVoted
<1>1. /\ UNCHANGED <<p, disk, ledger>>
      /\ response[n].term # 0 /\ response' = [response EXCEPT ![n] = NoLetter]
      /\ \/ granted' = granted
         \/ ~response[n].probe /\ granted' = [granted EXCEPT ![n] = response[n].term]
  BY DEF ReceiveVote, nodeVars
<1>2. /\ DOMAIN response = Node /\ DOMAIN granted = Node
      /\ \A m \in Node : p[m].count \in Nat
  BY Identities DEF TypeOK, Persisted
<1>3. ASSUME NEW m \in Node, VotedGrant(m) PROVE VotedGrant(m)' /\ VotedTaking(m)
  <2>1. response'[m] = response[m] \/ response'[m].term = 0
    BY <1>1, <1>2 DEF NoLetter
  <2>2. \/ granted'[m] = granted[m]
        \/ m = n /\ ~response[n].probe /\ granted'[m] = response[n].term
    BY <1>1, <1>2
  <2>3. granted'[m] # 0 => <<granted'[m], m>> \in ledger
    BY <1>1, <1>3, <2>2 DEF VotedGrant
  <2>4. response'[m].term # 0 /\ ~response'[m].probe => <<response'[m].term, m>> \in ledger
    BY <1>3, <2>1 DEF VotedGrant
  <2>5. VotedTaking(m) BY <1>1, <1>2 DEF VotedTaking, VotedFrom
  <2>6. VotedFrom(m, p[m], disk[m])' BY <1>1, <1>3 DEF VotedGrant, VotedFrom
  <2> QED BY <1>1, <2>3, <2>4, <2>5, <2>6 DEF VotedGrant
<1> QED BY <1>3, EachGrant

\* Crashes, the new day, the time.
LEMMA OtherGrants ==
  ASSUME TypeOK, GrantsVoted,
         \/ \E x \in Proc : Crash(x)
         \/ NewDay \/ TickPasses
  PROVE  GrantsVoted' /\ TakenVoted
<1>1. /\ Node \subseteq Proc /\ p \in [Proc -> Persisted] /\ disk \in [Proc -> Persisted]
      /\ response \in [Node -> Letter] /\ granted \in [Node -> Nat]
      /\ \A n \in Node : p[n].count \in Nat /\ disk[n].count \in Nat
  BY Identities DEF TypeOK, Persisted
<1>2. UNCHANGED ledger BY DEF Crash, NewDay, TickPasses, voteVars
<1>3. ASSUME NEW m \in Node, VotedGrant(m),
             granted'[m] \in {granted[m], 0},
             \/ response'[m].term = 0
             \/ response'[m].term = response[m].term /\ response'[m].probe = response[m].probe,
             \/ p'[m] = p[m] /\ disk'[m] = disk[m]
             \/ p'[m] = disk[m] /\ disk'[m] = disk[m]
             \/ p'[m].count = 0 /\ disk'[m].count = 0
      PROVE  VotedGrant(m)' /\ VotedTaking(m)
  <2>1. /\ granted'[m] # 0 => <<granted'[m], m>> \in ledger'
        /\ response'[m].term # 0 /\ ~response'[m].probe => <<response'[m].term, m>> \in ledger'
    BY <1>2, <1>3 DEF VotedGrant
  <2>2. VotedFrom(m, p[m], disk[m]) BY <1>3 DEF VotedGrant
  <2>3. p[m].count \in Nat /\ disk[m].count \in Nat BY <1>1
  <2>4. VotedTaking(m) BY <1>3, <2>2, <2>3 DEF VotedTaking, VotedFrom
  <2>5. VotedFrom(m, p[m], disk[m])' BY <1>2, <1>3, <2>2, <2>3 DEF VotedFrom
  <2> QED BY <2>1, <2>4, <2>5 DEF VotedGrant
<1>4. ASSUME NEW x \in Proc, Crash(x), NEW m \in Node, VotedGrant(m)
      PROVE  VotedGrant(m)' /\ VotedTaking(m)
  <2>1. p' = [p EXCEPT ![x] = disk[x]] /\ disk' = disk BY <1>4 DEF Crash
  <2>2. \/ UNCHANGED <<granted, response>>
        \/ /\ response' = [response EXCEPT ![x] = NoLetter]
           /\ granted' = [granted EXCEPT ![x] = 0]
    BY <1>4 DEF Crash, voteVars
  <2>3. response'[m].term = 0 \/ response'[m] = response[m] BY <1>1, <2>2 DEF NoLetter
  <2>4. granted'[m] \in {granted[m], 0} /\ p'[m] \in {p[m], disk[m]} BY <1>1, <2>1, <2>2
  <2> QED BY <1>3, <1>4, <2>1, <2>3, <2>4
<1>5. ASSUME NewDay, NEW m \in Node, VotedGrant(m) PROVE VotedGrant(m)' /\ VotedTaking(m)
  <2>1. /\ p' = [x \in Proc |-> [p[x] EXCEPT !.count = 0]]
        /\ disk' = [x \in Proc |-> [disk[x] EXCEPT !.count = 0]]
        /\ UNCHANGED <<granted, response>>
    BY <1>5 DEF NewDay, voteVars
  <2>2. \A q \in Persisted : [q EXCEPT !.count = 0].count = 0 BY DEF Persisted
  <2>3. p'[m].count = 0 /\ disk'[m].count = 0 BY <1>1, <2>1, <2>2
  <2> QED BY <1>3, <1>5, <2>1, <2>3
<1>6. ASSUME TickPasses, NEW m \in Node, VotedGrant(m) PROVE VotedGrant(m)' /\ VotedTaking(m)
  <2>1. UNCHANGED <<p, disk, granted>> /\ response' = [n \in Node |-> Delayed(response[n])]
    BY <1>6 DEF TickPasses
  <2>2. \A l \in Letter : \/ Delayed(l).term = 0
                          \/ Delayed(l).term = l.term /\ Delayed(l).probe = l.probe
    BY DEF Delayed, Letter, NoLetter
  <2>3. \/ response'[m].term = 0
        \/ response'[m].term = response[m].term /\ response'[m].probe = response[m].probe
    BY <1>1, <2>1, <2>2
  <2> QED BY <1>3, <1>6, <2>1, <2>3
<1> QED BY <1>4, <1>5, <1>6, EachGrant

\* Every step keeps the grants in the ledger and counts only takeovers of them.
LEMMA GrantStep ==
  ASSUME TypeOK, GrantsVoted, [Next]_vars
  PROVE  GrantsVoted' /\ TakenVoted
<1> USE DEF nodeVars, netVars, voteVars, swapVars
<1>1. ASSUME NEW n \in Node, NodeTick(n) PROVE GrantsVoted' /\ TakenVoted
  BY <1>1, NodeTickGrants
<1>2. ASSUME NEW n \in Node, AnswerVote(n) PROVE GrantsVoted' /\ TakenVoted
  BY <1>2, AnswerVoteGrants
<1>3. CASE (\E x \in Proc : Crash(x)) \/ NewDay \/ TickPasses
  BY <1>3, OtherGrants
<1>4. /\ Node \subseteq Proc /\ DOMAIN p = Proc /\ DOMAIN disk = Proc
      /\ Trio => Witness \in Proc
  BY Identities DEF TypeOK
<1>5. CASE WitnessTick
  <2>1. Witness \notin Node BY Identities
  <2>2. PICK q : WitnessSave(q) \/ WitnessSaveFails(q) BY <1>5 DEF WitnessTick
  <2>3. \A m \in Node : p'[m] = p[m] /\ disk'[m] = disk[m]
    BY <1>4, <2>1, <2>2 DEF WitnessSave, WitnessSaveFails
  <2>4. UNCHANGED <<ledger, granted, response>> BY <1>5 DEF WitnessTick
  <2> QED BY <2>3, <2>4, SameGrants
<1>6. ASSUME NEW n \in Node, NEW on \in BOOLEAN,
             SetMaintenance(n, on) \/ (on = TRUE /\ DemoteFails(n))
      PROVE  GrantsVoted' /\ TakenVoted
  <2> DEFINE q == SetMaint(p[n], on)
  <2>1. /\ p[n] \in Persisted /\ q.count = p[n].count /\ q.term = p[n].term
        /\ \A m \in Node : p[m].count \in Nat
    BY <1>4, SameCount DEF TypeOK, Persisted, SetMaint
  <2>2. /\ \/ p' = [p EXCEPT ![n] = q] /\ disk' = [disk EXCEPT ![n] = q]
           \/ UNCHANGED p /\ disk' \in {disk, [disk EXCEPT ![n] = q]}
        /\ UNCHANGED <<ledger, granted, response>>
    BY <1>6 DEF SetMaintenance, DemoteFails
  <2> HIDE DEF q
  <2>3. \A m \in Node : /\ p'[m].count = p[m].count /\ p'[m].term = p[m].term
                        /\ disk'[m] = disk[m] \/ disk'[m].count = p'[m].count
    BY <1>4, <2>1, <2>2
  <2> QED BY <2>2, <2>3, SameGrants
<1>7. ASSUME \/ \E n \in Node :
                  \/ DeliverHandover(n) \/ SetAutoMode(n) \/ DemoteSucceeds(n)
                  \/ \E cmd \in Commands : GiveCommand(n, cmd)
             \/ \E x \in Proc : Restart(x)
             \/ \E S \in Breakdowns : Breaks(S) \/ Heals(S)
             \/ UNCHANGED vars
      PROVE  GrantsVoted' /\ TakenVoted
  <2>1. UNCHANGED <<p, disk, ledger, granted, response>>
    BY <1>7 DEF DeliverHandover, SetAutoMode, DemoteSucceeds, GiveCommand, Restart,
                Breaks, Heals, vars
  <2> QED BY <2>1, SameGrants
<1>8. ASSUME NEW n \in Node, ReceiveVote(n) PROVE GrantsVoted' /\ TakenVoted
  BY <1>8, ReceiveVoteGrants
<1> QED BY <1>1, <1>2, <1>3, <1>5, <1>6, <1>7, <1>8 DEF Next

LEMMA GrantsHold == Spec => []GrantsVoted
<1>1. Init => GrantsVoted
  <2>1. NoLetter.term = 0 BY DEF NoLetter
  <2>2. ASSUME Init, NEW n \in Node
        PROVE  granted[n] = 0 /\ response[n].term = 0 /\ disk[n] = p[n]
    BY <2>1, <2>2 DEF Init
  <2>3. Init => \A n \in Node : p[n].count \in Nat BY InitTypes, Identities DEF TypeOK, Persisted
  <2> QED BY <2>2, <2>3 DEF GrantsVoted, VotedGrant, VotedFrom
<1>2. TypeOK /\ GrantsVoted /\ [Next]_vars => GrantsVoted' BY GrantStep
<1> QED BY <1>1, <1>2, TypesHold, PTL DEF Spec

\* With a witness a server that takes over by itself has the saved vote for the
\* term it takes, also if the takeover was only in its file when it crashed.
THEOREM TakeoversHaveVotes == Spec => TakeoverIsVoted
<1>1. TypeOK /\ GrantsVoted /\ [Next]_vars
        => [Trio => \A n \in Node : p'[n].count > p[n].count => <<p'[n].term, n>> \in ledger]_vars
  BY GrantStep DEF TakenVoted, VotedTaking, VotedFrom
<1> QED BY <1>1, TypesHold, GrantsHold, PTL DEF Spec, TakeoverIsVoted

-----------------------------------------------------------------------------
(* A term has one owner, as long as no operator moves the roles            *)

\* The operator orders neither a swap nor a takeover by force.
RolesLeftAlone == Commands \cap {"swap", "force_takeover"} = {}

\* An active node claims its term, and so does a fenced one: it may come back.
Claims(r) == r.role \in {Active, Fenced}

\* From state q to r node n claims no other term than before, or a newer one
\* whose vote it was granted.
Upholds(n, q, r) ==
  Claims(r) => \/ Claims(q) /\ r.term = q.term
               \/ r.term \in Nat /\ r.term = granted[n] /\ r.term > q.term

\* A step of node n saves a state with such a claim, and no handover.
Holds(n, q) ==
  \E r, s : \E c \in Carry :
    /\ Save(n, r, c, s) /\ Upholds(n, q, r)
    /\ c.handover = 0 /\ s.give = 0

LEMMA HoldsIntro ==
  ASSUME NEW n, NEW q, NEW r, NEW c \in Carry, NEW s, Save(n, r, c, s), Upholds(n, q, r),
         c.handover = 0, s.give = 0
  PROVE  Holds(n, q)
  BY DEF Holds

\* A state in between may have a newer term if it claims none.
LEMMA HoldsTrans ==
  ASSUME NEW n, NEW q \in Persisted, NEW r \in Persisted, Holds(n, r), r.term >= q.term,
         Claims(r) => Claims(q) /\ r.term = q.term
  PROVE  Holds(n, q)
<1>1. q.term \in Nat /\ r.term \in Nat BY DEF Persisted
<1>2. \A u : Upholds(n, r, u) => Upholds(n, q, u) BY <1>1 DEF Upholds
<1> QED BY <1>2 DEF Holds

\* What a step hands to the next one names no handover if there was none.
LEMMA NoneHanded ==
  ASSUME NEW c \in Carry, c.handover = 0
  PROVE  /\ ClearVote(c).handover = 0
         /\ ClearHandover(c).handover = 0
         /\ \A h : [c EXCEPT !.hold = h].handover = 0
         /\ \A h : [c EXCEPT !.mutualAge = h].handover = 0
         /\ \A v, a : [c EXCEPT !.vote = v, !.askedAge = a].handover = 0
         /\ \A q : Tidy(q, c).handover = 0
         /\ Aged(c).handover = 0
<1>1. \A d \in Carry : ClearHandover(d).handover = 0 BY DEF Carry, ClearHandover
<1>2. [c EXCEPT !.hold = 0] \in Carry /\ [c EXCEPT !.hold = 0].handover = 0 BY DEF Carry
<1>3. \A q : Tidy(q, c).handover = 0 BY <1>1, <1>2 DEF Tidy
<1>4. /\ ClearVote(c).handover = 0 /\ Aged(c).handover = 0
      /\ \A h : [c EXCEPT !.hold = h].handover = 0
      /\ \A h : [c EXCEPT !.mutualAge = h].handover = 0
      /\ \A v, a : [c EXCEPT !.vote = v, !.askedAge = a].handover = 0
  BY DEF Carry, ClearVote, Aged
<1> QED BY <1>1, <1>3, <1>4

LEMMA StayHolds ==
  ASSUME NEW n, NEW q, NEW r, NEW c \in Carry, Stay(n, r, c), c.handover = 0,
         r.role = q.role, r.term = q.term
  PROVE  Holds(n, q)
<1>1. Nothing.give = 0 BY DEF Nothing
<1>2. Upholds(n, q, r) BY DEF Upholds, Claims
<1> QED BY <1>1, <1>2, HoldsIntro DEF Stay

LEMMA BecomeHolds ==
  ASSUME NEW n, NEW q \in Persisted, NEW role, NEW c \in Carry, Become(n, q, role, c),
         c.handover = 0, role \in {Active, Fenced} => Claims(q)
  PROVE  Holds(n, q)
<1> DEFINE r == [q EXCEPT !.role = role]
<1>1. r.role = role /\ r.term = q.term BY SameClaim
<1>2. Save(n, r, c, Nothing) /\ Nothing.give = 0 BY DEF Become, Nothing
<1> HIDE DEF r
<1>3. Upholds(n, q, r) BY <1>1 DEF Upholds, Claims
<1> QED BY <1>2, <1>3, HoldsIntro

LEMMA AutomaticHolds ==
  ASSUME Trio, NEW n \in Node, NEW in, NEW q \in Persisted, NEW c \in Carry,
         c.handover = 0, Automatic(n, in, q, c)
  PROVE  Holds(n, q)
<1>1. Braked(q, in).role = q.role /\ Braked(q, in).term = q.term BY SameClaim
<1>2. c.vote \in Nat /\ q.term \in Nat BY DEF Carry, Persisted
<1>3. CASE TrioWon(n, in, q, c)
  <2>1. \/ real[n] /\ Save(n, Promoted(q, c.vote, TRUE), ClearVote(c), Nothing)
        \/ Stay(n, Braked(q, in), c) \/ Stay(n, q, c)
    BY <1>3 DEF TrioWon
  <2>2. CASE real[n] /\ Save(n, Promoted(q, c.vote, TRUE), ClearVote(c), Nothing)
    <3>1. c.vote > q.term /\ c.vote = granted[n] BY <1>3, <2>2 DEF TrioWon, Elected
    <3> DEFINE r == Promoted(q, c.vote, TRUE)
    <3>2. r.term = c.vote BY SameCount
    <3>3. Save(n, r, ClearVote(c), Nothing) BY <2>2
    <3> HIDE DEF r
    <3>4. Upholds(n, q, r) BY <1>2, <3>1, <3>2 DEF Upholds
    <3>5. /\ ClearVote(c) \in Carry /\ ClearVote(c).handover = 0 /\ Nothing.give = 0
      BY CarryTypes, NoneHanded DEF Nothing
    <3> QED BY <3>3, <3>4, <3>5, HoldsIntro
  <2> QED BY <1>1, <2>1, <2>2, StayHolds
<1>4. CASE TrioAsk(n, in, q, c)
  <2> DEFINE vote == IF c.vote <= q.term THEN q.term + 1 ELSE c.vote
  <2>1. \/ Save(n, q, [c EXCEPT !.vote = vote, !.askedAge = 0], [Nothing EXCEPT !.ask = vote])
        \/ Stay(n, Braked(q, in), c) \/ Stay(n, q, c)
    BY <1>4 DEF TrioAsk
  <2>4. vote \in Nat BY <1>2
  <2> HIDE DEF vote
  <2>5. [c EXCEPT !.vote = vote, !.askedAge = 0] \in Carry BY <2>4 DEF Carry
  <2>2. \A v : /\ [c EXCEPT !.vote = v, !.askedAge = 0].handover = 0
               /\ [Nothing EXCEPT !.ask = v].give = 0
    BY NoneHanded DEF Nothing
  <2>3. Upholds(n, q, q) BY DEF Upholds
  <2> QED BY <1>1, <2>1, <2>2, <2>3, <2>5, HoldsIntro, StayHolds
<1> QED BY <1>3, <1>4 DEF Automatic

LEMMA RoleTickHolds ==
  ASSUME Trio, NEW n \in Node, NEW in, NEW q \in Persisted, NEW c \in Carry,
         c.handover = 0, handIn[n] = 0, RoleTick(n, in, q, c)
  PROVE  Holds(n, q)
<1>1. SetMaint(q, TRUE).role = q.role /\ SetMaint(q, TRUE).term = q.term BY SameClaim
<1>2. Passive \notin {Active, Fenced} BY DEF Passive, Active, Fenced
<1>3. CASE RejoinTick(n, q, c) BY <1>2, <1>3, BecomeHolds DEF RejoinTick
<1>4. CASE ActiveTick(n, in, q, c)
  <2>1. Claims(q) BY <1>4 DEF ActiveTick, Claims
  <2>2. Stay(n, q, c) \/ Stay(n, SetMaint(q, TRUE), c) \/ Become(n, q, Fenced, c)
    BY <1>4 DEF ActiveTick
  <2> QED BY <1>1, <2>1, <2>2, StayHolds, BecomeHolds
<1>5. CASE FencedTick(n, in, q, c)
  <2>1. Claims(q) BY <1>5 DEF FencedTick, Claims
  <2> QED BY <1>5, <2>1, StayHolds, BecomeHolds DEF FencedTick
<1>6. CASE PassiveTick(n, in, q, c)
  <2>1. Automatic(n, in, q, c) BY <1>6 DEF PassiveTick, ReceiveHandover, ReceivingHandover
  <2> QED BY <2>1, AutomaticHolds
<1> QED BY <1>3, <1>4, <1>5, <1>6 DEF RoleTick

\* Without a command and a handover a node claims, whatever it decides, no term
\* but its own or one it was granted.
LEMMA DecideHolds ==
  ASSUME Trio, NEW n \in Node, NEW in \in Inputs, NEW q \in Persisted, NEW c \in Carry,
         c.handover = 0, handIn[n] = 0, command[n] = "none", Decide(n, in, q, c)
  PROVE  Holds(n, q)
<1> DEFINE t == AdoptedTerm(n, in, q, c)
           q1 == [q EXCEPT !.term = t]
           c1 == IF t > q.term /\ c.vote <= t THEN ClearVote(c) ELSE c
<1>1. c1 \in Carry /\ c1.handover = 0 BY CarryTypes, NoneHanded
<1>2. q.term \in Nat /\ t \in Nat /\ t >= q.term
  <2>1. /\ q.term \in Nat /\ in.pa.hb.term \in Nat /\ in.w.hb.term \in Nat
    BY DEF Persisted, Inputs, Obs, Beat
  <2> DEFINE top == Larger(q.term, Larger(in.pa.hb.term, in.w.hb.term))
  <2>2. top \in Nat /\ top >= q.term BY <2>1, LargerNat
  <2>3. t \in {top, Larger(q.term, top - 1)} BY DEF AdoptedTerm
  <2> HIDE DEF top
  <2> QED BY <2>1, <2>2, <2>3 DEF Larger
<1>3. \/ Superseded(n, q, c1, t)
      \/ /\ ~(t > q.term /\ q.role \in {Active, Fenced})
         /\ Boot(n, in, q1, c1) \/ RoleTick(n, in, q1, c1)
  BY DEF Decide, ForceTakeover, Forcing, Swap, Swapping
<1> HIDE DEF t, c1
<1>4. q1 \in Persisted /\ q1.role = q.role /\ q1.term = t
  BY <1>2 DEF Persisted
<1> HIDE DEF q1
<1>5. CASE Superseded(n, q, c1, t)
  <2>1. Become(n, q1, Rejoin, c1) BY <1>5 DEF Superseded, q1
  <2>2. Rejoin \notin {Active, Fenced} BY DEF Rejoin, Active, Fenced
  <2> DEFINE r == [q1 EXCEPT !.role = Rejoin]
  <2>3. r.role = Rejoin /\ Save(n, r, c1, Nothing) /\ Nothing.give = 0
    BY <1>4, <2>1, SameClaim DEF Become, Nothing
  <2> HIDE DEF r
  <2>4. Upholds(n, q, r) BY <2>2, <2>3 DEF Upholds, Claims
  <2> QED BY <1>1, <2>3, <2>4, HoldsIntro
<1>6. CASE /\ ~(t > q.term /\ q.role \in {Active, Fenced})
           /\ Boot(n, in, q1, c1) \/ RoleTick(n, in, q1, c1)
  <2>1. Claims(q1) => Claims(q) /\ q1.term = q.term
    BY <1>2, <1>4, <1>6 DEF Claims
  <2>2. ASSUME Boot(n, in, q1, c1) PROVE Holds(n, q1)
    <3> DEFINE d == [c1 EXCEPT !.hold = Takeover]
    <3>1. /\ Stay(n, q1, c1) \/ Become(n, q1, Active, c1) \/ Become(n, q1, Fenced, d)
          /\ Claims(q1)
      BY <2>2 DEF Boot, Booting, Claims
    <3>2. d.handover = 0 BY <1>1, NoneHanded
    <3>3. d \in Carry BY <1>1, ConstantsAssumption DEF Carry, ConstantsAssumption
    <3> HIDE DEF d
    <3> QED BY <1>1, <1>4, <3>1, <3>2, <3>3, StayHolds, BecomeHolds
  <2>3. Holds(n, q1) BY <1>1, <1>4, <1>6, <2>2, RoleTickHolds
  <2> QED BY <1>2, <1>4, <2>1, <2>3, HoldsTrans
<1> QED BY <1>3, <1>5, <1>6

\* Nothing was ever handed over or ordered.
NoHandover ==
  \A n \in Node : /\ command[n] = "none" /\ carry[n].handover = 0
                  /\ offer[n].term = 0 /\ handIn[n] = 0

\* The first term belongs to the node a that began it, a later one to the node
\* that has its vote.
Rightful(n, a, r) ==
  Claims(r) => IF r.term = 1 THEN n = a ELSE <<r.term, n>> \in ledger

\* What is in memory and in the files claims rightfully.
RightfulOwners ==
  \E a \in Node : \A n \in Node : Rightful(n, a, p[n]) /\ Rightful(n, a, disk[n])

\* The terms count from one.
Started == \A n \in Node : p[n].term >= 1

\* The tick of a node: a new claim has its vote.
LEMMA NodeTickOwns ==
  ASSUME TypeOK, GrantsVoted, NoHandover, RightfulOwners, Started, Trio,
         NEW n \in Node, NodeTick(n)
  PROVE  NoHandover' /\ RightfulOwners'
<1>1. PICK r, s : \E c \in Carry : /\ Save(n, r, c, s) /\ Upholds(n, p[n], r)
                                 /\ c.handover = 0 /\ s.give = 0
  <2>1. PICK in \in Inputs, m \in Persisted, d \in Carry :
          /\ Decide(n, in, m, d)
          /\ m.term = p[n].term /\ d.handover = carry[n].handover
          /\ m.role \in {Active, Fenced} => p[n].role \in {Active, Fenced}
    BY NodeTickDecides
  <2>2. d.handover = 0 /\ handIn[n] = 0 /\ command[n] = "none"
    BY <2>1 DEF NoHandover
  <2>3. Holds(n, m) BY <2>1, <2>2, DecideHolds
  <2>4. p[n] \in Persisted BY Identities DEF TypeOK
  <2>6. m.term \in Nat /\ m.term >= p[n].term BY <2>1, <2>4 DEF Persisted
  <2>5. Holds(n, p[n]) BY <2>1, <2>3, <2>4, <2>6, HoldsTrans DEF Claims
  <2> QED BY <2>5 DEF Holds
<1>2. PICK c \in Carry : Save(n, r, c, s) /\ c.handover = 0 BY <1>1
<1>3. \/ p' = [p EXCEPT ![n] = r] /\ disk' = [disk EXCEPT ![n] = r]
      \/ UNCHANGED p /\ disk' \in {disk, [disk EXCEPT ![n] = r]}
  BY <1>2 DEF Save, SaveDone, SaveFails
<1>4. /\ Node \subseteq Proc /\ DOMAIN p = Proc /\ DOMAIN disk = Proc
      /\ UNCHANGED ledger
  BY Identities DEF TypeOK, NodeTick
<1>5. NoHandover'
  <2>1. Tidy(r, c).handover = 0 BY <1>2, NoneHanded
  <2>2. CASE SaveDone(n, r, c, s)
    BY <1>1, <2>1, <2>2 DEF SaveDone, NoHandover, TypeOK
  <2>3. CASE SaveFails(n, r) BY <2>3 DEF SaveFails, NoHandover
  <2> QED BY <1>2, <2>2, <2>3 DEF Save
<1>6. RightfulOwners'
  <2>1. PICK a \in Node : \A m \in Node : Rightful(m, a, p[m]) /\ Rightful(m, a, disk[m])
    BY DEF RightfulOwners
  <2>2. p[n].term \in Nat /\ p[n].term >= 1 BY <1>4 DEF TypeOK, Persisted, Started
  <2>3. Rightful(n, a, r)
    <3>1. CASE Claims(p[n]) /\ r.term = p[n].term BY <2>1, <3>1 DEF Rightful
    <3>2. CASE r.term \in Nat /\ r.term = granted[n] /\ r.term > p[n].term
      <4>1. r.term # 0 /\ r.term # 1 BY <2>2, <3>2
      <4>2. <<r.term, n>> \in ledger BY <3>2, <4>1 DEF GrantsVoted, VotedGrant
      <4> QED BY <4>1, <4>2 DEF Rightful
    <3> QED BY <1>1, <3>1, <3>2 DEF Upholds, Rightful
  <2>4. ASSUME NEW m \in Node PROVE Rightful(m, a, p'[m]) /\ Rightful(m, a, disk'[m])
    <3>1. \/ p'[m] = p[m] /\ disk'[m] = disk[m]
          \/ m = n /\ p'[m] \in {p[m], r} /\ disk'[m] \in {disk[m], r}
      BY <1>3, <1>4
    <3> QED BY <2>1, <2>3, <3>1
  <2> QED BY <1>4, <2>4 DEF RightfulOwners, Rightful
<1> QED BY <1>5, <1>6

\* Every other step changes no claim, or goes back to that of the file.
LEMMA SameOwners ==
  ASSUME RightfulOwners, ledger \subseteq ledger',
         \A n \in Node :
           /\ \E r \in {p[n], disk[n]} : p'[n].role = r.role /\ p'[n].term = r.term
           /\ \E r \in {p[n], disk[n]} : disk'[n].role = r.role /\ disk'[n].term = r.term
  PROVE  RightfulOwners'
<1>1. PICK a \in Node : \A m \in Node : Rightful(m, a, p[m]) /\ Rightful(m, a, disk[m])
  BY DEF RightfulOwners
<1>2. ASSUME NEW m \in Node PROVE Rightful(m, a, p[m])' /\ Rightful(m, a, disk[m])'
  <2>1. \A r \in {p[m], disk[m]} : Rightful(m, a, r) BY <1>1
  <2> QED BY <2>1 DEF Rightful, Claims
<1> QED BY <1>2 DEF RightfulOwners

\* Every step leaves each term with its owner.
LEMMA OwnersStep ==
  ASSUME TypeOK, GrantsVoted, NoHandover, RightfulOwners, Started, Trio, RolesLeftAlone,
         [Next]_vars
  PROVE  NoHandover' /\ RightfulOwners'
<1> USE DEF nodeVars, netVars, voteVars, swapVars
<1>1. /\ Node \subseteq Proc /\ DOMAIN p = Proc /\ DOMAIN disk = Proc
      /\ Witness \in Proc /\ Witness \notin Node
      /\ \A n \in Node : p[n] \in Persisted /\ disk[n] \in Persisted /\ carry[n] \in Carry
  BY Identities DEF TypeOK
<1>2. ASSUME NEW n \in Node, NodeTick(n) PROVE NoHandover' /\ RightfulOwners'
  BY <1>2, NodeTickOwns
<1>3. CASE WitnessTick \/ \E n \in Node : AnswerVote(n)
  <2>1. PICK q : WitnessSave(q) \/ WitnessSaveFails(q) \/ UNCHANGED <<p, disk>>
    BY <1>3 DEF WitnessTick, AnswerVote
  <2>2. \A m \in Node : p'[m] = p[m] /\ disk'[m] = disk[m]
    BY <1>1, <2>1 DEF WitnessSave, WitnessSaveFails
  <2>3. /\ ledger \subseteq ledger' /\ UNCHANGED <<command, carry, offer, handIn>>
    BY <1>3 DEF WitnessTick, AnswerVote
  <2> QED BY <2>2, <2>3, SameOwners DEF NoHandover
<1>4. ASSUME NEW n \in Node, NEW on \in BOOLEAN,
             SetMaintenance(n, on) \/ (on = TRUE /\ DemoteFails(n))
      PROVE  NoHandover' /\ RightfulOwners'
  <2> DEFINE q == SetMaint(p[n], on)
  <2>1. q.role = p[n].role /\ q.term = p[n].term BY <1>1, SameClaim
  <2>2. /\ p' \in {p, [p EXCEPT ![n] = q]} /\ disk' \in {disk, [disk EXCEPT ![n] = q]}
        /\ UNCHANGED <<ledger, command, carry, offer, handIn>>
    BY <1>4 DEF SetMaintenance, DemoteFails
  <2> HIDE DEF q
  <2>3. \A m \in Node : /\ p'[m] = p[m] \/ (m = n /\ p'[m] = q)
                        /\ disk'[m] = disk[m] \/ (m = n /\ disk'[m] = q)
    BY <1>1, <2>2
  <2> QED BY <2>1, <2>2, <2>3, SameOwners DEF NoHandover
<1>5. ASSUME NEW x \in Proc, Crash(x) PROVE NoHandover' /\ RightfulOwners'
  <2>1. p' = [p EXCEPT ![x] = disk[x]] /\ disk' = disk /\ UNCHANGED ledger
    BY <1>5 DEF Crash
  <2>2. \A m \in Node : p'[m] \in {p[m], disk[m]} BY <1>1, <2>1
  <2>3. NoHandover'
    <3>1. NoCarry.handover = 0 /\ NoLetter.term = 0 BY DEF NoCarry, NoLetter
    <3>2. \/ UNCHANGED <<command, carry, offer, handIn>>
          \/ /\ carry' = [carry EXCEPT ![x] = NoCarry]
             /\ command' = [command EXCEPT ![x] = "none"]
             /\ offer' = [offer EXCEPT ![x] = NoLetter]
             /\ handIn' = [handIn EXCEPT ![x] = 0]
      BY <1>5 DEF Crash
    <3>3. /\ DOMAIN carry = Node /\ DOMAIN command = Node /\ DOMAIN offer = Node
          /\ DOMAIN handIn = Node
      BY DEF TypeOK
    <3>4. ASSUME NEW m \in Node
          PROVE  /\ command'[m] \in {command[m], "none"} /\ carry'[m] \in {carry[m], NoCarry}
                 /\ offer'[m] \in {offer[m], NoLetter} /\ handIn'[m] \in {handIn[m], 0}
      BY <3>2, <3>3
    <3> QED BY <3>1, <3>4 DEF NoHandover
  <2> QED BY <2>1, <2>2, <2>3, SameOwners
<1>6. CASE NewDay
  <2>1. /\ p' = [x \in Proc |-> [p[x] EXCEPT !.count = 0]]
        /\ disk' = [x \in Proc |-> [disk[x] EXCEPT !.count = 0]]
        /\ UNCHANGED <<ledger, command, carry, offer, handIn>>
    BY <1>6 DEF NewDay
  <2>2. \A q \in Persisted : /\ [q EXCEPT !.count = 0].role = q.role
                             /\ [q EXCEPT !.count = 0].term = q.term
    BY DEF Persisted
  <2> QED BY <1>1, <2>1, <2>2, SameOwners DEF NoHandover
<1>7. CASE TickPasses
  <2>1. /\ carry' = [n \in Node |-> IF up[n] THEN Aged(carry[n]) ELSE carry[n]]
        /\ offer' = [n \in Node |-> Delayed(offer[n])]
        /\ UNCHANGED <<p, disk, ledger, command, handIn>>
    BY <1>7 DEF TickPasses
  <2>2. \A l \in Letter : l.term = 0 => Delayed(l).term = 0
    BY DEF Delayed, Letter, NoLetter
  <2>3. \A n \in Node : /\ carry'[n].handover = 0 /\ offer'[n].term = 0
                        /\ command'[n] = "none" /\ handIn'[n] = 0
    BY <1>1, <2>1, <2>2, NoneHanded DEF NoHandover, TypeOK
  <2> QED BY <2>1, <2>3, SameOwners DEF NoHandover
<1>8. ASSUME \/ \E n \in Node : ReceiveVote(n) \/ SetAutoMode(n) \/ DemoteSucceeds(n)
             \/ \E x \in Proc : Restart(x)
             \/ \E S \in Breakdowns : Breaks(S) \/ Heals(S)
             \/ UNCHANGED vars
      PROVE  NoHandover' /\ RightfulOwners'
  <2>1. UNCHANGED <<p, disk, ledger, command, carry, offer, handIn>>
    BY <1>8 DEF ReceiveVote, SetAutoMode, DemoteSucceeds, Restart, Breaks, Heals, vars
  <2> QED BY <2>1, SameOwners DEF NoHandover
<1>9. ASSUME NEW n \in Node, DeliverHandover(n) PROVE FALSE
  BY <1>9 DEF DeliverHandover, NoHandover
<1>10. ASSUME NEW n \in Node, NEW cmd \in Commands, GiveCommand(n, cmd) PROVE FALSE
  BY <1>10 DEF GiveCommand, RolesLeftAlone
<1> QED BY <1>2, <1>3, <1>4, <1>5, <1>6, <1>7, <1>8, <1>9, <1>10 DEF Next

\* As long as no operator moves the roles by hand, each term has its rightful
\* owner.
LEMMA OwnersHold ==
  ASSUME Trio, RolesLeftAlone
  PROVE  Spec => [](NoHandover /\ RightfulOwners /\ Started)
<1>1. Init => NoHandover /\ RightfulOwners /\ Started
  <2> SUFFICES ASSUME Init PROVE NoHandover /\ RightfulOwners /\ Started OBVIOUS
  <2>1. NoHandover BY DEF Init, NoHandover, NoCarry, NoLetter
  <2>2. PICK a \in Node :
          p = [x \in Proc |-> StateFile(IF x = a THEN Active
                                       ELSE IF x = Witness THEN Zeuge ELSE Passive)]
    BY DEF Init
  <2>3. \A role : StateFile(role).role = role /\ StateFile(role).term = 1 BY DEF StateFile
  <2>4. disk = p /\ Node \subseteq Proc /\ Witness \notin Node BY Identities DEF Init
  <2>5. \A n \in Node : p[n].term = 1 BY <2>2, <2>3, <2>4
  <2>6. \A n \in Node : Claims(p[n]) => n = a
    BY <2>2, <2>3, <2>4 DEF Claims, Active, Fenced, Passive
  <2>7. RightfulOwners BY <2>4, <2>5, <2>6 DEF RightfulOwners, Rightful
  <2> QED BY <2>1, <2>5, <2>7 DEF Started
<1>2. TypeOK /\ SavedTerms /\ GrantsVoted /\ NoHandover /\ RightfulOwners /\ Started /\ [Next]_vars
        => NoHandover' /\ RightfulOwners' /\ Started'
  <2> SUFFICES ASSUME TypeOK, SavedTerms, GrantsVoted, NoHandover, RightfulOwners, Started,
                      [Next]_vars
               PROVE  NoHandover' /\ RightfulOwners' /\ Started'
    OBVIOUS
  <2>1. Node \subseteq Proc BY Identities
  <2>2. TypeOK' BY TypesStep
  <2>3. \A n \in Node : p[n].term \in Nat /\ p'[n].term \in Nat /\ p'[n].term >= p[n].term
    BY <2>1, <2>2, TermsGrow DEF TypeOK, Persisted, Grows
  <2>4. Started' BY <2>3 DEF Started
  <2> QED BY <2>4, OwnersStep
<1> QED
  BY <1>1, <1>2, TypesHold, SavedTermsHold, GrantsHold, PTL DEF Spec

\* Rightful owners of one term are one.
LEMMA OneOwner ==
  ASSUME TypeOK, OneVotePerTerm, RightfulOwners
  PROVE  OneOwnerPerTerm
<1> SUFFICES ASSUME NEW m \in Node, NEW n \in Node, Claims(p[m]), Claims(p[n]),
                    p[m].term = p[n].term
             PROVE  m = n
  BY DEF OneOwnerPerTerm, Claims
<1>1. PICK a \in Node : Rightful(m, a, p[m]) /\ Rightful(n, a, p[n])
  BY DEF RightfulOwners
<1>2. CASE p[m].term = 1 BY <1>1, <1>2 DEF Rightful
<1>3. CASE p[m].term # 1
  <2>1. <<p[m].term, m>> \in ledger /\ <<p[m].term, n>> \in ledger
    BY <1>1, <1>3 DEF Rightful
  <2>2. <<p[m].term, m>>[1] = <<p[m].term, n>>[1] OBVIOUS
  <2>3. <<p[m].term, m>> = <<p[m].term, n>> BY <2>1, <2>2 DEF OneVotePerTerm
  <2> QED BY <2>3
<1> QED BY <1>2, <1>3

\* With a witness, and as long as no operator moves the roles by hand, no two
\* servers are ever active, or fenced and able to come back, in one term: not
\* after crashes, lost saves, lost or late votes, or a new start on an old file.
\* (A swap broken off by a crash can give a term away twice.)
THEOREM TermsHaveOneOwner ==
  ASSUME Trio, RolesLeftAlone
  PROVE  Spec => []OneOwnerPerTerm
<1>1. Spec => [](NoHandover /\ RightfulOwners /\ Started) BY OwnersHold
<1>2. TypeOK /\ OneVotePerTerm /\ RightfulOwners => OneOwnerPerTerm BY OneOwner
<1> QED BY <1>1, <1>2, TypesHold, VotesHold, PTL

-----------------------------------------------------------------------------
(* With a witness the protocol implements Elections                        *)

\* The witness answers a vote: nothing else changes in the abstract state, and
\* the vote is newer than all before or was given before.
LEMMA AnswerImplements ==
  ASSUME TypeOK, VotesKnown, Trio, NEW n \in Node, AnswerVote(n)
  PROVE  Promise!Vote \/ UNCHANGED Promise!vars
<1> DEFINE t == request[n].term
<1>1. t \in Nat /\ Witness \notin Node /\ Node \subseteq Proc /\ DOMAIN p = Proc
  BY Identities DEF TypeOK, Letter
<1>2. PICK q : p' \in {p, [p EXCEPT ![Witness] = q]}
  BY DEF AnswerVote, WitnessSave, WitnessSaveFails
<1>3. \A m \in Node : p'[m] = p[m] BY <1>1, <1>2
<1>4. UNCHANGED <<[m \in Node |-> p[m].term], [m \in Node |-> p[m].count]>> BY <1>3
<1>5. \/ UNCHANGED ledger
      \/ Grants(n, t) /\ ledger' = ledger \cup {<<t, n>>}
  BY DEF AnswerVote
<1> HIDE DEF t
<1>6. CASE UNCHANGED ledger BY <1>4, <1>6 DEF Promise!vars
<1>7. CASE Grants(n, t) /\ ledger' = ledger \cup {<<t, n>>}
  <2>1. \A v \in ledger : v[1] < t \/ (v[1] = t /\ v[2] = n) BY <1>1, <1>7, NewVote
  <2>2. \A v \in ledger : v = <<v[1], v[2]>>
    <3>1. \A v \in Nat \X Node : v = <<v[1], v[2]>> OBVIOUS
    <3> QED BY <3>1 DEF TypeOK
  <2>3. CASE <<t, n>> \in ledger
    <3>1. UNCHANGED ledger BY <1>7, <2>3
    <3> QED BY <1>4, <3>1 DEF Promise!vars
  <2>4. CASE <<t, n>> \notin ledger
    <3>1. \A v \in ledger : v[1] < t BY <2>1, <2>2, <2>4
    <3>2. <<t, n>> \in ledger' /\ <<t, n>>[1] = t /\ <<t, n>>[2] = n BY <1>7
    <3> QED BY <1>4, <1>7, <3>1, <3>2 DEF Promise!Vote
  <2> QED BY <2>3, <2>4
<1> QED BY <1>5, <1>6, <1>7

\* Any other step leaves the votes alone; a server that counts a takeover has
\* its vote, and no term falls.
LEMMA StepImplements ==
  ASSUME TypeOK, SavedTerms, VotesKnown, GrantsVoted, Trio, [Next]_vars
  PROVE  [Promise!Next]_(Promise!vars)
<1>1. ASSUME NEW n \in Node, AnswerVote(n) PROVE [Promise!Next]_(Promise!vars)
  BY <1>1, AnswerImplements DEF Promise!Next
<1>2. ASSUME UNCHANGED ledger PROVE Promise!Next
  <2>1. SUFFICES ASSUME NEW n \in Node PROVE Promise!TakesOver(n) \/ Promise!GoesOn(n)
    BY <1>2 DEF Promise!Next
  <2>2. n \in Proc /\ p[n].count \in Nat /\ p'[n].term >= p[n].term
    BY Identities, TermsGrow DEF Grows, TypeOK, Persisted
  <2>3. p'[n].count \in Nat
    <3>1. TypeOK' BY TypesStep
    <3> QED BY <2>2, <3>1 DEF TypeOK, Persisted
  <2>4. VotedFrom(n, p[n], p'[n]) BY GrantStep DEF TakenVoted, VotedTaking
  <2>5. CASE p'[n].count <= p[n].count BY <2>2, <2>5 DEF Promise!GoesOn
  <2>6. CASE p'[n].count > p[n].count
    <3>1. /\ <<p'[n].term, n>> \in ledger /\ p'[n].term > p[n].term
          /\ p'[n].count = p[n].count + 1
      BY <2>4, <2>6 DEF VotedFrom
    <3>2. <<p'[n].term, n>>[1] = p'[n].term /\ <<p'[n].term, n>>[2] = n OBVIOUS
    <3> QED BY <3>1, <3>2 DEF Promise!TakesOver
  <2> QED BY <2>2, <2>3, <2>5, <2>6
<1>3. (\E n \in Node : AnswerVote(n)) \/ UNCHANGED ledger
  BY ZenonT(60)
     DEF Next, NodeTick, ReceiveVote, DeliverHandover, GiveCommand, SetMaintenance,
         SetAutoMode, DemoteSucceeds, DemoteFails, WitnessTick, Crash, Restart, Breaks,
         Heals, NewDay, TickPasses, vars, voteVars
<1> QED BY <1>1, <1>2, <1>3

\* Whatever is lost, delayed, repeated, crashes or fails to be saved: with a
\* witness the votes are given in rising terms and no takeover uses a vote of
\* another server, none at all, or one used before.
THEOREM ElectionsAreServed ==
  ASSUME Trio
  PROVE  Spec => ElectionsInOrder
<1>1. Init => Promise!Init
  <2>1. ASSUME Init
        PROVE  \A n \in Node : p[n].term \in Nat /\ p[n].count = 0
    <3>1. \A role : StateFile(role).count = 0 /\ StateFile(role).term = 1 BY DEF StateFile
    <3> QED BY <2>1, <3>1, Identities DEF Init
  <2> QED BY <2>1 DEF Init, Promise!Init
<1>2. TypeOK /\ SavedTerms /\ VotesKnown /\ GrantsVoted /\ [Next]_vars
        => [Promise!Next]_(Promise!vars)
  BY StepImplements
<1> QED
  BY <1>1, <1>2, TypesHold, SavedTermsHold, VotesKnownHolds, GrantsHold, PTL
  DEF Spec, ElectionsInOrder, Promise!Spec

-----------------------------------------------------------------------------
(* Two servers never run as the active one                                 *)

\* The protocol as it is set up: a witness, servers that act on their
\* decisions, no operator but for switching maintenance on.  The takeover time
\* covers the sight of both sides, the time to fence and two rounds of the
\* ticks.
Guarded ==
  /\ Trio /\ Commands \subseteq {"maint_on"} /\ Reals = {TRUE}
  /\ Takeover >= 2 * SeenTicks + FenceAfter + 2

\* Maintenance was never switched off: it is on as soon as it has a number.
Steady(q) == q.maint <=> q.seq > 0

\* Nothing a node hears has a higher term than t.
Hushed(in, t) == in.pa.hb.term <= t /\ in.w.hb.term <= t

\* What keeps an active node active: sight of another process, the time to
\* fence, an agreed maintenance, or a second active server.
Kept(n, in, q, c) ==
  \/ Mutual(n, in.pa) \/ Mutual(n, in.w)
  \/ /\ q.role = Active /\ ~booting[n]
     /\ c.mutualAge < FenceAfter \/ (q.seq > 0 /\ in.pa.hb.seq = q.seq) \/ TwoActives(in, q)

\* The partner was heard neither active nor fenced, or not at all for the
\* whole takeover time.
Gone(in) == (Seen(in.pa) /\ ~Claims(in.pa.hb)) \/ Absent(in.pa, Takeover)

\* A term is taken with its vote, in sight of the witness, outside maintenance.
Taken(n, in, q, r) ==
  /\ r.role = Active /\ r.term = granted[n] /\ r.term > q.term /\ q.seq = 0
  /\ Gone(in) /\ Mutual(n, in.w)

\* From q, with c at hand, node n comes to r, hands d on and sends s.
Outcome(n, in, q, c, r, d, s) ==
  /\ r \in Persisted /\ d \in Carry /\ s \in Sends
  /\ r.term >= q.term /\ r.seq >= q.seq /\ Steady(r)
  /\ d.mutualAge = c.mutualAge /\ d.handover = 0
  /\ s.give = 0 /\ s.demote = 0 /\ (s.ask # 0 => Absent(in.pa, Takeover))
  /\ Claims(r) => /\ d.vote <= r.term /\ Hushed(in, r.term)
                  /\ \/ /\ Claims(q) /\ r.term = q.term
                        /\ r.role = Active => Kept(n, in, q, c)
                     \/ Taken(n, in, q, r)

Comes(n, in, q, c) ==
  \E r, d, s : Save(n, r, d, s) /\ Outcome(n, in, q, c, r, d, s)

\* What Step decides on, with the higher term already adopted: nothing of a
\* handover, and a node with a claim has no vote pending.
Ready(n, in, q, c) ==
  /\ in.pa.hb.term \in Nat /\ in.w.hb.term \in Nat
  /\ real[n] /\ handIn[n] = 0 /\ command[n] = "none"
  /\ c.handover = 0 /\ Steady(q) /\ (Claims(q) => c.vote <= q.term)

\* Nothing heard goes beyond the adopted term, or only the node's own vote.
Adopted(n, in, q, c) == Hushed(in, q.term) \/ (c.vote > q.term /\ Hushed(in, c.vote))

\* The roles differ.
LEMMA RoleNames ==
  /\ Active # Fenced /\ Active # Passive /\ Active # Rejoin /\ Fenced # Passive
  /\ Fenced # Rejoin /\ Passive # Rejoin
  BY DEF Active, Fenced, Passive, Rejoin

\* The empty message asks for nothing.
LEMMA NothingIs == Nothing \in Sends /\ Nothing.give = 0 /\ Nothing.demote = 0 /\ Nothing.ask = 0
  BY DEF Nothing, Sends

\* Switching maintenance on, and taking it over, leaves role and term.
LEMMA SteadyOn ==
  ASSUME NEW q \in Persisted, Steady(q)
  PROVE  /\ SetMaint(q, TRUE) \in Persisted /\ Steady(SetMaint(q, TRUE))
         /\ SetMaint(q, TRUE).seq >= q.seq
         /\ SetMaint(q, TRUE).role = q.role /\ SetMaint(q, TRUE).term = q.term
         /\ \A in : /\ Braked(q, in) \in Persisted /\ Steady(Braked(q, in))
                    /\ Braked(q, in).seq >= q.seq
                    /\ Braked(q, in).role = q.role /\ Braked(q, in).term = q.term
<1>1. q.seq \in Nat /\ q.seq + 1 \in Nat BY DEF Persisted
<1>2. /\ SetMaint(q, TRUE) \in Persisted /\ SetMaint(q, TRUE).maint = TRUE
      /\ SetMaint(q, TRUE).seq = q.seq + 1
      /\ SetMaint(q, TRUE).role = q.role /\ SetMaint(q, TRUE).term = q.term
  BY <1>1 DEF Persisted, SetMaint
<1>3. Steady(SetMaint(q, TRUE)) /\ SetMaint(q, TRUE).seq >= q.seq /\ q.seq >= q.seq
  <2>1. q.seq + 1 > 0 /\ q.seq + 1 >= q.seq /\ q.seq >= q.seq BY <1>1
  <2>2. SetMaint(q, TRUE).maint <=> SetMaint(q, TRUE).seq > 0 BY <1>2, <2>1
  <2> QED BY <1>2, <2>1, <2>2 DEF Steady
<1>4. \A in : Braked(q, in) = q \/ Braked(q, in) = SetMaint(q, TRUE) BY DEF Braked
<1>5. ASSUME NEW in
      PROVE  /\ Braked(q, in) \in Persisted /\ Steady(Braked(q, in))
             /\ Braked(q, in).seq >= q.seq
             /\ Braked(q, in).role = q.role /\ Braked(q, in).term = q.term
  <2>1. Braked(q, in) = q \/ Braked(q, in) = SetMaint(q, TRUE) BY <1>4
  <2>2. CASE Braked(q, in) = q BY <1>3, <2>2
  <2>3. CASE Braked(q, in) = SetMaint(q, TRUE) BY <1>2, <1>3, <2>3
  <2> QED BY <2>1, <2>2, <2>3
<1> QED BY <1>2, <1>3, <1>5

\* The node stays as it is: outside its own role's claim nothing needs to hold.
LEMMA StayComes ==
  ASSUME NEW n, NEW in, NEW q \in Persisted, NEW c \in Carry, NEW r \in Persisted,
         Ready(n, in, q, c), Stay(n, r, c),
         r.role = q.role, r.term = q.term, r.seq >= q.seq, Steady(r),
         Claims(q) => Hushed(in, q.term),
         r.role = Active => Kept(n, in, q, c)
  PROVE  Comes(n, in, q, c)
<1>1. r.term \in Nat /\ Save(n, r, c, Nothing) BY DEF Persisted, Stay
<1>2. Outcome(n, in, q, c, r, c, Nothing)
  BY <1>1, NothingIs DEF Outcome, Ready, Claims
<1> QED BY <1>1, <1>2 DEF Comes

\* A change of role comes to an allowed outcome: a claim is new only with its vote.
LEMMA BecomeComes ==
  ASSUME NEW n, NEW in, NEW q \in Persisted, NEW c, NEW d \in Carry, NEW role \in Role,
         Ready(n, in, q, c), Become(n, q, role, d),
         d.handover = 0, d.mutualAge = c.mutualAge, d.vote = c.vote,
         role \in {Active, Fenced} => Claims(q) /\ Hushed(in, q.term),
         role = Active => Kept(n, in, q, c)
  PROVE  Comes(n, in, q, c)
<1> DEFINE r == [q EXCEPT !.role = role]
<1>1. /\ r \in Persisted /\ r.role = role /\ r.term = q.term /\ r.seq = q.seq
      /\ r.maint = q.maint
  BY DEF Persisted
<1>2. Save(n, r, d, Nothing) BY DEF Become
<1>3. q.term \in Nat /\ q.seq \in Nat BY DEF Persisted
<1> HIDE DEF r
<1>4. Outcome(n, in, q, c, r, d, Nothing)
  BY <1>1, <1>3, NothingIs DEF Outcome, Ready, Claims, Steady
<1> QED BY <1>2, <1>4 DEF Comes

\* The automatic with a witness: it takes the term of its vote, or asks.
LEMMA AutomaticComes ==
  ASSUME Trio, NEW n \in Node, NEW in, NEW q \in Persisted, NEW c \in Carry,
         Ready(n, in, q, c), Adopted(n, in, q, c), ~Claims(q),
         Automatic(n, in, q, c)
  PROVE  Comes(n, in, q, c)
<1>1. c.vote \in Nat /\ q.term \in Nat /\ q.seq \in Nat BY DEF Carry, Persisted
<1>2. q.role # Active BY DEF Claims
<1>3. Steady(q) /\ real[n] /\ q.seq >= q.seq BY <1>1 DEF Ready
<1>4. Stay(n, q, c) \/ Stay(n, Braked(q, in), c) => Comes(n, in, q, c)
  BY <1>1, <1>2, <1>3, SteadyOn, StayComes
<1>5. CASE TrioWon(n, in, q, c)
  <2> DEFINE r == Promoted(q, c.vote, TRUE)
  <2>1. \/ /\ Save(n, r, ClearVote(c), Nothing) /\ TakeoverAllowed(q, in) /\ Mutual(n, in.w)
           /\ \/ Seen(in.pa) /\ in.pa.hb.role \notin {Active, Fenced}
              \/ Absent(in.pa, Takeover)
        \/ Stay(n, Braked(q, in), c) \/ Stay(n, q, c)
    BY <1>5 DEF TrioWon
  <2>2. CASE /\ Save(n, r, ClearVote(c), Nothing) /\ TakeoverAllowed(q, in) /\ Mutual(n, in.w)
             /\ \/ Seen(in.pa) /\ in.pa.hb.role \notin {Active, Fenced}
                \/ Absent(in.pa, Takeover)
    <3>1. c.vote > q.term /\ c.vote = granted[n] BY <1>3, <1>5 DEF TrioWon, Elected
    <3>2. r \in Persisted
      <4>1. c.vote >= q.term /\ TRUE \in BOOLEAN BY <1>1, <3>1
      <4>2. r \in Later(q) BY <1>1, <4>1, LaterPromoted
      <4> QED BY <4>2 DEF Later
    <3>3. /\ r.role = Active /\ r.term = c.vote /\ r.seq = q.seq /\ r.maint = q.maint
      BY DEF Promoted, Persisted
    <3>4. /\ ClearVote(c) \in Carry /\ ClearVote(c).vote = 0
          /\ ClearVote(c).mutualAge = c.mutualAge /\ ClearVote(c).handover = 0
      BY CarryTypes DEF ClearVote, Carry, Ready
    <3>5. q.seq = 0 BY <1>1, <1>3, <2>2 DEF TakeoverAllowed, Unbraked, Steady
    <3>6. Hushed(in, c.vote) BY <1>1, <3>1 DEF Adopted, Hushed, Ready
    <3>7. Save(n, r, ClearVote(c), Nothing) /\ Gone(in) BY <2>2 DEF Gone, Claims
    <3> HIDE DEF r
    <3>8. Taken(n, in, q, r) BY <2>2, <3>1, <3>3, <3>5, <3>7 DEF Taken
    <3>9. Outcome(n, in, q, c, r, ClearVote(c), Nothing)
      BY <1>1, <1>3, <3>1, <3>2, <3>3, <3>4, <3>6, <3>8, NothingIs DEF Outcome, Steady
    <3> QED BY <3>7, <3>9 DEF Comes
  <2> QED BY <1>4, <2>1, <2>2
<1>6. CASE TrioAsk(n, in, q, c)
  <2> DEFINE vote == IF c.vote <= q.term THEN q.term + 1 ELSE c.vote
             d == [c EXCEPT !.vote = vote, !.askedAge = 0]
             s == [Nothing EXCEPT !.ask = vote]
  <2>1. \/ Absent(in.pa, Takeover) /\ Save(n, q, d, s)
        \/ Stay(n, Braked(q, in), c) \/ Stay(n, q, c)
    BY <1>6 DEF TrioAsk
  <2>2. vote \in Nat BY <1>1
  <2> HIDE DEF vote
  <2>3. /\ d \in Carry /\ d.mutualAge = c.mutualAge /\ d.handover = c.handover
        /\ s \in Sends /\ s.give = 0 /\ s.demote = 0
    BY <2>2 DEF Carry, Sends, Nothing
  <2> HIDE DEF d, s
  <2>4. CASE Absent(in.pa, Takeover) /\ Save(n, q, d, s)
    <3>1. Outcome(n, in, q, c, q, d, s) BY <1>1, <2>3, <2>4 DEF Outcome, Ready
    <3> QED BY <2>4, <3>1 DEF Comes
  <2> QED BY <1>4, <2>1, <2>4
<1> QED BY <1>5, <1>6 DEF Automatic

\* What a node does in its role comes to an allowed outcome.
LEMMA RoleTickComes ==
  ASSUME Trio, NEW n \in Node, NEW in, NEW q \in Persisted, NEW c \in Carry,
         Ready(n, in, q, c), Adopted(n, in, q, c), Claims(q) => Hushed(in, q.term),
         ~Booting(n, q), RoleTick(n, in, q, c)
  PROVE  Comes(n, in, q, c)
<1>1. q.seq \in Nat /\ Steady(q) /\ c.handover = 0 BY DEF Persisted, Ready
<1>2. {Active, Passive, Fenced} \subseteq Role BY DEF Role
<1>3. CASE RejoinTick(n, q, c)
  BY <1>1, <1>2, <1>3, RoleNames, BecomeComes DEF RejoinTick
<1>4. CASE ActiveTick(n, in, q, c)
  <2>1. Claims(q) /\ q.role = Active /\ ~booting[n] BY <1>4 DEF ActiveTick, Claims, Booting
  <2>2. CASE TwoActives(in, q) /\ (Stay(n, q, c) \/ Stay(n, SetMaint(q, TRUE), c))
    <3>1. Kept(n, in, q, c) BY <2>1, <2>2 DEF Kept
    <3>2. /\ SetMaint(q, TRUE) \in Persisted /\ Steady(SetMaint(q, TRUE))
          /\ SetMaint(q, TRUE).seq >= q.seq
          /\ SetMaint(q, TRUE).role = q.role /\ SetMaint(q, TRUE).term = q.term
      BY <1>1, SteadyOn
    <3>3. CASE Stay(n, q, c)
      <4>1. q.seq >= q.seq BY <1>1
      <4> QED BY <1>1, <2>1, <3>1, <3>3, <4>1, StayComes
    <3>4. CASE Stay(n, SetMaint(q, TRUE), c)
      BY <1>1, <2>1, <3>1, <3>2, <3>4, StayComes
    <3> QED BY <2>2, <3>3, <3>4
  <2>3. CASE Become(n, q, Fenced, c)
    BY <1>1, <1>2, <2>1, <2>3, RoleNames, BecomeComes
  <2>4. CASE ~(Lost(in, q, c) /\ real[n]) /\ Stay(n, q, c)
    <3>1. (q.maint /\ MaintAgreed(q, in.pa)) \/ ~(c.mutualAge >= FenceAfter)
      BY <2>4 DEF Lost, Ready
    <3>2. c.mutualAge \in Nat /\ FenceAfter \in Nat
      BY ConstantsAssumption DEF Carry, ConstantsAssumption
    <3>3. Kept(n, in, q, c) BY <1>1, <2>1, <3>1, <3>2 DEF Kept, MaintAgreed, Steady
    <3> QED BY <1>1, <2>1, <2>4, <3>3, StayComes
  <2> QED BY <1>4, <2>2, <2>3, <2>4 DEF ActiveTick
<1>5. CASE FencedTick(n, in, q, c)
  <2>1. Claims(q) /\ q.role = Fenced BY <1>5 DEF FencedTick, Claims
  <2>2. CASE Back(n, in, c) /\ Become(n, q, Active, c)
    <3>1. Kept(n, in, q, c) BY <2>2 DEF Back, Kept
    <3> QED BY <1>1, <1>2, <2>1, <2>2, <3>1, BecomeComes
  <2>3. CASE Stay(n, q, c) BY <1>1, <2>1, <2>3, RoleNames, StayComes
  <2> QED BY <1>5, <2>2, <2>3 DEF FencedTick
<1>6. CASE PassiveTick(n, in, q, c)
  <2>1. Automatic(n, in, q, c)
    BY <1>6 DEF PassiveTick, ReceiveHandover, ReceivingHandover, Ready
  <2>2. ~Claims(q) BY <1>6, RoleNames DEF PassiveTick, Claims
  <2> QED BY <2>1, <2>2, AutomaticComes
<1> QED BY <1>3, <1>4, <1>5, <1>6 DEF RoleTick

\* From a state in between that has only adopted a term.
LEMMA ComesTrans ==
  ASSUME NEW n, NEW in, NEW q \in Persisted, NEW r \in Persisted, NEW c, NEW d,
         Comes(n, in, r, d), r.term >= q.term, r.seq = q.seq, r.role = q.role,
         d.mutualAge = c.mutualAge, Claims(r) => r.term = q.term
  PROVE  Comes(n, in, q, c)
<1>1. PICK u, e, s : Save(n, u, e, s) /\ Outcome(n, in, r, d, u, e, s) BY DEF Comes
<1>2. /\ q.term \in Nat /\ r.term \in Nat /\ q.seq \in Nat /\ r.seq \in Nat
      /\ u.term \in Nat /\ u.seq \in Nat
  BY <1>1 DEF Persisted, Outcome
<1>3. Claims(r) => (Claims(q) /\ r.term = q.term /\ (TwoActives(in, r) => TwoActives(in, q)))
  BY DEF Claims, TwoActives
<1>4. Kept(n, in, r, d) /\ Claims(r) => Kept(n, in, q, c)
  BY <1>3 DEF Kept
<1>5. Taken(n, in, r, u) => Taken(n, in, q, u) BY <1>2 DEF Taken
<1>6. Outcome(n, in, q, c, u, e, s)
  BY <1>1, <1>2, <1>3, <1>4, <1>5 DEF Outcome
<1> QED BY <1>1, <1>6 DEF Comes

\* The whole decision of a tick comes to an allowed outcome.
LEMMA DecideComes ==
  ASSUME Trio, NEW n \in Node, NEW in, NEW q \in Persisted, NEW c \in Carry,
         Ready(n, in, q, c), Decide(n, in, q, c)
  PROVE  Comes(n, in, q, c)
<1> DEFINE t == AdoptedTerm(n, in, q, c)
           q1 == [q EXCEPT !.term = t]
           c1 == IF t > q.term /\ c.vote <= t THEN ClearVote(c) ELSE c
           top == Larger(q.term, Larger(in.pa.hb.term, in.w.hb.term))
<1>1. q.term \in Nat /\ c.vote \in Nat /\ in.pa.hb.term \in Nat /\ in.w.hb.term \in Nat
  BY DEF Persisted, Carry, Ready
<1>2. top \in Nat /\ top >= q.term /\ in.pa.hb.term <= top /\ in.w.hb.term <= top
  BY <1>1, LargerNat
<1>3. \/ t = top
      \/ c.vote > q.term /\ top = c.vote /\ t = Larger(q.term, top - 1)
  BY DEF AdoptedTerm
<1>4. t \in Nat /\ t >= q.term BY <1>1, <1>2, <1>3 DEF Larger
<1>5. /\ c1 \in Carry /\ c1.handover = 0 /\ c1.mutualAge = c.mutualAge
      /\ c1 = c \/ c1.vote = 0
  BY CarryTypes DEF Carry, ClearVote, Ready
<1>6. \/ t > q.term /\ Superseded(n, q, c1, t)
      \/ /\ ~(t > q.term /\ q.role \in {Active, Fenced})
         /\ Boot(n, in, q1, c1) \/ (~Booting(n, q1) /\ RoleTick(n, in, q1, c1))
  BY DEF Decide, ForceTakeover, Forcing, Swap, Swapping, Ready
<1>7. /\ q1 \in Persisted /\ q1.role = q.role /\ q1.term = t /\ q1.seq = q.seq
      /\ q1.maint = q.maint
  BY <1>4 DEF Persisted
<1>8. Claims(q) => t = top BY <1>1, <1>2, <1>3 DEF Ready
<1>9. Hushed(in, t) \/ (c1.vote > t /\ Hushed(in, c1.vote))
  <2>1. CASE t = top BY <1>2, <2>1 DEF Hushed
  <2>2. CASE c.vote > q.term /\ top = c.vote /\ t = Larger(q.term, top - 1)
    <3>1. c.vote > t BY <1>1, <2>2 DEF Larger
    <3>2. c1 = c BY <1>1, <1>4, <3>1
    <3> QED BY <1>2, <2>2, <3>1, <3>2 DEF Hushed
  <2> QED BY <1>3, <2>1, <2>2
<1>10. Hushed(in, top) BY <1>2 DEF Hushed
<1> HIDE DEF t, c1, top
<1> HIDE DEF q1
<1>11. Ready(n, in, q1, c1)
  <2>1. Claims(q1) => c1.vote <= q1.term
    BY <1>1, <1>4, <1>5, <1>7 DEF Ready, Claims
  <2> QED BY <1>5, <1>7, <2>1 DEF Ready, Steady
<1>12. Claims(q1) => Hushed(in, q1.term) BY <1>7, <1>8, <1>10 DEF Claims
<1>13. Adopted(n, in, q1, c1) BY <1>7, <1>9 DEF Adopted
<1>14. {Active, Fenced, Rejoin} \subseteq Role BY DEF Role
<1>15. CASE t > q.term /\ Superseded(n, q, c1, t)
  <2>1. Become(n, q1, Rejoin, c1) BY <1>15 DEF Superseded, q1
  <2> DEFINE r == [q1 EXCEPT !.role = Rejoin]
  <2>2. /\ r \in Persisted /\ r.role = Rejoin /\ r.term = t /\ r.seq = q.seq
        /\ r.maint = q.maint
    BY <1>7, <1>14 DEF Persisted
  <2>3. Save(n, r, c1, Nothing) BY <2>1 DEF Become
  <2> HIDE DEF r
  <2>4. q.seq \in Nat /\ ~Claims(r) BY <2>2, RoleNames DEF Persisted, Claims
  <2>5. Outcome(n, in, q, c, r, c1, Nothing)
    BY <1>4, <1>5, <2>2, <2>4, NothingIs DEF Outcome, Ready, Steady
  <2> QED BY <2>3, <2>5 DEF Comes
<1>16. CASE /\ ~(t > q.term /\ q.role \in {Active, Fenced})
            /\ Boot(n, in, q1, c1) \/ (~Booting(n, q1) /\ RoleTick(n, in, q1, c1))
  <2>1. ASSUME Boot(n, in, q1, c1) PROVE Comes(n, in, q1, c1)
    <3> DEFINE d == [c1 EXCEPT !.hold = Takeover]
    <3>1. /\ \/ Mutual(n, in.pa) /\ Become(n, q1, Active, c1)
             \/ Become(n, q1, Fenced, d)
          /\ Claims(q1)
      BY <2>1 DEF Boot, Booting, Claims, Ready
    <3>2. d \in Carry /\ d.handover = 0 /\ d.mutualAge = c1.mutualAge /\ d.vote = c1.vote
      BY <1>5, ConstantsAssumption DEF Carry, ConstantsAssumption
    <3> HIDE DEF d
    <3>3. Mutual(n, in.pa) => Kept(n, in, q1, c1) BY DEF Kept
    <3> QED BY <1>5, <1>7, <1>11, <1>12, <1>14, <3>1, <3>2, <3>3, RoleNames, BecomeComes
  <2>2. Comes(n, in, q1, c1)
    BY <1>5, <1>7, <1>11, <1>12, <1>13, <1>16, <2>1, RoleTickComes
  <2>3. Claims(q1) => q1.term = q.term BY <1>1, <1>4, <1>7, <1>16 DEF Claims
  <2> QED BY <1>4, <1>5, <1>7, <2>2, <2>3, ComesTrans
<1> QED BY <1>6, <1>15, <1>16

\* What x has in view as its tick begins.
Fresh(x) == Hear(x, Heard(x))

\* The terms n holds, in memory or in its file.
Owns(n, x) == \E q \in {p[n], disk[n]} : Claims(q) /\ q.term = x

\* No demote is queued, and every node acts on its decisions.
Steadfast == \A n \in Node : real[n] /\ demotes[n] = <<>>

SteadyAll ==
  \A z \in Proc : /\ Steady(p[z]) /\ Steady(disk[z]) /\ Steady(beat[z])
                  /\ \A y \in Proc : Steady(view[y][z].hb)

\* A node with a claim has no vote pending.
NoVote == \A n \in Node : Claims(p[n]) => carry[n].vote <= p[n].term

\* The tick of n takes the term it was granted.
Won(n) ==
  LET pa == Fresh(n)[Other(n)]
      w == Fresh(n)[Witness]
  IN  /\ granted[n] > p[n].term /\ <<granted[n], n>> \in ledger /\ p[n].seq = 0
      /\ pa.hb.term <= granted[n] /\ w.hb.term <= granted[n] /\ Mutual(n, w)
      /\ (Seen(pa) /\ ~Claims(pa.hb)) \/ Absent(pa, Takeover)

\* Why n is active after its tick without a new term.
GoesOn(n) ==
  LET pa == Fresh(n)[Other(n)]
  IN  \/ Mutual(n, pa) \/ Mutual(n, Fresh(n)[Witness])
      \/ /\ IsActive(n)
         /\ \/ carry[n].mutualAge < FenceAfter \/ pa.hb.seq > 0
            \/ Seen(pa) /\ pa.hb.role = Active /\ pa.hb.term = p[n].term

\* What a tick of n may save, r, and hand on, d.
Decided(n, r, d) ==
  LET pa == Fresh(n)[Other(n)]
      w == Fresh(n)[Witness]
  IN  /\ r \in Persisted /\ d \in Carry
      /\ r.term >= p[n].term /\ r.seq >= p[n].seq /\ Steady(r)
      /\ d.mutualAge = IF Mutual(n, pa) \/ Mutual(n, w) THEN 0 ELSE carry[n].mutualAge
      /\ Claims(r) => /\ d.vote <= r.term
                      /\ pa.hb.term <= r.term /\ w.hb.term <= r.term
                      /\ \/ /\ Claims(p[n]) /\ r.term = p[n].term
                            /\ r.role = Active => GoesOn(n)
                         \/ r.term = granted[n] /\ Won(n)

\* The turn of z in the network: it listens, and sends what it saved as q, or
\* is silent as a save failed.
Listens(z) ==
  /\ up[z] /\ z \notin ticked /\ ticked' = ticked \cup {z} /\ UNCHANGED up
  /\ view' = [view EXCEPT ![z] = Fresh(z)]
Speaks(z, q) ==
  /\ p' = [p EXCEPT ![z] = q] /\ air' = Received(z) \cup ({z} \X Peers(z))
  /\ beat' = [beat EXCEPT ![z] = Heartbeat(z, q, Fresh(z))]
Silent(z) == air' = Received(z) /\ UNCHANGED <<p, beat>>
Turn(z) == Listens(z) /\ (Silent(z) \/ \E q : Speaks(z, q))

\* The tick of n ends with r saved and d handed on, or with a failed save.
Saved(n, r, d) ==
  /\ Speaks(n, r) /\ disk' = [disk EXCEPT ![n] = r]
  /\ unsaved' = [unsaved EXCEPT ![n] = FALSE] /\ booting' = [booting EXCEPT ![n] = FALSE]
  /\ carry' = [carry EXCEPT ![n] = Tidy(r, d)]
  /\ \/ UNCHANGED request
     \/ /\ Absent(Fresh(n)[Other(n)], Takeover)
        /\ \E t : request' = [request EXCEPT ![n] = Sent(t, FALSE)]
NotSaved(n, r) ==
  /\ Silent(n) /\ disk' \in {disk, [disk EXCEPT ![n] = r]}
  /\ unsaved' = [unsaved EXCEPT ![n] = TRUE] /\ UNCHANGED <<carry, booting, request>>

NodeTurns(n) ==
  /\ Listens(n) /\ UNCHANGED <<ledger, real, demotes>>
  /\ \E r, d : Decided(n, r, d) /\ (Saved(n, r, d) \/ NotSaved(n, r))

\* Taking over what is heard of the maintenance keeps its number.
LEMMA MergeSteady ==
  ASSUME NEW q \in Persisted, NEW o \in Obs, Steady(q), Steady(o.hb)
  PROVE  /\ MergeMaint(q, o) \in Persisted /\ Steady(MergeMaint(q, o))
         /\ MergeMaint(q, o).seq >= q.seq
         /\ MergeMaint(q, o).role = q.role /\ MergeMaint(q, o).term = q.term
<1>1. MergeMaint(q, o) \in Persisted BY LaterMerge DEF Later
<1>2. MergeMaint(q, o).role = q.role /\ MergeMaint(q, o).term = q.term BY SameClaim
<1>3. /\ q.seq \in Nat /\ q.maint \in BOOLEAN /\ o.hb.seq \in Nat /\ o.hb.maint \in BOOLEAN
  BY DEF Persisted, Obs, Beat
<1> DEFINE a == [q EXCEPT !.maint = o.hb.maint, !.seq = o.hb.seq]
           b == [q EXCEPT !.maint = q.maint \/ o.hb.maint]
<1>4. /\ a.seq = o.hb.seq /\ a.maint = o.hb.maint
      /\ b.seq = q.seq /\ b.maint = (q.maint \/ o.hb.maint)
  BY DEF Persisted
<1>5. Steady(a) BY <1>4 DEF Steady
<1>6. q.seq = o.hb.seq => Steady(b)
  <2>1. q.seq = o.hb.seq => (q.maint <=> o.hb.maint) BY DEF Steady
  <2>2. q.seq = o.hb.seq => (b.maint <=> q.maint) BY <1>3, <1>4, <2>1
  <2> QED BY <1>4, <2>2 DEF Steady
<1> HIDE DEF a, b
<1>7. \/ MergeMaint(q, o) = q
      \/ MergeMaint(q, o) = a /\ o.hb.seq > q.seq
      \/ MergeMaint(q, o) = b /\ q.seq = o.hb.seq
  BY <1>3 DEF MergeMaint, a, b
<1>8. CASE MergeMaint(q, o) = q BY <1>1, <1>2, <1>3, <1>8
<1>9. CASE MergeMaint(q, o) = a /\ o.hb.seq > q.seq BY <1>1, <1>2, <1>3, <1>4, <1>5, <1>9
<1>10. CASE MergeMaint(q, o) = b /\ q.seq = o.hb.seq BY <1>1, <1>2, <1>3, <1>4, <1>6, <1>10
<1> QED BY <1>7, <1>8, <1>9, <1>10

\* The tick of a node is a turn of it with an allowed outcome.
LEMMA NodeTickTurns ==
  ASSUME TypeOK, Trio, NoHandover, GrantsVoted, Started, Steadfast, SteadyAll, NoVote,
         NEW n \in Node, NodeTick(n)
  PROVE  NodeTurns(n)
<1>1. n \in Proc /\ Other(n) \in Proc /\ Witness \in Proc BY Identities, OtherNode
<1>2. p[n] \in Persisted /\ carry[n] \in Carry BY <1>1 DEF TypeOK
<1> DEFINE v  == Hear(n, Heard(n))
<1> PICK free \in Brakes :
      LET in == [pa |-> v[Other(n)], w |-> IF Trio THEN v[Witness] ELSE NeverSeen,
                 gw |-> gateway[n], free |-> free]
          q  == IF unsaved[n] /\ p[n].role = Active
                THEN [p[n] EXCEPT !.role = Fenced] ELSE p[n]
          c  == IF Mutual(n, in.pa) \/ Mutual(n, in.w)
                THEN [carry[n] EXCEPT !.mutualAge = 0] ELSE carry[n]
      IN  /\ view' = [view EXCEPT ![n] = v]
          /\ gateway' = Pinged(n)
          /\ Decide(n, in, MergeMaint(MergeMaint(q, in.pa), in.w), c)
  BY DEF NodeTick
<1> DEFINE in == [pa |-> v[Other(n)], w |-> IF Trio THEN v[Witness] ELSE NeverSeen,
                  gw |-> gateway[n], free |-> free]
           q  == IF unsaved[n] /\ p[n].role = Active
                 THEN [p[n] EXCEPT !.role = Fenced] ELSE p[n]
           c  == IF Mutual(n, in.pa) \/ Mutual(n, in.w)
                 THEN [carry[n] EXCEPT !.mutualAge = 0] ELSE carry[n]
           m  == MergeMaint(MergeMaint(q, in.pa), in.w)
<1>3. view' = [view EXCEPT ![n] = v] /\ Decide(n, in, m, c) OBVIOUS
<1>4. v \in [Proc -> Obs] /\ v = Fresh(n) BY <1>1, HearTypes DEF Fresh
<1>5. in.pa = v[Other(n)] /\ in.w = v[Witness] OBVIOUS
<1>6. Steady(v[Other(n)].hb) /\ Steady(v[Witness].hb)
  <2>1. \A y \in Proc : v[y].hb \in {beat[y], view[n][y].hb} BY DEF Hear
  <2> QED BY <1>1, <2>1 DEF SteadyAll
<1>7. /\ q \in Persisted /\ Steady(q) /\ q.term = p[n].term /\ q.seq = p[n].seq
      /\ Claims(q) => Claims(p[n])
      /\ q.role = Active => p[n].role = Active /\ ~unsaved[n]
  <2> DEFINE f == [p[n] EXCEPT !.role = Fenced]
  <2>1. /\ f \in Persisted /\ f.term = p[n].term /\ f.seq = p[n].seq /\ f.maint = p[n].maint
        /\ f.role = Fenced
    BY <1>2 DEF Persisted, Role
  <2>2. Steady(f) /\ Steady(p[n]) BY <1>1, <2>1 DEF SteadyAll, Steady
  <2> HIDE DEF f
  <2>3. q = IF unsaved[n] /\ p[n].role = Active THEN f ELSE p[n] BY DEF f
  <2> HIDE DEF q
  <2> QED BY <1>2, <2>1, <2>2, <2>3, RoleNames DEF Claims
<1>8. /\ c \in Carry /\ c.handover = carry[n].handover /\ c.vote = carry[n].vote
      /\ c.mutualAge = IF Mutual(n, in.pa) \/ Mutual(n, in.w) THEN 0 ELSE carry[n].mutualAge
  <2> DEFINE d == [carry[n] EXCEPT !.mutualAge = 0]
  <2>1. d \in Carry /\ d.handover = carry[n].handover /\ d.vote = carry[n].vote /\ d.mutualAge = 0
    BY <1>2 DEF Carry
  <2> HIDE DEF d
  <2>2. c = IF Mutual(n, in.pa) \/ Mutual(n, in.w) THEN d ELSE carry[n] BY DEF d
  <2> HIDE DEF c
  <2> QED BY <1>2, <2>1, <2>2
<1> HIDE DEF v, in, q, c
<1>9. in.pa \in Obs /\ in.w \in Obs BY <1>1, <1>4, <1>5
<1>10. /\ m \in Persisted /\ Steady(m) /\ m.role = q.role /\ m.term = p[n].term
       /\ m.seq >= p[n].seq
  <2>1. /\ MergeMaint(q, in.pa) \in Persisted /\ Steady(MergeMaint(q, in.pa))
        /\ MergeMaint(q, in.pa).seq >= q.seq /\ MergeMaint(q, in.pa).role = q.role
        /\ MergeMaint(q, in.pa).term = q.term
    <3>1. Steady(in.pa.hb) BY <1>5, <1>6
    <3> QED BY <1>7, <1>9, <3>1, MergeSteady
  <2>2. /\ m \in Persisted /\ Steady(m) /\ m.seq >= MergeMaint(q, in.pa).seq
        /\ m.role = MergeMaint(q, in.pa).role /\ m.term = MergeMaint(q, in.pa).term
    BY <1>5, <1>6, <1>9, <2>1, MergeSteady
  <2>3. q.seq \in Nat /\ m.seq \in Nat /\ MergeMaint(q, in.pa).seq \in Nat
    BY <1>7, <2>1, <2>2 DEF Persisted
  <2> QED BY <1>7, <2>1, <2>2, <2>3
<1> HIDE DEF m
<1>11. in.pa.hb.term \in Nat /\ in.w.hb.term \in Nat /\ in.pa.hb.seq \in Nat
  BY <1>9 DEF Obs, Beat
<1>12. Ready(n, in, m, c)
  <2>1. Claims(m) => Claims(p[n]) BY <1>7, <1>10 DEF Claims
  <2>2. Claims(m) => c.vote <= m.term BY <1>8, <1>10, <2>1 DEF NoVote
  <2> QED BY <1>8, <1>10, <1>11, <2>2 DEF Ready, NoHandover, Steadfast
<1>13. PICK r, d, s : Save(n, r, d, s) /\ Outcome(n, in, m, c, r, d, s)
  BY <1>3, <1>8, <1>10, <1>12, DecideComes DEF Comes
<1>14. /\ r \in Persisted /\ r.term >= p[n].term /\ r.seq >= p[n].seq
  <2>1. r \in Persisted /\ r.term >= m.term /\ r.seq >= m.seq BY <1>13 DEF Outcome
  <2>2. /\ r.term \in Nat /\ r.seq \in Nat /\ m.seq \in Nat /\ p[n].seq \in Nat
    BY <1>2, <1>10, <2>1 DEF Persisted
  <2> QED BY <1>10, <2>1, <2>2
<1>15. Kept(n, in, m, c) /\ Claims(m) /\ r.term = m.term => GoesOn(n)
  <2> SUFFICES ASSUME Kept(n, in, m, c), ~Mutual(n, in.pa), ~Mutual(n, in.w)
               PROVE  GoesOn(n)
    BY <1>4, <1>5 DEF GoesOn
  <2>1. /\ m.role = Active /\ ~booting[n]
        /\ c.mutualAge < FenceAfter \/ (m.seq > 0 /\ in.pa.hb.seq = m.seq) \/ TwoActives(in, m)
    BY DEF Kept
  <2>2. IsActive(n) BY <1>7, <1>10, <2>1 DEF IsActive, NodeTick, Ticks
  <2>3. c.mutualAge = carry[n].mutualAge BY <1>8
  <2>4. \/ carry[n].mutualAge < FenceAfter \/ in.pa.hb.seq > 0
        \/ Seen(in.pa) /\ in.pa.hb.role = Active /\ in.pa.hb.term = p[n].term
    BY <1>10, <2>1, <2>3 DEF TwoActives
  <2> QED BY <1>4, <1>5, <2>2, <2>4 DEF GoesOn
<1>16. Taken(n, in, m, r) => r.term = granted[n] /\ Won(n)
  <2> SUFFICES ASSUME Taken(n, in, m, r), Hushed(in, r.term) PROVE r.term = granted[n] /\ Won(n)
    BY <1>13, RoleNames DEF Taken, Outcome, Claims
  <2>1. /\ r.term = granted[n] /\ r.term > p[n].term /\ m.seq = 0 /\ Gone(in) /\ Mutual(n, in.w)
    BY <1>10 DEF Taken
  <2>2. p[n].seq = 0 /\ granted[n] # 0
    BY <1>2, <1>10, <1>14, <2>1 DEF Persisted
  <2>3. <<granted[n], n>> \in ledger BY <2>2 DEF GrantsVoted, VotedGrant
  <2> QED BY <1>4, <1>5, <2>1, <2>2, <2>3 DEF Won, Gone, Hushed
<1>17. Decided(n, r, d)
  <2>1. Claims(r) => \/ /\ Claims(p[n]) /\ r.term = p[n].term
                        /\ r.role = Active => GoesOn(n)
                     \/ r.term = granted[n] /\ Won(n)
    <3>1. Claims(m) => Claims(p[n]) BY <1>7, <1>10 DEF Claims
    <3> QED BY <1>10, <1>13, <1>15, <1>16, <3>1 DEF Outcome
  <2> QED BY <1>4, <1>5, <1>8, <1>13, <1>14, <2>1 DEF Decided, Outcome, Hushed
<1>18. Saved(n, r, d) \/ NotSaved(n, r)
  <2>1. CASE SaveDone(n, r, d, s)
    <3>1. s.ask # 0 => Absent(Fresh(n)[Other(n)], Takeover) BY <1>4, <1>5, <1>13 DEF Outcome
    <3>2. view'[n] = Fresh(n) BY <1>1, <1>3, <1>4 DEF TypeOK
    <3>3. (~real[n]) = FALSE BY DEF Steadfast
    <3> QED BY <2>1, <3>1, <3>2, <3>3 DEF SaveDone, Saved, Speaks
  <2>2. CASE SaveFails(n, r) BY <2>2 DEF SaveFails, NotSaved, Silent
  <2> QED BY <1>13, <2>1, <2>2 DEF Save
<1>20. UNCHANGED demotes BY <1>13 DEF Outcome, Save, SaveDone, SaveFails
<1>19. Listens(n) BY <1>3, <1>4 DEF NodeTick, Ticks, Listens
<1> QED BY <1>17, <1>18, <1>19, <1>20 DEF NodeTick, NodeTurns

\* n holds term x, or can still take it with its vote.
Bid(n, x) == Owns(n, x) \/ (<<x, n>> \in ledger /\ x > p[n].term)

\* A heartbeat of y is under way to n that says y sees n.
Coming(n, y) == <<y, n>> \in air /\ n \in beat[y].sees

\* What n knows, or will hear, of a y that sees it is of a term above x.
Far(n, y, x) ==
  /\ Mutual(n, view[n][y]) => view[n][y].hb.term > x
  /\ Coming(n, y) => beat[y].term > x

\* The term in the heartbeats of z.
Top(z) == IF z = Witness THEN Larger(p[z].votedTerm, p[z].term) ELSE p[z].term

\* A process that is down has nothing in view.
Down == \A x, y \in Proc : ~up[x] => view[x][y] = NeverSeen

MutualAges == \A n \in Node : carry[n].mutualAge <= FenceAfter

Hearsay ==
  \A z \in Proc :
    /\ beat[z].term <= Top(z) /\ beat[z].seq <= p[z].seq /\ p[z].seq <= disk[z].seq
    /\ \A y \in Peers(z) :
         /\ view[y][z].hb.term <= Top(z) /\ view[y][z].hb.seq <= p[z].seq
         /\ view[y][z].heard => view[y][z].hb.term >= 1
         /\ <<z, y>> \in air => beat[z].term >= 1

\* The votes in the witness' book.
Filed(q) == IF q.votedFor = Nobody THEN q.votedTerm = 0 ELSE q.votedTerm > 1
Book ==
  /\ p[Witness].term >= 1 /\ disk[Witness].votedTerm >= p[Witness].votedTerm
  /\ Filed(p[Witness]) /\ Filed(disk[Witness])
  /\ \A v \in ledger : v[1] > 1 /\ v[1] <= p[Witness].votedTerm

\* The vote of term v is n's, or the witness wrote it down without confirming
\* it: after a crash it is taken for given.
Noted(v, n) ==
  <<v, n>> \in ledger
  \/ \E q \in {p[Witness], disk[Witness]} : q.votedTerm = v /\ q.votedFor = n

\* A heartbeat without a claim is older than the term its node holds.
BeforeClaim ==
  \A n \in Node, x \in Nat : Owns(n, x) =>
    /\ ~Claims(beat[n]) => beat[n].term < x
    /\ \A y \in Peers(n) :
         view[y][n].heard /\ ~Claims(view[y][n].hb) => view[y][n].hb.term < x

\* A heartbeat that claims a term is of the node the term belongs to.
Justly(n, hb) ==
  Claims(hb) => IF hb.term = 1 THEN ~Owns(Other(n), 1) ELSE <<hb.term, n>> \in ledger
Signed ==
  \A n \in Node : Justly(n, beat[n]) /\ \A y \in Peers(n) : Justly(n, view[y][n].hb)

\* While n believes that y sees it, y heard from it not much longer ago.
Sight ==
  \A n \in Node : \A y \in Peers(n) :
    /\ Mutual(n, view[n][y]) => view[y][n].age <= SeenTicks + 1 + view[n][y].age
    /\ Coming(n, y) => view[y][n].age <= SeenTicks + (IF n \in ticked THEN 0 ELSE 1)

Outvoted ==
  \A n \in Node, x \in Nat, v \in Nat :
    Bid(n, x) /\ Noted(v, Other(n)) /\ v > x => Far(n, Witness, x)

Replaced ==
  \A n \in Node, x \in Nat, v \in Nat :
    Owns(n, x) /\ Owns(Other(n), v) /\ v > x =>
      Far(n, Other(n), x) /\ (IsActive(n) => p[n].term # x)

\* How long the other side may not have heard from an active node, on top of
\* its own time out of sight.
Lag == 2 * SeenTicks + 1

\* The votes the partner of n has are none above the term of n.
NoRival(n) == \A v \in Nat : Noted(v, Other(n)) => v <= p[n].term

Trusting(n) ==
  \/ p[Other(n)].seq > 0
  \/ /\ carry[n].mutualAge < FenceAfter \/ n \notin ticked
     /\ \/ view[Other(n)][n].age <= Lag + carry[n].mutualAge
        \/ view[Witness][n].age <= Lag + carry[n].mutualAge /\ NoRival(n)
Trusts == \A n \in Node : IsActive(n) => Trusting(n)

Recent ==
  \A n \in Node, x \in Nat :
    LET c == Other(n)
    IN  Owns(n, x) =>
          /\ view[c][n].heard /\ view[c][n].hb.term < x
               => view[Witness][n].age <= Lag + 1 + view[c][n].age
          /\ <<n, c>> \in air /\ beat[n].term < x
               => view[Witness][n].age <= Lag + (IF c \in ticked THEN 0 ELSE 1)

Asking ==
  \A n \in Node :
    LET o == view[n][Other(n)]
    IN  request[n].term # 0 =>
          /\ n \notin ticked => request[n].late
          /\ o.heard => \/ o.age >= Takeover
                        \/ o.age = 0 /\ request[n].late /\ n \in ticked

Unheard ==
  \A n \in Node, x \in Nat, v \in Nat :
    LET c == Other(n)
    IN  Owns(n, x) /\ Noted(v, c) /\ v > x =>
          /\ view[c][n].heard /\ view[c][n].hb.term < x => view[c][n].age > SeenTicks
          /\ <<n, c>> \in air => beat[n].term >= x

-----------------------------------------------------------------------------
(* The steps, by what they change                                          *)

Facts ==
  /\ TypeOK /\ SavedTerms /\ VotesKnown /\ OneVotePerTerm /\ GrantsVoted
  /\ NoHandover /\ RightfulOwners /\ Started
Basics ==
  /\ Steadfast /\ SteadyAll /\ NoVote /\ MutualAges /\ Down /\ Book /\ Hearsay
  /\ BeforeClaim /\ Signed

SameNodes == \A n \in Node : p'[n] = p[n] /\ disk'[n] = disk[n]

\* The file of the witness follows its memory.
WitnessFile ==
  /\ Steady(p'[Witness]) /\ Steady(disk'[Witness])
  /\ p'[Witness].seq >= p[Witness].seq /\ disk'[Witness].seq >= p'[Witness].seq

SameBook(x) == p'[x].votedTerm = p[x].votedTerm /\ p'[x].votedFor = p[x].votedFor

\* The vote in the file of the witness is the one of q.
OnFile(q) == disk'[Witness].votedTerm = q.votedTerm /\ disk'[Witness].votedFor = q.votedFor

WitnessTurns ==
  /\ Turn(Witness) /\ SameNodes /\ WitnessFile /\ SameBook(Witness)
  /\ p'[Witness] \in Persisted /\ p'[Witness].term >= p[Witness].term
  /\ OnFile(p[Witness]) \/ OnFile(disk[Witness])
  /\ \/ p'[Witness] = disk'[Witness]
     \/ beat'[Witness] = beat[Witness] /\ air' \subseteq air
  /\ UNCHANGED <<ledger, carry, request, unsaved, booting>>

Answers(n) ==
  /\ SameNodes /\ WitnessFile /\ request[n].term # 0
  /\ request' = [request EXCEPT ![n] = NoLetter]
  /\ \/ /\ UNCHANGED ledger /\ p'[Witness] = p[Witness]
        /\ \/ OnFile(disk[Witness])
           \/ Grants(n, request[n].term) /\ disk'[Witness] = Voted(n, request[n].term)
     \/ /\ Grants(n, request[n].term) /\ p'[Witness] = Voted(n, request[n].term)
        /\ disk'[Witness] = p'[Witness]
        /\ ledger' = ledger \cup {<<request[n].term, n>>}
  /\ UNCHANGED <<view, beat, air, ticked, up, booting, unsaved, carry>>

Crashes(x) ==
  /\ up' = [up EXCEPT ![x] = FALSE] /\ p' = [p EXCEPT ![x] = disk[x]]
  /\ view' = [view EXCEPT ![x] = [y \in Proc |-> NeverSeen]]
  /\ \A n \in Node : carry'[n] = IF n = x THEN NoCarry ELSE carry[n]
  /\ \A n \in Node \ {x} : unsaved'[n] = unsaved[n]
  /\ x = Witness => "witness" \in Env
  /\ UNCHANGED <<disk, beat, air, ticked, request, ledger, booting>>

Idles ==
  /\ \A x \in Proc :
       /\ SameBook(x) /\ p'[x].role = p[x].role /\ p'[x].term = p[x].term
       /\ p'[x].seq >= p[x].seq /\ disk'[x].seq >= p'[x].seq
       /\ Steady(p'[x]) /\ Steady(disk'[x])
       /\ \E q \in {p[x], disk[x]} : disk'[x].role = q.role /\ disk'[x].term = q.term
       /\ up[x] => up'[x]
  /\ OnFile(disk[Witness])
  /\ \A n \in Node : IsActive(n)' => IsActive(n)
  /\ UNCHANGED <<view, beat, air, ticked, request, ledger, carry>>

\* No node claims more than before, or becomes active.
Calm ==
  \A n \in Node :
    /\ \A x \in Nat : Owns(n, x)' => Owns(n, x)
    /\ p'[n].term >= p[n].term /\ p'[n].seq >= p[n].seq
    /\ IsActive(n)' => IsActive(n) /\ p'[n].term = p[n].term

\* With a witness there are two servers, each the other of the other, and the witness.
LEMMA TrioProc ==
  ASSUME Trio
  PROVE  /\ Proc = Node \cup {Witness} /\ Witness \notin Node
         /\ \A n \in Node : /\ Other(n) \in Node /\ Other(n) # n /\ Other(Other(n)) = n
                            /\ \A m \in Node : m = n \/ m = Other(n)
                            /\ Peers(n) = {Other(n), Witness}
         /\ Peers(Witness) = Node
<1>1. Proc = Node \cup {Witness} /\ Witness \notin Node BY Identities DEF Proc
<1>2. PICK a \in Node, b \in Node : a # b /\ Node = {a, b}
  <2>1. PICK a \in Node : Other(a) \in Node /\ Other(a) # a
    <3>1. Node # {}
      BY FS_EmptySet, ConstantsAssumption DEF ConstantsAssumption
    <3> QED BY <3>1, OtherNode
  <2>2. Node = {a, Other(a)}
    <3> SUFFICES ASSUME NEW m \in Node, m # a, m # Other(a) PROVE FALSE BY <2>1
    <3>1. {a, Other(a), m} \subseteq Node BY <2>1
    <3>2. Cardinality({a, Other(a), m}) <= Cardinality(Node)
      BY <3>1, FS_Subset, ConstantsAssumption DEF ConstantsAssumption
    <3>3. Cardinality({a, Other(a), m}) = 3
      <4>1. IsFiniteSet({a}) /\ Cardinality({a}) = 1 BY FS_Singleton
      <4>2. /\ IsFiniteSet({a} \cup {Other(a)})
            /\ Cardinality({a} \cup {Other(a)}) = 2
        BY <2>1, <4>1, FS_AddElement
      <4>3. /\ IsFiniteSet(({a} \cup {Other(a)}) \cup {m})
            /\ Cardinality(({a} \cup {Other(a)}) \cup {m}) = 3
        BY <2>1, <4>2, FS_AddElement
      <4>4. ({a} \cup {Other(a)}) \cup {m} = {a, Other(a), m} OBVIOUS
      <4> QED BY <4>3, <4>4
    <3> QED BY <3>2, <3>3, ConstantsAssumption DEF ConstantsAssumption
  <2> QED BY <2>1, <2>2
<1>3. ASSUME NEW n \in Node
      PROVE  /\ Other(n) \in Node /\ Other(n) # n /\ Other(Other(n)) = n
             /\ \A m \in Node : m = n \/ m = Other(n)
             /\ Peers(n) = {Other(n), Witness}
  <2>1. Other(n) \in Node /\ Other(n) # n BY OtherNode
  <2>2. Other(Other(n)) \in Node /\ Other(Other(n)) # Other(n) BY <2>1, OtherNode
  <2>3. \A m \in Node : m = n \/ m = Other(n) BY <1>2, <2>1
  <2>4. Peers(n) = {Other(n), Witness} BY <1>1, <2>1, <2>3 DEF Peers
  <2> QED BY <2>1, <2>2, <2>3, <2>4
<1> QED BY <1>1, <1>3 DEF Peers

\* A write of the witness, with what it writes, keeps file and memory in order.
LEMMA WitnessWrites ==
  ASSUME TypeOK, Trio, SteadyAll, Hearsay, NEW q \in Persisted, Steady(q),
         q.seq >= p[Witness].seq,
         WitnessSave(q) \/ WitnessSaveFails(q) \/ UNCHANGED <<p, disk>>
  PROVE  /\ SameNodes /\ WitnessFile
         /\ \/ p'[Witness] = q /\ disk'[Witness] = q
            \/ p'[Witness] = p[Witness] /\ disk'[Witness] \in {q, disk[Witness]}
<1>1. /\ Witness \in Proc /\ Witness \notin Node /\ Node \subseteq Proc
      /\ DOMAIN p = Proc /\ DOMAIN disk = Proc
      /\ p[Witness] \in Persisted /\ disk[Witness] \in Persisted
  BY Identities DEF TypeOK
<1>2. /\ p[Witness].seq \in Nat /\ disk[Witness].seq \in Nat /\ q.seq \in Nat
      /\ disk[Witness].seq >= p[Witness].seq
      /\ Steady(p[Witness]) /\ Steady(disk[Witness])
  BY <1>1 DEF Persisted, Hearsay, SteadyAll
<1>3. CASE WitnessSave(q)
  <2>1. p'[Witness] = q /\ disk'[Witness] = q BY <1>1, <1>3 DEF WitnessSave
  <2>2. SameNodes BY <1>1, <1>3 DEF WitnessSave, SameNodes
  <2> QED BY <1>2, <2>1, <2>2 DEF WitnessFile
<1>4. CASE WitnessSaveFails(q)
  <2>1. p'[Witness] = p[Witness] /\ disk'[Witness] \in {q, disk[Witness]}
    BY <1>1, <1>4 DEF WitnessSaveFails
  <2>2. SameNodes BY <1>1, <1>4 DEF WitnessSaveFails, SameNodes
  <2> QED BY <1>2, <2>1, <2>2 DEF WitnessFile
<1>5. CASE UNCHANGED <<p, disk>>
  BY <1>2, <1>5 DEF WitnessFile, SameNodes
<1> QED BY <1>3, <1>4, <1>5

\* The tick of the witness changes neither the servers nor the votes.
LEMMA WitnessTickTurns ==
  ASSUME Facts, Basics, Trio, WitnessTick
  PROVE  WitnessTurns
<1> USE DEF Facts, Basics
<1> DEFINE v == Hear(Witness, Heard(Witness))
           a == CHOOSE n \in Node : TRUE
           b == Other(a)
           t == Larger(p[Witness].term, Larger(v[a].hb.term, v[b].hb.term))
           r == [p[Witness] EXCEPT !.term = t]
           q == MergeMaint(MergeMaint(r, v[a]), v[b])
<1>1. Witness \in Proc BY Identities
<1>2. p[Witness] \in Persisted BY <1>1 DEF TypeOK
<1>3. v \in [Proc -> Obs] /\ v = Fresh(Witness) BY <1>1, HearTypes DEF Fresh
<1>4. a \in Node /\ b \in Node
  <2>1. Node # {} BY FS_EmptySet, ConstantsAssumption DEF ConstantsAssumption
  <2> QED BY <2>1, OtherNode
<1>5. v[a] \in Obs /\ v[b] \in Obs BY <1>3, <1>4, Identities
<1>6. Steady(v[a].hb) /\ Steady(v[b].hb)
  <2>1. \A y \in Proc : v[y].hb \in {beat[y], view[Witness][y].hb} BY DEF Hear
  <2> QED BY <1>1, <1>4, <2>1, Identities DEF SteadyAll
<1>7. /\ view' = [view EXCEPT ![Witness] = v]
      /\ \/ /\ WitnessSave(q)
            /\ beat' = [beat EXCEPT ![Witness] = Heartbeat(Witness, q, v)]
            /\ air' = Received(Witness) \cup ({Witness} \X Peers(Witness))
         \/ /\ WitnessSaveFails(q)
            /\ air' = Received(Witness)
            /\ UNCHANGED beat
  BY DEF WitnessTick
<1> HIDE DEF v, a, b
<1>8. t \in Nat /\ t >= p[Witness].term
  <2>1. v[a].hb.term \in Nat /\ v[b].hb.term \in Nat /\ p[Witness].term \in Nat
    BY <1>2, <1>5 DEF Obs, Beat, Persisted
  <2>2. Larger(v[a].hb.term, v[b].hb.term) \in Nat BY <2>1, LargerNat
  <2> QED BY <2>1, <2>2, LargerNat
<1> HIDE DEF t
<1>9. /\ r \in Persisted /\ r.term = t /\ r.seq = p[Witness].seq /\ r.maint = p[Witness].maint
      /\ r.votedTerm = p[Witness].votedTerm /\ r.votedFor = p[Witness].votedFor
  BY <1>2, <1>8 DEF Persisted
<1> HIDE DEF r
<1>10. Steady(r) BY <1>1, <1>9 DEF SteadyAll, Steady
<1>11. /\ q \in Persisted /\ q.term = t /\ q.seq >= r.seq /\ Steady(q)
       /\ q.votedTerm = r.votedTerm /\ q.votedFor = r.votedFor
  <2> DEFINE m == MergeMaint(r, v[a])
  <2>1. m \in Persisted /\ Steady(m) /\ m.seq >= r.seq /\ m.term = r.term
    BY <1>5, <1>6, <1>9, <1>10, MergeSteady
  <2>2. m.votedTerm = r.votedTerm /\ m.votedFor = r.votedFor BY <1>5, <1>9, LaterMerge
  <2>3. q = MergeMaint(m, v[b]) OBVIOUS
  <2> HIDE DEF m, q
  <2>4. q \in Persisted /\ Steady(q) /\ q.seq >= m.seq /\ q.term = m.term
    BY <1>5, <1>6, <2>1, <2>3, MergeSteady
  <2>5. q.votedTerm = m.votedTerm /\ q.votedFor = m.votedFor
    BY <1>5, <2>1, <2>3, LaterMerge
  <2>6. m.seq \in Nat /\ q.seq \in Nat /\ r.seq \in Nat BY <1>9, <2>1, <2>4 DEF Persisted
  <2> QED BY <1>9, <2>1, <2>2, <2>4, <2>5, <2>6
<1> HIDE DEF q
<1>12. /\ SameNodes /\ WitnessFile
       /\ \/ p'[Witness] = q /\ disk'[Witness] = q
          \/ p'[Witness] = p[Witness] /\ disk'[Witness] \in {q, disk[Witness]}
  BY <1>7, <1>9, <1>11, WitnessWrites
<1>13. p[Witness].term \in Nat BY <1>2 DEF Persisted
<1>14. SameBook(Witness) /\ p'[Witness] \in Persisted /\ p'[Witness].term >= p[Witness].term
  BY <1>2, <1>8, <1>9, <1>11, <1>12, <1>13 DEF SameBook
<1>15. Turn(Witness)
  <2>1. Listens(Witness) BY <1>3, <1>7 DEF WitnessTick, Ticks, Listens
  <2>2. Silent(Witness) \/ Speaks(Witness, q)
    BY <1>3, <1>7 DEF WitnessSave, WitnessSaveFails, Silent, Speaks
  <2> QED BY <2>1, <2>2 DEF Turn
<1>16. OnFile(p[Witness]) \/ OnFile(disk[Witness]) BY <1>9, <1>11, <1>12 DEF OnFile
<1>17. \/ p'[Witness] = disk'[Witness]
       \/ beat'[Witness] = beat[Witness] /\ air' \subseteq air
  <2>1. WitnessSave(q) => p'[Witness] = disk'[Witness] BY <1>1 DEF WitnessSave, TypeOK
  <2> QED BY <1>7, <2>1 DEF Received
<1> QED BY <1>12, <1>14, <1>15, <1>16, <1>17 DEF WitnessTurns, WitnessTick, voteVars

\* The witness answers a vote and writes no more than that.
LEMMA AnswerVoteAnswers ==
  ASSUME Facts, Basics, Trio, NEW n \in Node, AnswerVote(n)
  PROVE  Answers(n)
<1> USE DEF Facts, Basics
<1> DEFINE t == request[n].term
           q == Voted(n, t)
<1>1. t \in Nat /\ p[Witness] \in Persisted BY Identities DEF TypeOK, Letter
<1>2. \/ Grants(n, t) /\ WitnessSave(q) /\ ledger' = ledger \cup {<<t, n>>}
      \/ Grants(n, t) /\ WitnessSaveFails(q) /\ UNCHANGED ledger
      \/ UNCHANGED <<p, disk, ledger>>
  BY DEF AnswerVote
<1>3. q \in Persisted BY <1>1, VotedTypes DEF Later
<1>4. q.seq = p[Witness].seq /\ q.maint = p[Witness].maint BY <1>1 DEF Voted, Persisted
<1>5. /\ t # 0 /\ request' = [request EXCEPT ![n] = NoLetter]
      /\ UNCHANGED <<view, beat, air, ticked, up, booting, unsaved, carry>>
  BY DEF AnswerVote
<1> HIDE DEF q
<1>6. Steady(q) BY <1>4, Identities DEF SteadyAll, Steady
<1>7. q.seq >= p[Witness].seq BY <1>1, <1>4 DEF Persisted
<1>8. SameNodes /\ WitnessFile BY <1>2, <1>3, <1>6, <1>7, WitnessWrites
<1>9. \/ /\ UNCHANGED ledger /\ p'[Witness] = p[Witness]
         /\ OnFile(disk[Witness]) \/ (Grants(n, t) /\ disk'[Witness] = q)
      \/ /\ Grants(n, t) /\ p'[Witness] = q /\ disk'[Witness] = p'[Witness]
         /\ ledger' = ledger \cup {<<t, n>>}
  <2>1. DOMAIN p = Proc /\ DOMAIN disk = Proc /\ Witness \in Proc BY Identities DEF TypeOK
  <2>2. CASE Grants(n, t) /\ WitnessSave(q) /\ ledger' = ledger \cup {<<t, n>>}
    BY <2>1, <2>2 DEF WitnessSave
  <2>3. CASE Grants(n, t) /\ WitnessSaveFails(q) /\ UNCHANGED ledger
    BY <2>1, <2>3 DEF WitnessSaveFails, OnFile
  <2>4. CASE UNCHANGED <<p, disk, ledger>> BY <2>4 DEF OnFile
  <2> QED BY <1>2, <2>2, <2>3, <2>4
<1> QED BY <1>5, <1>8, <1>9 DEF Answers, q

\* A crash brings back what is in the file.
LEMMA CrashCrashes ==
  ASSUME Facts, Trio, NEW x \in Proc, Crash(x)
  PROVE  Crashes(x)
<1>1. DOMAIN carry = Node /\ DOMAIN unsaved = Node BY DEF Facts, TypeOK
<1>2. CASE x = Witness BY <1>2, Identities DEF Crashes, Crash, voteVars
<1>3. CASE x # Witness BY <1>1, <1>3 DEF Crashes, Crash
<1> QED BY <1>2, <1>3

\* Every other step but that of time changes nothing the votes rest on.
LEMMA RestIdles ==
  ASSUME Facts, Basics, Guarded,
         \/ \E n \in Node : ReceiveVote(n) \/ SetMaintenance(n, TRUE)
         \/ NewDay \/ \E x \in Proc : Restart(x)
         \/ \E S \in Breakdowns : Breaks(S) \/ Heals(S)
         \/ UNCHANGED vars
  PROVE  Idles
<1> USE DEF Facts, Basics
<1>1. /\ Witness \in Proc /\ Witness \notin Node /\ Node \subseteq Proc
      /\ DOMAIN p = Proc /\ DOMAIN disk = Proc
      /\ \A x \in Proc : p[x] \in Persisted /\ disk[x] \in Persisted
  BY Identities DEF TypeOK, Guarded
<1>2. /\ \A x \in Proc : /\ p[x].seq \in Nat /\ disk[x].seq \in Nat /\ disk[x].seq >= p[x].seq
                         /\ Steady(p[x]) /\ Steady(disk[x])
  BY <1>1 DEF Persisted, Hearsay, SteadyAll
<1>3. ASSUME UNCHANGED <<p, disk, view, beat, air, ticked, request, ledger, carry, unsaved>>,
             \A x \in Proc : up[x] => up'[x],
             \A n \in Node : up'[n] /\ ~booting'[n] => up[n] /\ ~booting[n]
      PROVE  Idles
  BY <1>1, <1>2, <1>3 DEF Idles, IsActive, SameBook, OnFile
<1>4. ASSUME \/ \E n \in Node : ReceiveVote(n)
             \/ \E S \in Breakdowns : Breaks(S) \/ Heals(S)
             \/ UNCHANGED vars
      PROVE  Idles
  <2>1. UNCHANGED <<p, disk, view, beat, air, ticked, request, ledger, carry, unsaved, up, booting>>
    BY <1>4 DEF ReceiveVote, Breaks, Heals, vars, nodeVars, netVars, voteVars, swapVars
  <2> QED BY <1>3, <2>1
<1>5. ASSUME NEW x \in Proc, Restart(x) PROVE Idles
  <2>1. UNCHANGED <<p, disk, view, beat, air, ticked, request, ledger, carry, unsaved>>
    BY <1>5 DEF Restart, nodeVars, netVars, voteVars, swapVars
  <2>2. /\ up' = [up EXCEPT ![x] = TRUE]
        /\ booting' = IF x = Witness THEN booting ELSE [booting EXCEPT ![x] = TRUE]
    BY <1>5 DEF Restart
  <2>3. up \in [Proc -> BOOLEAN] /\ booting \in [Node -> BOOLEAN] BY DEF TypeOK
  <2>4. \A y \in Proc : up[y] => up'[y] BY <2>2, <2>3
  <2>5. ASSUME NEW n \in Node, up'[n], ~booting'[n] PROVE up[n] /\ ~booting[n]
    BY <1>1, <2>2, <2>3, <2>5
  <2> QED BY <1>3, <2>1, <2>4, <2>5
<1>6. ASSUME NEW n \in Node, SetMaintenance(n, TRUE) PROVE Idles
  <2> DEFINE q == SetMaint(p[n], TRUE)
  <2>1. /\ q \in Persisted /\ Steady(q) /\ q.seq >= p[n].seq
        /\ q.role = p[n].role /\ q.term = p[n].term
    BY <1>1, <1>2, SteadyOn
  <2>2. q.votedTerm = p[n].votedTerm /\ q.votedFor = p[n].votedFor
    BY <1>1 DEF SetMaint, Persisted
  <2>3. \/ p' = [p EXCEPT ![n] = q] /\ disk' = [disk EXCEPT ![n] = q]
        \/ UNCHANGED p /\ disk' \in {disk, [disk EXCEPT ![n] = q]}
    BY <1>6 DEF SetMaintenance
  <2>4. UNCHANGED <<view, beat, air, ticked, request, ledger, carry, unsaved, up, booting>>
    BY <1>6 DEF SetMaintenance, voteVars
  <2> HIDE DEF q
  <2>5. q.seq \in Nat BY <2>1 DEF Persisted
  <2>6. \A x \in Proc \ {n} : p'[x] = p[x] /\ disk'[x] = disk[x] BY <1>1, <2>3
  <2>7. \/ p'[n] = q /\ disk'[n] = q
        \/ p'[n] = p[n] /\ disk'[n] \in {disk[n], q}
    BY <1>1, <2>3
  <2>8. ASSUME NEW x \in Proc
        PROVE  /\ SameBook(x) /\ p'[x].role = p[x].role /\ p'[x].term = p[x].term
               /\ p'[x].seq >= p[x].seq /\ disk'[x].seq >= p'[x].seq
               /\ Steady(p'[x]) /\ Steady(disk'[x])
               /\ \E r \in {p[x], disk[x]} : disk'[x].role = r.role /\ disk'[x].term = r.term
    <3>1. CASE x # n BY <1>2, <2>6, <3>1 DEF SameBook
    <3>2. CASE x = n BY <1>1, <1>2, <2>1, <2>2, <2>5, <2>7, <3>2 DEF SameBook
    <3> QED BY <3>1, <3>2
  <2>9. \A m \in Node : p'[m].role = p[m].role BY <1>1, <2>8
  <2>10. \A m \in Node : IsActive(m)' => IsActive(m) BY <2>4, <2>9 DEF IsActive
  <2>11. OnFile(disk[Witness]) BY <1>1, <2>6 DEF OnFile
  <2>12. \A x \in Proc : up[x] => up'[x] BY <2>4
  <2> QED BY <2>4, <2>8, <2>10, <2>11, <2>12 DEF Idles
<1>7. CASE NewDay
  <2>1. /\ p' = [x \in Proc |-> [p[x] EXCEPT !.count = 0]]
        /\ disk' = [x \in Proc |-> [disk[x] EXCEPT !.count = 0]]
        /\ UNCHANGED <<view, beat, air, ticked, request, ledger, carry, unsaved, up, booting>>
    BY <1>7 DEF NewDay, netVars, voteVars
  <2>2. \A q \in Persisted :
          LET r == [q EXCEPT !.count = 0]
          IN  /\ r.role = q.role /\ r.term = q.term /\ r.seq = q.seq /\ r.maint = q.maint
              /\ r.votedTerm = q.votedTerm /\ r.votedFor = q.votedFor
    BY DEF Persisted
  <2>3. \A x \in Proc :
          /\ p'[x].role = p[x].role /\ p'[x].term = p[x].term /\ p'[x].seq = p[x].seq
          /\ p'[x].maint = p[x].maint
          /\ p'[x].votedTerm = p[x].votedTerm /\ p'[x].votedFor = p[x].votedFor
          /\ disk'[x].role = disk[x].role /\ disk'[x].term = disk[x].term
          /\ disk'[x].seq = disk[x].seq /\ disk'[x].maint = disk[x].maint
          /\ disk'[x].votedTerm = disk[x].votedTerm /\ disk'[x].votedFor = disk[x].votedFor
    BY <1>1, <2>1, <2>2
  <2>4. \A x \in Proc : Steady(p'[x]) /\ Steady(disk'[x]) BY <1>2, <2>3 DEF Steady
  <2>5. \A m \in Node : IsActive(m)' => IsActive(m) BY <1>1, <2>1, <2>3 DEF IsActive
  <2>6. \A x \in Proc : p'[x].seq >= p[x].seq /\ disk'[x].seq >= p'[x].seq BY <1>2, <2>3
  <2>7. OnFile(disk[Witness]) BY <1>1, <2>3 DEF OnFile
  <2> QED BY <2>1, <2>3, <2>4, <2>5, <2>6, <2>7 DEF Idles, SameBook
<1> QED BY <1>4, <1>5, <1>6, <1>7

\* Every step is a tick, an answer of the witness, a crash, the passing of
\* time, or changes nothing the votes rest on.
LEMMA Steps ==
  ASSUME Guarded, Facts, Basics, [Next]_vars
  PROVE  \/ \E n \in Node : NodeTurns(n) \/ Answers(n)
         \/ WitnessTurns \/ TickPasses \/ Idles
         \/ \E x \in Proc : Crashes(x)
<1>1. Trio BY DEF Guarded
<1>2. ASSUME NEW n \in Node, NodeTick(n) PROVE NodeTurns(n)
  BY <1>1, <1>2, NodeTickTurns DEF Facts, Basics
<1>3. ASSUME NEW n \in Node, AnswerVote(n) PROVE Answers(n)
  BY <1>1, <1>3, AnswerVoteAnswers
<1>4. WitnessTick => WitnessTurns BY <1>1, WitnessTickTurns
<1>5. ASSUME NEW x \in Proc, Crash(x) PROVE Crashes(x) BY <1>1, <1>5, CrashCrashes
<1>6. ASSUME NEW n \in Node,
             \/ DeliverHandover(n) \/ SetMaintenance(n, FALSE) \/ SetAutoMode(n)
             \/ DemoteSucceeds(n) \/ DemoteFails(n)
             \/ \E cmd \in Commands : GiveCommand(n, cmd)
      PROVE  FALSE
  BY <1>6 DEF DeliverHandover, SetMaintenance, SetAutoMode, DemoteSucceeds, DemoteFails,
              GiveCommand, Guarded, Facts, Basics, NoHandover, Steadfast
<1>7. ASSUME \/ \E n \in Node : ReceiveVote(n) \/ SetMaintenance(n, TRUE)
             \/ NewDay \/ \E x \in Proc : Restart(x)
             \/ \E S \in Breakdowns : Breaks(S) \/ Heals(S)
             \/ UNCHANGED vars
      PROVE  Idles
  BY <1>7, RestIdles
<1>8. ASSUME NEW n \in Node, NEW on \in BOOLEAN, SetMaintenance(n, on) PROVE Idles
  <2>1. CASE on = TRUE BY <1>7, <1>8, <2>1
  <2>2. CASE on = FALSE BY <1>6, <1>8, <2>2
  <2> QED BY <2>1, <2>2
<1>9. ASSUME NEW n \in Node,
             \/ NodeTick(n) \/ AnswerVote(n) \/ ReceiveVote(n) \/ DeliverHandover(n)
             \/ \E cmd \in Commands : GiveCommand(n, cmd)
             \/ \E on \in BOOLEAN : SetMaintenance(n, on)
             \/ SetAutoMode(n) \/ DemoteSucceeds(n) \/ DemoteFails(n)
      PROVE  NodeTurns(n) \/ Answers(n) \/ Idles
  BY <1>2, <1>3, <1>6, <1>7, <1>8, <1>9
<1>10. CASE Next BY <1>4, <1>5, <1>7, <1>9, <1>10 DEF Next
<1> QED BY <1>7, <1>10

\* What a turn changes of views, heartbeats and messages.
LEMMA TurnNet ==
  ASSUME TypeOK, NEW z \in Proc, Turn(z)
  PROVE  /\ \A x \in Proc : x # z =>
              /\ view'[x] = view[x] /\ beat'[x] = beat[x] /\ p'[x] = p[x]
              /\ \A y \in Proc : y # z => (<<y, x>> \in air' <=> <<y, x>> \in air)
         /\ view'[z] = Fresh(z) /\ \A y \in Proc : <<y, z>> \notin air'
         /\ \/ /\ p'[z] = p[z] /\ beat'[z] = beat[z]
               /\ \A y \in Proc : <<z, y>> \in air' => <<z, y>> \in air
            \/ beat'[z] = Heartbeat(z, p'[z], Fresh(z))
         /\ \A y \in Proc :
              \/ Fresh(z)[y] = view[z][y]
              \/ <<y, z>> \in air /\ Fresh(z)[y] = [heard |-> TRUE, age |-> 0, hb |-> beat[y]]
<1>1. /\ DOMAIN view = Proc /\ DOMAIN beat = Proc /\ DOMAIN p = Proc BY DEF TypeOK
<1>2. view' = [view EXCEPT ![z] = Fresh(z)] BY DEF Turn, Listens
<1>3. \A y \in Proc :
              \/ Fresh(z)[y] = view[z][y]
              \/ <<y, z>> \in air /\ Fresh(z)[y] = [heard |-> TRUE, age |-> 0, hb |-> beat[y]]
  BY DEF Fresh, Hear, Heard, Peers
<1>4. CASE Silent(z) BY <1>1, <1>2, <1>3, <1>4 DEF Silent, Received
<1>5. ASSUME NEW q, Speaks(z, q)
      PROVE  /\ \A x \in Proc : x # z =>
                  /\ beat'[x] = beat[x] /\ p'[x] = p[x]
                  /\ \A y \in Proc : y # z => (<<y, x>> \in air' <=> <<y, x>> \in air)
             /\ \A y \in Proc : <<y, z>> \notin air'
             /\ beat'[z] = Heartbeat(z, p'[z], Fresh(z))
  BY <1>1, <1>5 DEF Speaks, Received, Peers
<1> QED BY <1>1, <1>2, <1>3, <1>4, <1>5 DEF Turn

\* What a process sees after its tick is what it saw, or a heartbeat that came.
LEMMA Renewed ==
  ASSUME TypeOK, NEW z \in Proc, NEW y \in Proc, Turn(z)
  PROVE  \/ Fresh(z)[y] = view[z][y]
         \/ <<y, z>> \in air /\ Fresh(z)[y] = [heard |-> TRUE, age |-> 0, hb |-> beat[y]]
  BY TurnNet

\* A tick of n saves r and hands on d, or does not save.
LEMMA NodeEnds ==
  ASSUME TypeOK, Trio, NEW n \in Node, NodeTurns(n)
  PROVE  /\ Turn(n)
         /\ \A m \in Node : m # n => /\ p'[m] = p[m] /\ disk'[m] = disk[m]
                                     /\ carry'[m] = carry[m] /\ request'[m] = request[m]
                                     /\ IsActive(m)' <=> IsActive(m)
         /\ p'[Witness] = p[Witness] /\ disk'[Witness] = disk[Witness]
         /\ request'[n] = request[n] \/ Absent(Fresh(n)[Other(n)], Takeover)
         /\ \E r, d : /\ Decided(n, r, d)
                      /\ \/ /\ p'[n] = r /\ disk'[n] = r
                            /\ beat'[n] = Heartbeat(n, r, Fresh(n))
                            /\ carry'[n].mutualAge = d.mutualAge /\ carry'[n].vote = d.vote
                         \/ /\ p'[n] = p[n] /\ disk'[n] \in {disk[n], r}
                            /\ carry'[n] = carry[n] /\ beat'[n] = beat[n] /\ ~IsActive(n)'
                            /\ \A y \in Proc : <<n, y>> \in air' => <<n, y>> \in air
<1>1. /\ Node \subseteq Proc /\ Witness \notin Node /\ Witness \in Proc
      /\ DOMAIN p = Proc /\ DOMAIN disk = Proc
      /\ DOMAIN carry = Node /\ DOMAIN request = Node /\ DOMAIN unsaved = Node
      /\ DOMAIN booting = Node /\ DOMAIN beat = Proc
  BY Identities DEF TypeOK
<1>2. PICK r, d : Decided(n, r, d) /\ (Saved(n, r, d) \/ NotSaved(n, r)) BY DEF NodeTurns
<1>3. Listens(n) /\ UNCHANGED up BY DEF NodeTurns, Listens
<1>4. CASE Saved(n, r, d)
  <2>1. Turn(n) BY <1>3, <1>4 DEF Saved, Turn
  <2>2. \A m \in Node : m # n => /\ p'[m] = p[m] /\ disk'[m] = disk[m]
                                 /\ carry'[m] = carry[m] /\ request'[m] = request[m]
                                 /\ IsActive(m)' <=> IsActive(m)
    <3>1. ASSUME NEW m \in Node, m # n
          PROVE  /\ p'[m] = p[m] /\ disk'[m] = disk[m] /\ carry'[m] = carry[m]
                 /\ request'[m] = request[m] /\ unsaved'[m] = unsaved[m]
                 /\ booting'[m] = booting[m]
      BY <1>1, <1>4, <3>1 DEF Saved, Speaks
    <3> QED BY <1>3, <3>1 DEF IsActive
  <2>3. /\ p'[n] = r /\ disk'[n] = r /\ beat'[n] = Heartbeat(n, r, Fresh(n))
        /\ carry'[n] = Tidy(r, d)
    BY <1>1, <1>4 DEF Saved, Speaks
  <2>4. Tidy(r, d).mutualAge = d.mutualAge /\ Tidy(r, d).vote = d.vote
    <3>1. d \in Carry BY <1>2 DEF Decided
    <3>2. /\ [d EXCEPT !.hold = 0] \in Carry /\ [d EXCEPT !.hold = 0].mutualAge = d.mutualAge
          /\ [d EXCEPT !.hold = 0].vote = d.vote
      BY <3>1 DEF Carry
    <3>3. \A c \in Carry : /\ ClearHandover(c).mutualAge = c.mutualAge
                           /\ ClearHandover(c).vote = c.vote
      BY DEF Carry, ClearHandover
    <3> QED BY <3>1, <3>2, <3>3 DEF Tidy
  <2>5. request'[n] = request[n] \/ Absent(Fresh(n)[Other(n)], Takeover)
    BY <1>4 DEF Saved
  <2>6. p'[Witness] = p[Witness] /\ disk'[Witness] = disk[Witness]
    BY <1>1, <1>4 DEF Saved, Speaks
  <2> QED BY <1>2, <2>1, <2>2, <2>3, <2>4, <2>5, <2>6
<1>5. CASE NotSaved(n, r)
  <2>1. Turn(n) BY <1>3, <1>5 DEF NotSaved, Turn
  <2>2. UNCHANGED <<p, carry, booting, request, beat>> BY <1>5 DEF NotSaved, Silent
  <2>3. \A m \in Node : m # n => disk'[m] = disk[m] /\ unsaved'[m] = unsaved[m]
    BY <1>1, <1>5 DEF NotSaved
  <2>4. \A m \in Node : m # n => (IsActive(m)' <=> IsActive(m))
    BY <1>3, <2>2, <2>3 DEF IsActive
  <2>5. /\ disk' = disk \/ disk' = [disk EXCEPT ![n] = r]
        /\ unsaved' = [unsaved EXCEPT ![n] = TRUE]
    BY <1>5 DEF NotSaved
  <2>6. disk'[n] \in {disk[n], r} /\ unsaved'[n]
    BY <1>1, <2>5
  <2>7. disk'[Witness] = disk[Witness] BY <1>1, <2>5
  <2>8. ~IsActive(n)' BY <2>6 DEF IsActive
  <2>9. \A y \in Proc : <<n, y>> \in air' => <<n, y>> \in air
    BY <1>5 DEF NotSaved, Silent, Received
  <2> QED BY <1>2, <2>1, <2>2, <2>3, <2>4, <2>6, <2>7, <2>8, <2>9
<1> QED BY <1>2, <1>4, <1>5

\* The tick of n takes a term only as Won says; what it can take it could before.
LEMMA NodeTickOwnsWon ==
  ASSUME TypeOK, Trio, SavedTerms, NEW n \in Node, NodeTurns(n)
  PROVE  /\ \A x \in Nat : /\ Owns(n, x)' => Owns(n, x) \/ (x = granted[n] /\ Won(n))
                           /\ Bid(n, x)' => Bid(n, x)
         /\ \A m \in Node : m # n => \A x \in Nat : /\ Owns(m, x)' <=> Owns(m, x)
                                                    /\ Bid(m, x)' <=> Bid(m, x)
         /\ Won(n) => Bid(n, granted[n])
<1>1. PICK r, d : /\ Decided(n, r, d)
                  /\ \/ p'[n] = r /\ disk'[n] = r
                     \/ p'[n] = p[n] /\ disk'[n] \in {disk[n], r}
  BY NodeEnds
<1>2. p[n] \in Persisted /\ r \in Persisted BY <1>1, Identities DEF TypeOK, Decided
<1>3. Won(n) => Bid(n, granted[n]) BY DEF Won, Bid
<1>4. ASSUME NEW x \in Nat, Claims(r), r.term = x
      PROVE  Owns(n, x) \/ (x = granted[n] /\ Won(n))
  BY <1>1, <1>4 DEF Decided, Owns
<1>5. ASSUME NEW x \in Nat, Owns(n, x)' PROVE Owns(n, x) \/ (x = granted[n] /\ Won(n))
  <2>1. PICK q \in {p'[n], disk'[n]} : Claims(q) /\ q.term = x BY <1>5 DEF Owns, Claims
  <2>2. q = r \/ q \in {p[n], disk[n]} BY <1>1, <2>1
  <2> QED BY <1>4, <2>1, <2>2 DEF Owns
<1>6. p'[n].term >= p[n].term
  BY <1>1, <1>2 DEF Decided, Persisted
<1>7. ASSUME NEW x \in Nat, Bid(n, x)' PROVE Bid(n, x)
  <2>1. p[n].term \in Nat /\ p'[n].term \in Nat BY <1>1, <1>2 DEF Persisted
  <2>2. UNCHANGED ledger BY DEF NodeTurns
  <2>3. Owns(n, x)' \/ (<<x, n>> \in ledger /\ x > p'[n].term) BY <1>7, <2>2 DEF Bid
  <2>4. x > p'[n].term => x > p[n].term BY <1>6, <2>1
  <2> QED BY <1>3, <1>5, <2>3, <2>4 DEF Bid
<1>8. ASSUME NEW m \in Node, m # n, NEW x \in Nat
      PROVE  (Owns(m, x)' <=> Owns(m, x)) /\ (Bid(m, x)' <=> Bid(m, x))
  <2>1. p'[m] = p[m] /\ disk'[m] = disk[m] BY <1>8, NodeEnds
  <2>2. Owns(m, x)' <=> Owns(m, x) BY <2>1 DEF Owns
  <2>3. UNCHANGED ledger BY DEF NodeTurns
  <2> QED BY <2>1, <2>2, <2>3 DEF Bid
<1> QED BY <1>3, <1>5, <1>7, <1>8

\* Every other step raises no claim and makes nobody active.
LEMMA OthersCalm ==
  ASSUME Guarded, Facts, Basics,
         \/ \E n \in Node : Answers(n)
         \/ WitnessTurns \/ TickPasses \/ Idles
         \/ \E x \in Proc : Crashes(x)
  PROVE  Calm
<1> USE DEF Facts, Basics
<1>1. /\ Node \subseteq Proc /\ Witness \notin Node /\ DOMAIN p = Proc /\ DOMAIN disk = Proc
      /\ \A n \in Node : /\ p[n].term \in Nat /\ p[n].seq \in Nat /\ disk[n].term \in Nat
                         /\ disk[n].seq \in Nat /\ disk[n].term >= p[n].term
                         /\ disk[n].seq >= p[n].seq
  BY Identities DEF TypeOK, Persisted, SavedTerms, Hearsay
<1>2. ASSUME \A n \in Node :
               /\ \E q \in {p[n], disk[n]} : p'[n].role = q.role /\ p'[n].term = q.term
               /\ \E q \in {p[n], disk[n]} : disk'[n].role = q.role /\ disk'[n].term = q.term
      PROVE  \A n \in Node : \A x \in Nat : Owns(n, x)' => Owns(n, x)
  BY <1>2 DEF Owns, Claims
<1>3. ASSUME SameNodes, UNCHANGED <<up, booting, unsaved>> PROVE Calm
  <2>1. \A n \in Node : p'[n] = p[n] /\ disk'[n] = disk[n] BY <1>3 DEF SameNodes
  <2>2. \A n \in Node : IsActive(n)' => IsActive(n) BY <1>3, <2>1 DEF IsActive
  <2> QED BY <1>1, <1>2, <2>1, <2>2 DEF Calm
<1>4. ASSUME NEW n \in Node, Answers(n) PROVE Calm BY <1>3, <1>4 DEF Answers
<1>5. CASE WitnessTurns BY <1>3, <1>5 DEF WitnessTurns, Turn, Listens
<1>6. ASSUME NEW x \in Proc, Crashes(x) PROVE Calm
  <2>1. \A n \in Node : p'[n] \in {p[n], disk[n]} /\ disk'[n] = disk[n] /\ (n # x => p'[n] = p[n])
    BY <1>1, <1>6 DEF Crashes
  <2>2. ~up'[x] BY <1>6 DEF Crashes, TypeOK
  <2>3. \A n \in Node \ {x} : up'[n] = up[n] BY <1>6 DEF Crashes, TypeOK
  <2>4. \A n \in Node : IsActive(n)' => IsActive(n) /\ n # x
    BY <1>6, <2>1, <2>2, <2>3 DEF IsActive, Crashes
  <2> QED BY <1>1, <1>2, <2>1, <2>4 DEF Calm
<1>7. CASE TickPasses
  BY <1>3, <1>7 DEF TickPasses, SameNodes
<1>8. CASE Idles
  <2>1. \A n \in Node : p'[n].role = p[n].role /\ p'[n].term = p[n].term /\ p'[n].seq >= p[n].seq
    BY <1>1, <1>8 DEF Idles
  <2>2. \A n \in Node : \E q \in {p[n], disk[n]} : disk'[n].role = q.role /\ disk'[n].term = q.term
    BY <1>1, <1>8 DEF Idles
  <2>3. \A n \in Node : IsActive(n)' => IsActive(n) BY <1>8 DEF Idles
  <2> QED BY <1>1, <1>2, <2>1, <2>2, <2>3 DEF Calm
<1> QED BY <1>4, <1>5, <1>6, <1>7, <1>8

\* No demote is ever queued without an operator.
LEMMA SteadfastStep ==
  ASSUME Guarded, Facts, Basics, [Next]_vars
  PROVE  Steadfast'
<1> USE DEF nodeVars, netVars, voteVars, swapVars
<1>1. \A n \in Node : real[n] /\ demotes[n] = <<>> BY DEF Basics, Steadfast
<1>2. ASSUME UNCHANGED <<real, demotes>> PROVE Steadfast' BY <1>1, <1>2 DEF Steadfast
<1>3. ASSUME NEW n \in Node, NodeTick(n) PROVE Steadfast'
  <2>1. NodeTurns(n) BY <1>3, NodeTickTurns DEF Facts, Basics, Guarded
  <2> QED BY <1>2, <2>1 DEF NodeTurns
<1>4. ASSUME NEW x \in Proc, Crash(x) PROVE Steadfast'
  <2>1. UNCHANGED demotes \/ demotes' = [demotes EXCEPT ![x] = <<>>] BY <1>4 DEF Crash
  <2>2. UNCHANGED real /\ DOMAIN demotes = Node BY <1>4 DEF Crash, Facts, TypeOK
  <2>3. \A n \in Node : demotes'[n] = <<>> BY <1>1, <2>1, <2>2
  <2> QED BY <1>1, <2>2, <2>3 DEF Steadfast
<1>5. ASSUME \/ \E n \in Node :
                  \/ AnswerVote(n) \/ ReceiveVote(n) \/ DeliverHandover(n)
                  \/ \E cmd \in Commands : GiveCommand(n, cmd)
                  \/ \E on \in BOOLEAN : SetMaintenance(n, on)
             \/ WitnessTick \/ NewDay \/ TickPasses \/ UNCHANGED vars
             \/ \E x \in Proc : Restart(x)
             \/ \E S \in Breakdowns : Breaks(S) \/ Heals(S)
      PROVE  Steadfast'
  <2>1. ASSUME NEW n \in Node, AnswerVote(n) \/ ReceiveVote(n) \/ DeliverHandover(n)
        PROVE  UNCHANGED <<real, demotes>>
    BY <2>1 DEF AnswerVote, ReceiveVote, DeliverHandover
  <2>2. ASSUME NEW n \in Node, NEW cmd, GiveCommand(n, cmd)
        PROVE  UNCHANGED <<real, demotes>>
    BY <2>2 DEF GiveCommand
  <2>3. ASSUME NEW n \in Node, NEW on, SetMaintenance(n, on)
        PROVE  UNCHANGED <<real, demotes>>
    BY <2>3 DEF SetMaintenance
  <2>4. ASSUME WitnessTick \/ NewDay \/ TickPasses \/ UNCHANGED vars
        PROVE  UNCHANGED <<real, demotes>>
    BY <2>4 DEF WitnessTick, NewDay, TickPasses, vars
  <2>5. ASSUME NEW x, Restart(x) PROVE UNCHANGED <<real, demotes>> BY <2>5 DEF Restart
  <2>6. ASSUME NEW S, Breaks(S) \/ Heals(S) PROVE UNCHANGED <<real, demotes>>
    BY <2>6 DEF Breaks, Heals
  <2>7. UNCHANGED <<real, demotes>> BY <1>5, <2>1, <2>2, <2>3, <2>4, <2>5, <2>6
  <2> QED BY <1>2, <2>7
<1>6. ASSUME NEW n \in Node, SetAutoMode(n) \/ DemoteSucceeds(n) \/ DemoteFails(n)
      PROVE  FALSE
  <2>1. "auto" \notin Commands BY DEF Guarded
  <2>2. ~SetAutoMode(n) BY <2>1 DEF SetAutoMode
  <2>3. ~DemoteSucceeds(n) BY <1>1 DEF DemoteSucceeds
  <2>4. ~DemoteFails(n) BY <1>1 DEF DemoteFails
  <2> QED BY <1>6, <2>2, <2>3, <2>4
<1> QED BY <1>3, <1>4, <1>5, <1>6 DEF Next

\* The new state of a node that ticks.
LEMMA NodeEndsBasics ==
  ASSUME Facts, Basics, Trio, NEW n \in Node, NodeTurns(n)
  PROVE  /\ Turn(n) /\ Steady(p'[n]) /\ Steady(disk'[n])
         /\ p'[n].seq >= p[n].seq /\ disk'[n].seq >= p'[n].seq
         /\ Claims(p'[n]) => carry'[n].vote <= p'[n].term
         /\ carry'[n].mutualAge <= FenceAfter
<1> USE DEF Facts, Basics
<1>1. PICK r, d : /\ Decided(n, r, d)
                  /\ \/ /\ p'[n] = r /\ disk'[n] = r
                        /\ carry'[n].mutualAge = d.mutualAge /\ carry'[n].vote = d.vote
                     \/ /\ p'[n] = p[n] /\ disk'[n] \in {disk[n], r} /\ carry'[n] = carry[n]
  BY NodeEnds
<1>2. Turn(n) BY NodeEnds
<1>3. n \in Proc /\ p[n] \in Persisted /\ disk[n] \in Persisted /\ r \in Persisted
  BY <1>1, Identities DEF TypeOK, Decided
<1>4. /\ p[n].seq \in Nat /\ disk[n].seq \in Nat /\ r.seq \in Nat /\ r.seq >= p[n].seq
      /\ disk[n].seq >= p[n].seq
  BY <1>1, <1>3 DEF Persisted, Decided, Hearsay
<1>5. Steady(p[n]) /\ Steady(disk[n]) /\ Steady(r) BY <1>1, <1>3 DEF SteadyAll, Decided
<1>6. /\ Claims(p[n]) => carry[n].vote <= p[n].term
      /\ Claims(r) => d.vote <= r.term
  BY <1>1 DEF NoVote, Decided
<1>7. carry[n].mutualAge <= FenceAfter /\ d.mutualAge <= FenceAfter
  BY <1>1, ConstantsAssumption DEF MutualAges, Decided, ConstantsAssumption
<1> QED BY <1>1, <1>2, <1>4, <1>5, <1>6, <1>7

\* Maintenance as it is heard.
LEMMA TurnSteady ==
  ASSUME TypeOK, SteadyAll, NEW z \in Proc, Turn(z), Steady(p'[z])
  PROVE  \A x \in Proc : Steady(beat'[x]) /\ \A y \in Proc : Steady(view'[y][x].hb)
<1>1. ASSUME NEW x \in Proc PROVE Steady(beat'[x])
  <2>1. Steady(Heartbeat(z, p'[z], Fresh(z))) BY DEF Steady, Heartbeat
  <2>2. beat'[x] = beat[x] \/ (x = z /\ beat'[z] = Heartbeat(z, p'[z], Fresh(z)))
    BY TurnNet
  <2> QED BY <2>1, <2>2 DEF SteadyAll
<1>2. ASSUME NEW x \in Proc, NEW y \in Proc PROVE Steady(view'[y][x].hb)
  <2>1. CASE y # z
    <3>1. view'[y] = view[y] BY <2>1, TurnNet
    <3> QED BY <3>1 DEF SteadyAll
  <2>2. CASE y = z
    <3>1. view'[z] = Fresh(z) BY TurnNet
    <3>2. \/ Fresh(z)[x] = view[z][x]
          \/ Fresh(z)[x] = [heard |-> TRUE, age |-> 0, hb |-> beat[x]]
      BY Renewed
    <3>3. Fresh(z)[x].hb = view[z][x].hb \/ Fresh(z)[x].hb = beat[x] BY <3>2
    <3> QED BY <2>2, <3>1, <3>3 DEF SteadyAll
  <2> QED BY <2>1, <2>2
<1> QED BY <1>1, <1>2

\* What time does to ages and carries.
LEMMA Passing ==
  ASSUME TypeOK, TickPasses
  PROVE  /\ UNCHANGED <<p, disk, beat, up, unsaved, booting, ledger>>
         /\ ticked' = {} /\ \A x \in Proc : up[x] => x \in ticked
         /\ \A x, y \in Proc : <<x, y>> \in air' => <<x, y>> \in air /\ up[y]
         /\ \A x, y \in Proc :
              /\ view'[x][y].heard = view[x][y].heard /\ view'[x][y].hb = view[x][y].hb
              /\ view'[x][y].age = IF up[x] /\ y # x
                                   THEN Older(view[x][y].age, AgeCap(y)) ELSE view[x][y].age
         /\ \A n \in Node : /\ carry'[n].vote = carry[n].vote
                            /\ carry'[n].mutualAge = IF up[n] THEN Older(carry[n].mutualAge, FenceAfter)
                                                     ELSE carry[n].mutualAge
                            /\ request'[n] = Delayed(request[n])
<1>1. /\ UNCHANGED <<p, disk, beat, up, unsaved, booting, ledger>>
      /\ ticked' = {} /\ \A x \in Proc : up[x] => x \in ticked
      /\ \A x, y \in Proc : <<x, y>> \in air' => <<x, y>> \in air /\ up[y]
      /\ \A n \in Node : request'[n] = Delayed(request[n])
  BY DEF TickPasses
<1>2. \A o \in Obs : \A k : /\ [o EXCEPT !.age = k].hb = o.hb /\ [o EXCEPT !.age = k].age = k
                            /\ [o EXCEPT !.age = k].heard = o.heard
  BY DEF Obs
<1>3. ASSUME NEW x \in Proc, NEW y \in Proc
      PROVE  /\ view'[x][y].heard = view[x][y].heard /\ view'[x][y].hb = view[x][y].hb
             /\ view'[x][y].age = IF up[x] /\ y # x
                                  THEN Older(view[x][y].age, AgeCap(y)) ELSE view[x][y].age
  <2>1. view[x][y] \in Obs BY DEF TypeOK
  <2>2. view'[x][y] = IF up[x] /\ y # x
                      THEN [view[x][y] EXCEPT !.age = Older(view[x][y].age, AgeCap(y))]
                      ELSE view[x][y]
    BY DEF TickPasses
  <2> QED BY <1>2, <2>1, <2>2
<1>4. \A c \in Carry : /\ Aged(c).vote = c.vote
                       /\ Aged(c).mutualAge = Older(c.mutualAge, FenceAfter)
  BY DEF Carry, Aged
<1>5. ASSUME NEW n \in Node
      PROVE  /\ carry'[n].vote = carry[n].vote
             /\ carry'[n].mutualAge = IF up[n] THEN Older(carry[n].mutualAge, FenceAfter)
                                      ELSE carry[n].mutualAge
  <2>1. carry'[n] = IF up[n] THEN Aged(carry[n]) ELSE carry[n] BY DEF TickPasses
  <2>2. carry[n] \in Carry BY DEF TypeOK
  <2> QED BY <1>4, <2>1, <2>2
<1> QED BY <1>1, <1>3, <1>5

\* Maintenance once switched on stays on, in memory, files and heartbeats.
LEMMA SteadyAllStep ==
  ASSUME Guarded, Facts, Basics, [Next]_vars
  PROVE  SteadyAll'
<1> USE DEF Facts, Basics
<1>1. /\ Trio /\ Proc = Node \cup {Witness} /\ Witness \notin Node
  BY TrioProc DEF Guarded
<1>2. \A z \in Proc : /\ Steady(p[z]) /\ Steady(disk[z]) /\ Steady(beat[z])
                      /\ \A y \in Proc : Steady(view[y][z].hb)
  BY DEF SteadyAll
<1>3. ASSUME NEW n \in Node, NodeTurns(n) PROVE SteadyAll'
  <2>1. Turn(n) /\ Steady(p'[n]) /\ Steady(disk'[n]) BY <1>1, <1>3, NodeEndsBasics
  <2>2. \A x \in Proc : Steady(beat'[x]) /\ \A y \in Proc : Steady(view'[y][x].hb)
    BY <1>1, <2>1, TurnSteady
  <2>3. \A x \in Proc : x # n => p'[x] = p[x] /\ disk'[x] = disk[x]
    BY <1>1, <1>3, NodeEnds
  <2>4. \A x \in Proc : Steady(p'[x]) /\ Steady(disk'[x]) BY <1>2, <2>1, <2>3
  <2> QED BY <2>2, <2>4 DEF SteadyAll
<1>4. ASSUME SameNodes, WitnessFile,
             Turn(Witness) \/ UNCHANGED <<view, beat>>
      PROVE  SteadyAll'
  <2>1. \A x \in Proc : Steady(p'[x]) /\ Steady(disk'[x])
    BY <1>1, <1>2, <1>4 DEF SameNodes, WitnessFile
  <2>2. \A x \in Proc : Steady(beat'[x]) /\ \A y \in Proc : Steady(view'[y][x].hb)
    <3>1. CASE Turn(Witness) BY <1>1, <2>1, <3>1, TurnSteady
    <3>2. CASE UNCHANGED <<view, beat>> BY <1>2, <3>2
    <3> QED BY <1>4, <3>1, <3>2
  <2> QED BY <2>1, <2>2 DEF SteadyAll
<1>5. ASSUME NEW x \in Proc, Crashes(x) PROVE SteadyAll'
  <2>1. Steady(NeverSeen.hb) BY DEF NeverSeen, NoBeat, Steady
  <2>2. /\ p' = [p EXCEPT ![x] = disk[x]] /\ UNCHANGED <<disk, beat>>
        /\ view' = [view EXCEPT ![x] = [y \in Proc |-> NeverSeen]]
    BY <1>5 DEF Crashes
  <2>3. DOMAIN p = Proc /\ DOMAIN view = Proc BY DEF TypeOK
  <2>4. \A z \in Proc : p'[z] \in {p[z], disk[z]} BY <2>2, <2>3
  <2>5. \A z, y \in Proc : view'[y][z] = view[y][z] \/ view'[y][z] = NeverSeen
    BY <2>2, <2>3
  <2> QED BY <1>2, <2>1, <2>2, <2>4, <2>5 DEF SteadyAll
<1>6. CASE TickPasses
  <2>1. UNCHANGED <<p, disk, beat>> BY <1>6, Passing
  <2>2. \A z, y \in Proc : view'[y][z].hb = view[y][z].hb BY <1>6, Passing
  <2> QED BY <1>2, <2>1, <2>2 DEF SteadyAll
<1>7. CASE Idles BY <1>2, <1>7 DEF Idles, SteadyAll
<1>8. WitnessTurns => SteadyAll' BY <1>4 DEF WitnessTurns
<1>9. ASSUME NEW n \in Node, Answers(n) PROVE SteadyAll' BY <1>4, <1>9 DEF Answers
<1> QED BY <1>3, <1>5, <1>6, <1>7, <1>8, <1>9, Steps

\* A node that claims its term has no newer vote pending, and its age in mutual sight is capped.
LEMMA VoteAgeStep ==
  ASSUME Guarded, Facts, Basics, [Next]_vars
  PROVE  NoVote' /\ MutualAges'
<1> USE DEF Facts, Basics
<1>1. /\ Trio /\ FenceAfter \in Nat /\ Node \subseteq Proc /\ Witness \notin Node
  BY ConstantsAssumption, Identities DEF Guarded, ConstantsAssumption
<1>2. \A n \in Node : /\ Claims(p[n]) => carry[n].vote <= p[n].term
                      /\ carry[n].mutualAge <= FenceAfter
                      /\ carry[n].mutualAge \in Nat
                      /\ p[n].term \in Nat /\ disk[n].term \in Nat
  BY <1>1 DEF NoVote, MutualAges, TypeOK, Carry, Persisted
<1>3. ASSUME NEW n \in Node, NodeTurns(n) PROVE NoVote' /\ MutualAges'
  <2>1. \A m \in Node : m # n => p'[m] = p[m] /\ carry'[m] = carry[m] BY <1>1, <1>3, NodeEnds
  <2>2. /\ Claims(p'[n]) => carry'[n].vote <= p'[n].term
        /\ carry'[n].mutualAge <= FenceAfter
    BY <1>1, <1>3, NodeEndsBasics
  <2>3. \A m \in Node : /\ Claims(p'[m]) => carry'[m].vote <= p'[m].term
                        /\ carry'[m].mutualAge <= FenceAfter
    BY <1>2, <2>1, <2>2
  <2> QED BY <2>3 DEF NoVote, MutualAges, Claims
<1>4. ASSUME UNCHANGED carry, \A n \in Node : p'[n].role = p[n].role /\ p'[n].term = p[n].term
      PROVE  NoVote' /\ MutualAges'
  BY <1>2, <1>4 DEF NoVote, MutualAges, Claims
<1>5. ASSUME NEW x \in Proc, Crashes(x) PROVE NoVote' /\ MutualAges'
  <2>1. \A n \in Node : n # x => p'[n] = p[n] /\ carry'[n] = carry[n]
    BY <1>1, <1>5 DEF Crashes, TypeOK
  <2>2. x \in Node => carry'[x] = NoCarry /\ p'[x] = disk[x]
    BY <1>1, <1>5 DEF Crashes, TypeOK
  <2>3. NoCarry.vote = 0 /\ NoCarry.mutualAge = 0 BY DEF NoCarry
  <2> QED BY <1>1, <1>2, <2>1, <2>2, <2>3 DEF NoVote, MutualAges, Claims
<1>6. CASE TickPasses
  <2>1. \A i \in Nat : Older(i, FenceAfter) <= FenceAfter BY <1>1 DEF Older
  <2>2. /\ UNCHANGED p
        /\ \A n \in Node : /\ carry'[n].vote = carry[n].vote
                           /\ carry'[n].mutualAge \in {Older(carry[n].mutualAge, FenceAfter), carry[n].mutualAge}
    BY <1>6, Passing
  <2> QED BY <1>2, <2>1, <2>2 DEF NoVote, MutualAges, Claims
<1>7. CASE Idles BY <1>1, <1>4, <1>7 DEF Idles
<1>8. WitnessTurns => NoVote' /\ MutualAges' BY <1>4 DEF WitnessTurns, SameNodes
<1>9. ASSUME NEW n \in Node, Answers(n) PROVE NoVote' /\ MutualAges'
  BY <1>4, <1>9 DEF Answers, SameNodes
<1> QED BY <1>3, <1>5, <1>6, <1>7, <1>8, <1>9, Steps

\* A process that is down sees nobody.
LEMMA DownStep ==
  ASSUME Guarded, Facts, Basics, [Next]_vars
  PROVE  Down'
<1> USE DEF Facts, Basics
<1>1. /\ Trio /\ Node \subseteq Proc /\ Witness \in Proc BY Identities DEF Guarded
<1>2. \A x, y \in Proc : ~up[x] => view[x][y] = NeverSeen BY DEF Down
<1>3. ASSUME NEW z \in Proc, Turn(z) PROVE Down'
  <2>1. up[z] /\ UNCHANGED up /\ view' = [view EXCEPT ![z] = Fresh(z)]
    BY <1>3 DEF Turn, Listens
  <2>2. \A x \in Proc : x # z => view'[x] = view[x] BY <2>1 DEF TypeOK
  <2> QED BY <1>2, <2>1, <2>2 DEF Down
<1>4. ASSUME NEW x \in Proc, Crashes(x) PROVE Down'
  <2>1. /\ up' = [up EXCEPT ![x] = FALSE]
        /\ view' = [view EXCEPT ![x] = [y \in Proc |-> NeverSeen]]
    BY <1>4 DEF Crashes
  <2>2. DOMAIN up = Proc /\ DOMAIN view = Proc BY DEF TypeOK
  <2>3. \A y \in Proc : view'[x][y] = NeverSeen BY <2>1, <2>2
  <2>4. \A y \in Proc : y # x => view'[y] = view[y] /\ up'[y] = up[y] BY <2>1, <2>2
  <2> QED BY <1>2, <2>3, <2>4 DEF Down
<1>5. CASE TickPasses
  <2>1. UNCHANGED up /\ \A x, y \in Proc : ~up[x] => view'[x][y] = view[x][y]
    BY <1>5 DEF TickPasses
  <2> QED BY <1>2, <2>1 DEF Down
<1>6. CASE Idles BY <1>2, <1>6 DEF Idles, Down
<1>7. ASSUME NEW n \in Node, Answers(n) PROVE Down' BY <1>2, <1>7 DEF Answers, Down
<1>8. ASSUME NEW n \in Node, NodeTurns(n) PROVE Down' BY <1>1, <1>3, <1>8, NodeEnds
<1>9. WitnessTurns => Down' BY <1>1, <1>3 DEF WitnessTurns
<1> QED BY <1>4, <1>5, <1>6, <1>7, <1>8, <1>9, Steps

\* Each vote is in the witness' book, across its crashes and failed saves.
LEMMA BookKept ==
  ASSUME Guarded, Facts, Basics, [Next]_vars
  PROVE  Book'
<1> USE DEF Facts, Basics
<1>1. /\ Trio /\ Witness \in Proc /\ Witness \notin Node /\ Nobody \notin Node
      /\ p[Witness] \in Persisted /\ DOMAIN p = Proc
  BY Identities DEF Guarded, TypeOK
<1>2. /\ p[Witness].term \in Nat /\ p[Witness].votedTerm \in Nat /\ p[Witness].term >= 1
      /\ ledger \subseteq Nat \X Node
      /\ disk[Witness].votedTerm \in Nat /\ disk[Witness].votedTerm >= p[Witness].votedTerm
      /\ disk[Witness].term \in Nat /\ disk[Witness].term >= p[Witness].term
      /\ Filed(p[Witness]) /\ Filed(disk[Witness])
      /\ \A v \in ledger : v[1] > 1 /\ v[1] <= p[Witness].votedTerm
  BY <1>1 DEF Persisted, TypeOK, Book, SavedTerms
<1>3. ASSUME UNCHANGED ledger, SameBook(Witness), p'[Witness].term >= p[Witness].term,
             p'[Witness].term \in Nat, OnFile(p[Witness]) \/ OnFile(disk[Witness])
      PROVE  Book'
  <2>1. p'[Witness].term >= 1 BY <1>2, <1>3
  <2>2. Filed(p'[Witness]) /\ Filed(disk'[Witness])
    BY <1>2, <1>3 DEF SameBook, OnFile, Filed
  <2>3. disk'[Witness].votedTerm >= p'[Witness].votedTerm BY <1>2, <1>3 DEF SameBook, OnFile
  <2>4. \A v \in ledger' : v[1] > 1 /\ v[1] <= p'[Witness].votedTerm
    BY <1>2, <1>3 DEF SameBook
  <2> QED BY <2>1, <2>2, <2>3, <2>4 DEF Book
<1>4. ASSUME UNCHANGED ledger, p'[Witness] = p[Witness], OnFile(disk[Witness])
      PROVE  Book'
  BY <1>2, <1>3, <1>4 DEF SameBook
<1>5. ASSUME NEW n \in Node, NodeTurns(n) PROVE Book'
  BY <1>1, <1>2, <1>4, <1>5, NodeEnds DEF NodeTurns, OnFile
<1>6. CASE WitnessTurns
  <2>1. p'[Witness].term \in Nat BY <1>6 DEF WitnessTurns, Persisted
  <2> QED BY <1>3, <1>6, <2>1 DEF WitnessTurns
<1>7. ASSUME NEW n \in Node, Answers(n) PROVE Book'
  <2> DEFINE t == request[n].term
             q == Voted(n, t)
  <2>1. ASSUME Grants(n, t)
        PROVE  /\ q.votedTerm = t /\ q.votedFor = n /\ t \in Nat /\ n # Nobody
               /\ t > 1 /\ t >= p[Witness].votedTerm /\ q.term >= 1
    <3>1. t \in Nat BY DEF TypeOK, Letter
    <3>2. q.votedTerm = t /\ q.votedFor = n BY <1>1, <3>1, VotedTypes DEF Later
    <3>3. q.term = Larger(p[Witness].term, t) BY <1>1 DEF Voted, Persisted
    <3>4. q.term >= 1
      <4>1. /\ Larger(p[Witness].term, t) \in Nat
            /\ Larger(p[Witness].term, t) >= p[Witness].term
        BY <1>2, <3>1, LargerNat
      <4> HIDE DEF q, t
      <4> QED BY <1>2, <3>3, <4>1
    <3>5. /\ Larger(p[Witness].votedTerm, p[Witness].term) \in Nat
          /\ Larger(p[Witness].votedTerm, p[Witness].term) >= p[Witness].votedTerm
          /\ Larger(p[Witness].votedTerm, p[Witness].term) >= p[Witness].term
      BY <1>2, LargerNat
    <3>6. \/ t > Larger(p[Witness].votedTerm, p[Witness].term)
          \/ t = p[Witness].votedTerm /\ n = p[Witness].votedFor
      BY <2>1 DEF Grants
    <3>7. n # Nobody BY <1>1
    <3> HIDE DEF q, t
    <3>8. t >= p[Witness].votedTerm BY <1>2, <3>1, <3>5, <3>6
    <3>9. t > 1
      <4>1. CASE n = p[Witness].votedFor /\ t = p[Witness].votedTerm
        BY <1>2, <3>7, <4>1 DEF Filed
      <4>2. CASE t > Larger(p[Witness].votedTerm, p[Witness].term)
        BY <1>2, <3>1, <3>5, <4>2
      <4> QED BY <3>6, <4>1, <4>2
    <3> QED BY <3>1, <3>2, <3>4, <3>7, <3>8, <3>9
  <2>2. CASE UNCHANGED ledger /\ p'[Witness] = p[Witness] /\ OnFile(disk[Witness])
    BY <1>4, <2>2
  <2>3. CASE UNCHANGED ledger /\ p'[Witness] = p[Witness] /\ Grants(n, t) /\ disk'[Witness] = q
    <3> HIDE DEF q, t
    <3> QED BY <1>2, <2>1, <2>3 DEF Book, Filed
  <2>4. CASE /\ Grants(n, t) /\ p'[Witness] = q /\ disk'[Witness] = p'[Witness]
             /\ ledger' = ledger \cup {<<t, n>>}
    <3> HIDE DEF q, t
    <3>1. ASSUME NEW v \in ledger' PROVE v[1] > 1 /\ v[1] <= t
      <4>1. CASE v = <<t, n>> BY <2>1, <2>4, <4>1
      <4>2. CASE v \in ledger
        <5>1. v[1] \in Nat /\ v[1] > 1 /\ v[1] <= p[Witness].votedTerm
          BY <1>2, <4>2
        <5> QED BY <1>2, <2>1, <2>4, <5>1
      <4> QED BY <2>4, <4>1, <4>2
    <3> QED BY <2>1, <2>4, <3>1 DEF Book, Filed
  <2> QED BY <1>7, <2>2, <2>3, <2>4 DEF Answers
<1>8. ASSUME NEW x \in Proc, Crashes(x) PROVE Book'
  <2>1. p' = [p EXCEPT ![x] = disk[x]] /\ UNCHANGED <<disk, ledger>> BY <1>8 DEF Crashes
  <2>2. CASE x # Witness BY <1>1, <1>2, <1>4, <2>1, <2>2 DEF OnFile
  <2>3. CASE x = Witness
    <3>1. p'[Witness] = disk[Witness] /\ disk'[Witness] = disk[Witness] /\ ledger' = ledger
      BY <1>1, <2>1, <2>3
    <3>2. \A v \in ledger : v[1] > 1 /\ v[1] <= disk[Witness].votedTerm
      <4> SUFFICES ASSUME NEW v \in ledger PROVE v[1] > 1 /\ v[1] <= disk[Witness].votedTerm
        OBVIOUS
      <4>1. v[1] \in Nat /\ v[1] > 1 /\ v[1] <= p[Witness].votedTerm BY <1>2
      <4> QED BY <1>2, <4>1
    <3>3. disk[Witness].term >= 1 BY <1>2
    <3> QED BY <1>2, <3>1, <3>2, <3>3 DEF Book
  <2> QED BY <2>2, <2>3
<1>9. CASE TickPasses BY <1>2, <1>4, <1>9, Passing DEF OnFile
<1>10. CASE Idles
  <2>1. SameBook(Witness) /\ p'[Witness].term = p[Witness].term BY <1>1, <1>10 DEF Idles
  <2>2. UNCHANGED ledger /\ OnFile(disk[Witness]) BY <1>10 DEF Idles
  <2> QED BY <1>2, <1>3, <2>1, <2>2
<1> QED BY <1>5, <1>6, <1>7, <1>8, <1>9, <1>10, Steps

\* The numbers of a process that is not restarted with less: they rise.
LEMMA Growing ==
  ASSUME Guarded, Facts, Facts', Basics, [Next]_vars, NEW z \in Proc
  PROVE  /\ p[z].term \in Nat /\ p'[z].term \in Nat /\ p'[z].term >= p[z].term
         /\ p[z].seq \in Nat /\ p'[z].seq \in Nat /\ p'[z].seq >= p[z].seq
         /\ disk'[z].seq >= p'[z].seq
         /\ Top(z) \in Nat /\ Top(z)' \in Nat /\ Top(z)' >= Top(z) /\ Top(z)' >= p'[z].term
<1> USE DEF Facts, Basics
<1>1. /\ Trio /\ Proc = Node \cup {Witness} /\ Witness \notin Node
  BY TrioProc DEF Guarded
<1>2. /\ p[z] \in Persisted /\ p'[z] \in Persisted /\ disk[z] \in Persisted
      /\ disk'[z] \in Persisted
  BY DEF TypeOK
<1>3. /\ p[z].term \in Nat /\ p'[z].term \in Nat /\ p[z].seq \in Nat /\ p'[z].seq \in Nat
      /\ p[z].votedTerm \in Nat /\ p'[z].votedTerm \in Nat /\ disk[z].seq \in Nat
      /\ disk'[z].seq \in Nat
  BY <1>2 DEF Persisted
<1>4. p'[z].term >= p[z].term BY TermsGrow DEF Grows
<1>5. disk[z].seq >= p[z].seq BY DEF Hearsay
<1>6. p'[z].seq >= p[z].seq /\ disk'[z].seq >= p'[z].seq
  <2>1. ASSUME NEW n \in Node, NodeTurns(n) PROVE p'[z].seq >= p[z].seq /\ disk'[z].seq >= p'[z].seq
    <3>1. p'[n].seq >= p[n].seq /\ disk'[n].seq >= p'[n].seq BY <1>1, <2>1, NodeEndsBasics
    <3>2. z # n => p'[z] = p[z] /\ disk'[z] = disk[z] BY <1>1, <2>1, NodeEnds
    <3> QED BY <1>3, <1>5, <3>1, <3>2
  <2>2. ASSUME SameNodes, WitnessFile PROVE p'[z].seq >= p[z].seq /\ disk'[z].seq >= p'[z].seq
    BY <1>1, <1>3, <1>5, <2>2 DEF SameNodes, WitnessFile
  <2>3. WitnessTurns => p'[z].seq >= p[z].seq /\ disk'[z].seq >= p'[z].seq
    BY <2>2 DEF WitnessTurns
  <2>4. ASSUME NEW n \in Node, Answers(n) PROVE p'[z].seq >= p[z].seq /\ disk'[z].seq >= p'[z].seq
    BY <2>2, <2>4 DEF Answers
  <2>5. ASSUME NEW x \in Proc, Crashes(x) PROVE p'[z].seq >= p[z].seq /\ disk'[z].seq >= p'[z].seq
    <3>1. p'[z] \in {p[z], disk[z]} /\ disk'[z] = disk[z] BY <2>5 DEF Crashes, TypeOK
    <3> QED BY <1>3, <1>5, <3>1
  <2>6. TickPasses => p'[z].seq >= p[z].seq /\ disk'[z].seq >= p'[z].seq
    BY <1>3, <1>5, Passing
  <2>7. Idles => p'[z].seq >= p[z].seq /\ disk'[z].seq >= p'[z].seq BY DEF Idles
  <2> QED BY <2>1, <2>3, <2>4, <2>5, <2>6, <2>7, Steps
<1>7. z = Witness => p'[z].votedTerm >= p[z].votedTerm
  <2> SUFFICES ASSUME z = Witness PROVE p'[z].votedTerm >= p[z].votedTerm OBVIOUS
  <2>1. SameBook(z) => p'[z].votedTerm >= p[z].votedTerm BY <1>3 DEF SameBook
  <2>2. ASSUME NEW n \in Node, Answers(n) PROVE p'[z].votedTerm >= p[z].votedTerm
    <3> DEFINE t == request[n].term
    <3>1. CASE p'[z] = p[z] BY <2>1, <3>1 DEF SameBook
    <3>2. CASE Grants(n, t) /\ p'[z] = Voted(n, t)
      <4>1. t \in Nat BY DEF TypeOK, Letter
      <4>2. Voted(n, t).votedTerm = t BY <1>1, <4>1, VotedTypes
      <4>3. /\ Larger(p[z].votedTerm, p[z].term) \in Nat
            /\ Larger(p[z].votedTerm, p[z].term) >= p[z].votedTerm
        BY <1>3, LargerNat
      <4>4. t > Larger(p[z].votedTerm, p[z].term) \/ t = p[z].votedTerm
        BY <3>2 DEF Grants
      <4>5. t >= p[z].votedTerm BY <1>3, <4>1, <4>3, <4>4
      <4> QED BY <3>2, <4>2, <4>5
    <3> QED BY <2>2, <3>1, <3>2 DEF Answers
  <2>3. ASSUME NEW n \in Node, NodeTurns(n) PROVE SameBook(z)
    BY <1>1, <2>3, NodeEnds DEF SameBook
  <2>4. WitnessTurns => SameBook(z) BY DEF WitnessTurns
  <2>5. ASSUME NEW x \in Proc, Crashes(x) PROVE p'[z].votedTerm >= p[z].votedTerm
    <3>1. p'[z] \in {p[z], disk[z]} BY <2>5 DEF Crashes, TypeOK
    <3>2. disk[z].votedTerm >= p[z].votedTerm BY DEF Book
    <3> QED BY <1>3, <3>1, <3>2
  <2>6. TickPasses => SameBook(z) BY Passing DEF SameBook
  <2>7. Idles => SameBook(z) BY DEF Idles
  <2> QED BY <2>1, <2>2, <2>3, <2>4, <2>5, <2>6, <2>7, Steps
<1>8. Top(z) \in Nat /\ Top(z)' \in Nat /\ Top(z)' >= Top(z) /\ Top(z)' >= p'[z].term
  BY <1>3, <1>4, <1>7 DEF Top, Larger
<1> QED BY <1>3, <1>4, <1>6, <1>8

-----------------------------------------------------------------------------
(* What is heard of a process is behind that process                       *)

\* The heartbeats of z: sent in its turn, of what it saved, and heard as sent.
LEMMA NetStep ==
  ASSUME Guarded, Facts, Basics, [Next]_vars, NEW z \in Proc
  PROVE  /\ \/ beat'[z] = beat[z] /\ \A y \in Proc : <<z, y>> \in air' => <<z, y>> \in air
            \/ /\ beat'[z] = Heartbeat(z, p'[z], Fresh(z)) /\ Turn(z)
               /\ disk'[z] = p'[z]
               /\ z \in Node => NodeTurns(z)
               /\ z = Witness => WitnessTurns
         /\ \A y \in Proc :
              \/ view'[y][z].heard = view[y][z].heard /\ view'[y][z].hb = view[y][z].hb
              \/ view'[y][z] = NeverSeen
              \/ <<z, y>> \in air /\ view'[y][z] = [heard |-> TRUE, age |-> 0, hb |-> beat[z]]
<1> USE DEF Facts, Basics
<1>1. /\ Trio /\ Proc = Node \cup {Witness} /\ Witness \notin Node
      /\ DOMAIN view = Proc /\ \A y \in Proc : DOMAIN view[y] = Proc
  BY TrioProc DEF Guarded, TypeOK
<1> DEFINE Kept1 == beat'[z] = beat[z] /\ \A y \in Proc : <<z, y>> \in air' => <<z, y>> \in air
           Sends1 == /\ beat'[z] = Heartbeat(z, p'[z], Fresh(z)) /\ Turn(z)
                     /\ disk'[z] = p'[z]
                     /\ z \in Node => NodeTurns(z)
                     /\ z = Witness => WitnessTurns
           Hears1(y) == \/ view'[y][z].heard = view[y][z].heard /\ view'[y][z].hb = view[y][z].hb
                        \/ view'[y][z] = NeverSeen
                        \/ <<z, y>> \in air /\ view'[y][z] = [heard |-> TRUE, age |-> 0, hb |-> beat[z]]
<1>2. ASSUME NEW x \in Proc, Turn(x)
      PROVE  /\ \A y \in Proc : Hears1(y)
             /\ x # z => Kept1
             /\ x = z => Kept1 \/ beat'[z] = Heartbeat(z, p'[z], Fresh(z))
  <2>1. ASSUME NEW y \in Proc PROVE Hears1(y)
    <3>1. y # x => view'[y] = view[y] BY <1>2, TurnNet
    <3>2. y = x => \/ view'[y][z] = view[y][z]
                   \/ <<z, y>> \in air /\ view'[y][z] = [heard |-> TRUE, age |-> 0, hb |-> beat[z]]
      BY <1>2, TurnNet
    <3> QED BY <3>1, <3>2
  <2>2. x # z => beat'[z] = beat[z] BY <1>2, TurnNet
  <2>3. x # z => \A y \in Proc : <<z, y>> \in air' => <<z, y>> \in air
    <3> SUFFICES ASSUME x # z, NEW y \in Proc, <<z, y>> \in air' PROVE <<z, y>> \in air OBVIOUS
    <3>1. y # x BY <1>2, TurnNet
    <3> QED BY <1>2, <3>1, TurnNet
  <2>4. x = z => Kept1 \/ beat'[z] = Heartbeat(z, p'[z], Fresh(z)) BY <1>2, TurnNet
  <2> QED BY <2>1, <2>2, <2>3, <2>4
<1>3. ASSUME NEW n \in Node, NodeTurns(n) PROVE (Kept1 \/ Sends1) /\ \A y \in Proc : Hears1(y)
  <2>1. Turn(n) BY <1>1, <1>3, NodeEnds
  <2>2. (\A y \in Proc : Hears1(y)) /\ (n # z => Kept1) BY <1>1, <1>2, <2>1
  <2>3. n = z => Kept1 \/ Sends1
    <3> SUFFICES ASSUME n = z PROVE Kept1 \/ Sends1 OBVIOUS
    <3>1. \/ beat'[n] = Heartbeat(n, p'[n], Fresh(n)) /\ disk'[n] = p'[n]
          \/ beat'[n] = beat[n] /\ \A y \in Proc : <<n, y>> \in air' => <<n, y>> \in air
      <4>1. PICK r, d :
              \/ /\ p'[n] = r /\ disk'[n] = r
                 /\ beat'[n] = Heartbeat(n, r, Fresh(n))
              \/ beat'[n] = beat[n] /\ \A y \in Proc : <<n, y>> \in air' => <<n, y>> \in air
        BY <1>1, <1>3, NodeEnds
      <4> QED BY <4>1
    <3> QED BY <1>1, <1>3, <2>1, <3>1
  <2> QED BY <2>2, <2>3
<1>4. CASE WitnessTurns
  <2>1. Turn(Witness) BY <1>4 DEF WitnessTurns
  <2>2. (\A y \in Proc : Hears1(y)) /\ (Witness # z => Kept1)
        /\ (Witness = z => Kept1 \/ beat'[z] = Heartbeat(z, p'[z], Fresh(z)))
    BY <1>1, <1>2, <2>1
  <2>3. Witness = z => Kept1 \/ disk'[z] = p'[z] BY <1>4 DEF WitnessTurns
  <2>4. ASSUME Witness = z PROVE Kept1 \/ Sends1 BY <1>1, <1>4, <2>1, <2>2, <2>3, <2>4
  <2> QED BY <2>2, <2>4
<1>5. ASSUME UNCHANGED <<view, beat, air>> PROVE Kept1 /\ \A y \in Proc : Hears1(y) BY <1>5
<1>6. ASSUME NEW n \in Node, Answers(n) PROVE Kept1 /\ \A y \in Proc : Hears1(y)
  BY <1>5, <1>6 DEF Answers
<1>7. Idles => Kept1 /\ \A y \in Proc : Hears1(y) BY <1>5 DEF Idles
<1>8. CASE TickPasses BY <1>8, Passing
<1>9. ASSUME NEW x \in Proc, Crashes(x) PROVE Kept1 /\ \A y \in Proc : Hears1(y)
  <2>1. view' = [view EXCEPT ![x] = [y \in Proc |-> NeverSeen]] /\ UNCHANGED <<beat, air>>
    BY <1>9 DEF Crashes
  <2>2. \A y \in Proc : view'[y][z] = view[y][z] \/ view'[y][z] = NeverSeen BY <1>1, <2>1
  <2> QED BY <2>1, <2>2
<1> DEFINE Good == (Kept1 \/ Sends1) /\ \A y \in Proc : Hears1(y)
<1>10. /\ WitnessTurns \/ TickPasses \/ Idles => Good
       /\ \A n \in Node : NodeTurns(n) \/ Answers(n) => Good
       /\ \A x \in Proc : Crashes(x) => Good
  BY <1>3, <1>4, <1>6, <1>7, <1>8, <1>9
<1> HIDE DEF Good
<1>11. Good BY <1>10, Steps
<1> QED BY <1>11 DEF Good

\* A term is claimed anew only as Won says, and a vote is new only from an answer.
LEMMA Claiming ==
  ASSUME Guarded, Facts, Basics, [Next]_vars, NEW n \in Node, NEW x \in Nat
  PROVE  /\ Owns(n, x)' => Owns(n, x) \/ (NodeTurns(n) /\ Won(n) /\ x = granted[n])
         /\ <<x, n>> \in ledger => <<x, n>> \in ledger'
         /\ <<x, n>> \in ledger' => \/ <<x, n>> \in ledger
                                    \/ Answers(n) /\ Grants(n, x) /\ x = request[n].term
         /\ Bid(n, x)' => Bid(n, x) \/ (<<x, n>> \in ledger' /\ <<x, n>> \notin ledger)
<1> USE DEF Facts, Basics
<1>1. Trio /\ Node \subseteq Proc BY Identities DEF Guarded
<1>2. p[n].term \in Nat BY <1>1 DEF TypeOK, Persisted
<1>3. ASSUME NEW m \in Node, NodeTurns(m)
      PROVE  /\ Owns(n, x)' => Owns(n, x) \/ (NodeTurns(n) /\ Won(n) /\ x = granted[n])
             /\ Bid(n, x)' => Bid(n, x)
             /\ UNCHANGED ledger
  BY <1>1, <1>3, NodeTickOwnsWon DEF NodeTurns
<1>4. ASSUME NEW m \in Node, Answers(m)
      PROVE  /\ ledger \subseteq ledger'
             /\ <<x, n>> \in ledger' => \/ <<x, n>> \in ledger
                                        \/ Answers(n) /\ Grants(n, x) /\ x = request[n].term
  <2>1. \/ UNCHANGED ledger
        \/ Grants(m, request[m].term) /\ ledger' = ledger \cup {<<request[m].term, m>>}
    BY <1>4 DEF Answers
  <2> QED BY <1>4, <2>1
<1>5. WitnessTurns \/ TickPasses \/ Idles \/ (\E y \in Proc : Crashes(y)) => UNCHANGED ledger
  BY Passing DEF WitnessTurns, Idles, Crashes
<1>6. ASSUME Calm PROVE /\ Owns(n, x)' => Owns(n, x)
                        /\ Bid(n, x)' => Bid(n, x) \/ (<<x, n>> \in ledger' /\ <<x, n>> \notin ledger)
  <2>1. Owns(n, x)' => Owns(n, x) BY <1>6 DEF Calm
  <2>2. p'[n].term >= p[n].term /\ p'[n].term \in Nat
    <3>1. p'[n] \in Persisted
      <4>1. TypeOK' BY TypesStep
      <4> QED BY <1>1, <4>1 DEF TypeOK
    <3> QED BY <1>6, <3>1 DEF Calm, Persisted
  <2>3. x > p'[n].term => x > p[n].term BY <1>2, <2>2
  <2> QED BY <2>1, <2>3 DEF Bid
<1>7. ASSUME NEW m \in Node, Answers(m) PROVE Calm BY <1>7, OthersCalm
<1>8. WitnessTurns \/ TickPasses \/ Idles \/ (\E y \in Proc : Crashes(y)) => Calm BY OthersCalm
<1> QED BY <1>3, <1>4, <1>5, <1>6, <1>7, <1>8, Steps

\* The votes noted for n: the ones before, and one it is granted now.
LEMMA NotedStep ==
  ASSUME Guarded, Facts, Basics, [Next]_vars, NEW n \in Node, NEW v \in Nat, Noted(v, n)'
  PROVE  Noted(v, n) \/ (Answers(n) /\ Grants(n, v))
<1> USE DEF Facts, Basics
<1>1. /\ Trio /\ Witness \in Proc /\ Witness \notin Node /\ DOMAIN p = Proc
      /\ p[Witness] \in Persisted /\ Nobody \notin Node
  BY Identities DEF Guarded, TypeOK
<1>2. ASSUME UNCHANGED ledger, SameBook(Witness), OnFile(p[Witness]) \/ OnFile(disk[Witness])
      PROVE  Noted(v, n)
  BY <1>2 DEF Noted, SameBook, OnFile
<1>3. ASSUME NEW m \in Node, NodeTurns(m) PROVE Noted(v, n)
  BY <1>1, <1>2, <1>3, NodeEnds DEF NodeTurns, SameBook, OnFile
<1>4. WitnessTurns => Noted(v, n) BY <1>2 DEF WitnessTurns
<1>5. TickPasses => Noted(v, n) BY <1>2, Passing DEF SameBook, OnFile
<1>6. Idles => Noted(v, n) BY <1>1, <1>2 DEF Idles
<1>7. ASSUME NEW x \in Proc, Crashes(x) PROVE Noted(v, n)
  <2>1. p'[Witness] \in {p[Witness], disk[Witness]} /\ UNCHANGED <<disk, ledger>>
    BY <1>1, <1>7 DEF Crashes
  <2> QED BY <2>1 DEF Noted
<1>8. ASSUME NEW m \in Node, Answers(m) PROVE Noted(v, n) \/ (Answers(n) /\ Grants(n, v))
  <2> DEFINE t == request[m].term
             q == Voted(m, t)
  <2>1. t \in Nat BY DEF TypeOK, Letter
  <2>2. q.votedTerm = t /\ q.votedFor = m BY <1>1, <2>1, VotedTypes DEF Later
  <2>3. \/ UNCHANGED ledger /\ p'[Witness] = p[Witness] /\ OnFile(disk[Witness])
        \/ /\ Grants(m, t) /\ \A r \in {p'[Witness], disk'[Witness]} : r \in {p[Witness], q}
           /\ \A u \in ledger' : u \in ledger \/ u = <<t, m>>
    BY <1>8 DEF Answers
  <2> HIDE DEF q, t
  <2>4. CASE UNCHANGED ledger /\ p'[Witness] = p[Witness] /\ OnFile(disk[Witness])
    BY <1>2, <2>4 DEF SameBook
  <2>5. CASE /\ Grants(m, t) /\ \A r \in {p'[Witness], disk'[Witness]} : r \in {p[Witness], q}
             /\ \A u \in ledger' : u \in ledger \/ u = <<t, m>>
    <3>1. Noted(v, n) \/ (v = t /\ n = m) BY <2>2, <2>5 DEF Noted
    <3> QED BY <1>8, <2>5, <3>1
  <2> QED BY <2>3, <2>4, <2>5
<1> QED BY <1>3, <1>4, <1>5, <1>6, <1>7, <1>8, Steps

\* A heartbeat, under way or heard, is not ahead of its sender.
LEMMA HearsayStep ==
  ASSUME Guarded, Facts, Facts', Basics, Book', [Next]_vars
  PROVE  Hearsay'
<1> USE DEF Facts, Basics
<1>1. /\ Trio /\ Proc = Node \cup {Witness} /\ Witness \notin Node
  BY TrioProc DEF Guarded
<1> SUFFICES ASSUME NEW z \in Proc
             PROVE  /\ beat'[z].term <= Top(z)' /\ beat'[z].seq <= p'[z].seq /\ p'[z].seq <= disk'[z].seq
                    /\ \A y \in Peers(z) :
                         /\ view'[y][z].hb.term <= Top(z)' /\ view'[y][z].hb.seq <= p'[z].seq
                         /\ view'[y][z].heard => view'[y][z].hb.term >= 1
                         /\ <<z, y>> \in air' => beat'[z].term >= 1
  BY DEF Hearsay
<1>2. /\ p[z].seq \in Nat /\ p'[z].seq \in Nat /\ p'[z].seq >= p[z].seq
      /\ disk'[z].seq >= p'[z].seq /\ disk'[z].seq \in Nat
      /\ Top(z) \in Nat /\ Top(z)' \in Nat /\ Top(z)' >= Top(z) /\ Top(z)' >= p'[z].term
      /\ p'[z].term \in Nat
  <2>1. disk'[z] \in Persisted BY DEF TypeOK
  <2> QED BY <2>1, Growing DEF Persisted
<1>3. beat[z] \in Beat /\ \A y \in Proc : view[y][z] \in Obs BY DEF TypeOK
<1>4. /\ beat[z].term \in Nat /\ beat[z].seq \in Nat
      /\ \A y \in Proc : view[y][z].hb.term \in Nat /\ view[y][z].hb.seq \in Nat
  BY <1>3 DEF Beat, Obs
<1>5. beat[z].term <= Top(z) /\ beat[z].seq <= p[z].seq BY DEF Hearsay
<1>6. p'[z].term >= 1 BY <1>1 DEF Started, Book
<1>7. /\ Heartbeat(z, p'[z], Fresh(z)).term = Top(z)'
      /\ Heartbeat(z, p'[z], Fresh(z)).seq = p'[z].seq
  BY DEF Heartbeat, Top
<1>8. beat'[z].term <= Top(z)' /\ beat'[z].seq <= p'[z].seq
  <2>1. beat'[z] = beat[z] \/ beat'[z] = Heartbeat(z, p'[z], Fresh(z)) BY NetStep
  <2>2. CASE beat'[z] = beat[z] BY <1>2, <1>4, <1>5, <2>2
  <2>3. CASE beat'[z] = Heartbeat(z, p'[z], Fresh(z)) BY <1>2, <1>7, <2>3
  <2> QED BY <2>1, <2>2, <2>3
<1>9. ASSUME NEW y \in Peers(z)
      PROVE  /\ view'[y][z].hb.term <= Top(z)' /\ view'[y][z].hb.seq <= p'[z].seq
             /\ view'[y][z].heard => view'[y][z].hb.term >= 1
             /\ <<z, y>> \in air' => beat'[z].term >= 1
  <2>1. y \in Proc BY DEF Peers
  <2>2. /\ view[y][z].hb.term <= Top(z) /\ view[y][z].hb.seq <= p[z].seq
        /\ view[y][z].heard => view[y][z].hb.term >= 1
        /\ <<z, y>> \in air => beat[z].term >= 1
    BY DEF Hearsay
  <2>3. <<z, y>> \in air' => beat'[z].term >= 1
    <3>1. CASE beat'[z] = beat[z] /\ (<<z, y>> \in air' => <<z, y>> \in air)
      BY <2>2, <3>1
    <3>2. CASE beat'[z] = Heartbeat(z, p'[z], Fresh(z)) BY <1>2, <1>6, <1>7, <3>2
    <3> QED BY <2>1, <3>1, <3>2, NetStep
  <2>4. CASE view'[y][z].heard = view[y][z].heard /\ view'[y][z].hb = view[y][z].hb
    BY <1>2, <1>4, <2>1, <2>2, <2>3, <2>4
  <2>5. CASE view'[y][z] = NeverSeen
    <3>1. NeverSeen.hb.term = 0 /\ NeverSeen.hb.seq = 0 /\ NeverSeen.heard = FALSE
      BY DEF NeverSeen, NoBeat
    <3> QED BY <1>2, <2>3, <2>5, <3>1
  <2>6. CASE <<z, y>> \in air /\ view'[y][z] = [heard |-> TRUE, age |-> 0, hb |-> beat[z]]
    <3>1. view'[y][z].hb = beat[z] BY <2>6
    <3> QED BY <1>2, <1>4, <1>5, <2>2, <2>3, <2>6, <3>1
  <2> QED BY <2>1, <2>4, <2>5, <2>6, NetStep
<1> QED BY <1>2, <1>8, <1>9

\* A heartbeat without a claim stays older than the term claimed since.
LEMMA BeforeClaimStep ==
  ASSUME Guarded, Facts, Basics, [Next]_vars
  PROVE  BeforeClaim'
<1> USE DEF Facts, Basics
<1>1. /\ Trio /\ Node \subseteq Proc /\ \A m \in Node : Other(m) \in Node
  BY TrioProc DEF Guarded
<1> SUFFICES ASSUME NEW n \in Node, NEW x \in Nat, Owns(n, x)'
             PROVE  /\ ~Claims(beat'[n]) => beat'[n].term < x
                    /\ \A y \in Peers(n) :
                         view'[y][n].heard /\ ~Claims(view'[y][n].hb) => view'[y][n].hb.term < x
  BY DEF BeforeClaim, Claims
<1>2. /\ ~Claims(beat[n]) => beat[n].term < x
      /\ \A y \in Peers(n) :
           view[y][n].heard /\ ~Claims(view[y][n].hb) => view[y][n].hb.term < x
  <2>1. CASE Owns(n, x) BY <2>1 DEF BeforeClaim
  <2>2. CASE Won(n) /\ x = granted[n]
    <3>1. x > p[n].term /\ p[n].term \in Nat BY <1>1, <2>2 DEF Won, TypeOK, Persisted
    <3>2. Witness # n BY Identities
    <3>3. /\ beat[n].term <= p[n].term
          /\ \A y \in Peers(n) : view[y][n].hb.term <= p[n].term
      BY <1>1, <3>2 DEF Hearsay, Top
    <3>4. beat[n].term \in Nat /\ \A y \in Peers(n) : view[y][n].hb.term \in Nat
      BY <1>1 DEF TypeOK, Beat, Obs, Peers
    <3> QED BY <3>1, <3>3, <3>4
  <2> QED BY <2>1, <2>2, Claiming
<1>3. ~Claims(beat'[n]) => beat'[n].term < x
  <2>1. CASE beat'[n] = beat[n] BY <1>2, <2>1
  <2>2. CASE beat'[n] = Heartbeat(n, p'[n], Fresh(n)) /\ disk'[n] = p'[n]
    <3>1. Claims(p'[n])
      <4>1. \E q \in {p'[n], disk'[n]} : q.role \in {Active, Fenced} BY DEF Owns, Claims
      <4> QED BY <2>2, <4>1 DEF Claims
    <3> QED BY <2>2, <3>1 DEF Heartbeat, Claims
  <2> QED BY <1>1, <2>1, <2>2, NetStep
<1>4. ASSUME NEW y \in Peers(n), view'[y][n].heard, ~Claims(view'[y][n].hb)
      PROVE  view'[y][n].hb.term < x
  <2>1. NeverSeen.heard = FALSE BY DEF NeverSeen
  <2>2. \/ view'[y][n].heard = view[y][n].heard /\ view'[y][n].hb = view[y][n].hb
        \/ view'[y][n] = NeverSeen
        \/ view'[y][n] = [heard |-> TRUE, age |-> 0, hb |-> beat[n]]
    BY <1>1, NetStep DEF Peers
  <2>3. view'[y][n].hb = beat[n] \/ (view[y][n].heard /\ view'[y][n].hb = view[y][n].hb)
    <3>1. CASE view'[y][n] = NeverSeen BY <1>4, <2>1, <3>1
    <3>2. CASE view'[y][n] = [heard |-> TRUE, age |-> 0, hb |-> beat[n]] BY <3>2
    <3> QED BY <1>4, <2>2, <3>1, <3>2
  <2> QED BY <1>2, <1>4, <2>3
<1> QED BY <1>3, <1>4

\* A claim in a heartbeat belongs to its sender.
LEMMA SignedStep ==
  ASSUME Guarded, Facts, Facts', Basics, [Next]_vars
  PROVE  Signed'
<1> USE DEF Facts, Basics
<1>1. /\ Trio /\ Node \subseteq Proc /\ \A m \in Node : Other(m) \in Node /\ Other(m) # m
  BY TrioProc DEF Guarded
<1> SUFFICES ASSUME NEW n \in Node
             PROVE  Justly(n, beat[n])' /\ \A y \in Peers(n) : Justly(n, view[y][n].hb)'
  BY DEF Signed
<1>2. Owns(Other(n), 1)' => Owns(Other(n), 1)
  <2>1. ~(Won(Other(n)) /\ 1 = granted[Other(n)])
    <3>1. p[Other(n)].term \in Nat /\ p[Other(n)].term >= 1
      BY <1>1 DEF TypeOK, Persisted, Started
    <3> QED BY <3>1 DEF Won
  <2> QED BY <1>1, <2>1, Claiming
<1>3. ASSUME NEW hb \in Beat, Justly(n, hb), NEW k \in Beat, k = hb
      PROVE  Claims(k) => IF k.term = 1 THEN ~Owns(Other(n), 1)' ELSE <<k.term, n>> \in ledger'
  <2>1. <<hb.term, n>> \in ledger => <<hb.term, n>> \in ledger'
    <3>1. hb.term \in Nat BY DEF Beat
    <3> QED BY <3>1, Claiming
  <2> QED BY <1>2, <1>3, <2>1 DEF Justly
<1>4. Justly(n, beat[n]) /\ \A y \in Peers(n) : Justly(n, view[y][n].hb) BY DEF Signed
<1>5. /\ beat[n] \in Beat /\ beat'[n] \in Beat
      /\ \A y \in Peers(n) : view[y][n].hb \in Beat /\ view'[y][n].hb \in Beat
  <2>1. beat[n] \in Beat /\ beat'[n] \in Beat BY <1>1 DEF TypeOK
  <2>2. \A y \in Proc : view[y][n] \in Obs /\ view'[y][n] \in Obs BY <1>1 DEF TypeOK
  <2>3. \A o \in Obs : o.hb \in Beat BY DEF Obs
  <2> QED BY <2>1, <2>2, <2>3 DEF Peers
<1>6. Justly(n, beat[n])'
  <2>1. CASE beat'[n] = beat[n] BY <1>3, <1>4, <1>5, <2>1 DEF Justly, Claims
  <2>2. CASE beat'[n] = Heartbeat(n, p'[n], Fresh(n))
    <3>1. beat'[n].role = p'[n].role /\ beat'[n].term = p'[n].term
      BY <2>2, Identities DEF Heartbeat
    <3>2. PICK a \in Node : \A m \in Node : Rightful(m, a, p[m])' /\ Rightful(m, a, disk[m])'
      BY DEF RightfulOwners
    <3>3. Claims(p'[n]) => IF p'[n].term = 1 THEN n = a ELSE <<p'[n].term, n>> \in ledger'
      BY <3>2 DEF Rightful, Claims
    <3>4. Owns(Other(n), 1)' => Other(n) = a
      BY <1>1, <3>2 DEF Owns, Rightful, Claims
    <3> QED BY <1>1, <3>1, <3>3, <3>4 DEF Justly, Claims
  <2> QED BY <1>1, <2>1, <2>2, NetStep
<1>7. ASSUME NEW y \in Peers(n) PROVE Justly(n, view[y][n].hb)'
  <2>1. \/ view'[y][n].hb = view[y][n].hb
        \/ view'[y][n] = NeverSeen
        \/ view'[y][n] = [heard |-> TRUE, age |-> 0, hb |-> beat[n]]
    BY <1>1, NetStep DEF Peers
  <2>2. CASE view'[y][n] = NeverSeen
    <3>1. NeverSeen.hb.role = Passive BY DEF NeverSeen, NoBeat
    <3> QED BY <2>2, <3>1, RoleNames DEF Justly, Claims
  <2>3. CASE view'[y][n].hb = view[y][n].hb BY <1>3, <1>4, <1>5, <2>3 DEF Justly, Claims
  <2>4. CASE view'[y][n].hb = beat[n] BY <1>3, <1>4, <1>5, <2>4 DEF Justly, Claims
  <2> QED BY <2>1, <2>2, <2>3, <2>4
<1> QED BY <1>6, <1>7

\* All that is known of single steps holds on.
LEMMA BasicsStep ==
  ASSUME Guarded, Facts, Facts', Basics, [Next]_vars
  PROVE  Basics'
<1>1. Book' BY BookKept
<1> QED BY <1>1, SteadfastStep, SteadyAllStep, VoteAgeStep, DownStep, HearsayStep,
           BeforeClaimStep, SignedStep DEF Basics

-----------------------------------------------------------------------------
(* The kernel: who hears whom, and how late at most                        *)

\* What time does to one age.
LEMMA AgePasses ==
  ASSUME TypeOK, TickPasses, NEW x \in Proc, NEW y \in Proc, y # x
  PROVE  /\ view[x][y].age \in Nat /\ view'[x][y].age \in Nat
         /\ view'[x][y].age <= view[x][y].age + 1
         /\ ~up[x] => view'[x][y].age = view[x][y].age
         /\ view'[x][y].age <= SeenTicks =>
              /\ view[x][y].age <= SeenTicks
              /\ up[x] => view'[x][y].age = view[x][y].age + 1
         /\ up[x] /\ y # Witness => view'[x][y].age = Older(view[x][y].age, Takeover)
<1>1. view[x][y] \in Obs BY DEF TypeOK
<1>2. view[x][y].age \in Nat BY <1>1 DEF Obs
<1>3. /\ SeenTicks \in Nat /\ Takeover \in Nat /\ SeenTicks < Takeover
  BY ConstantsAssumption DEF ConstantsAssumption
<1>4. AgeCap(y) \in Nat /\ AgeCap(y) > SeenTicks BY <1>3 DEF AgeCap
<1>5. view'[x][y].age = IF up[x] THEN Older(view[x][y].age, AgeCap(y)) ELSE view[x][y].age
  BY Passing
<1>6. y # Witness => AgeCap(y) = Takeover BY DEF AgeCap
<1>7. CASE up[x]
  <2>1. view'[x][y].age = Older(view[x][y].age, AgeCap(y)) BY <1>5, <1>7
  <2> QED BY <1>2, <1>3, <1>4, <1>6, <1>7, <2>1 DEF Older
<1>8. CASE ~up[x] BY <1>2, <1>3, <1>5, <1>8
<1> QED BY <1>7, <1>8

\* A node that is told it is seen was heard at most one sight before.
LEMMA SightStep ==
  ASSUME Guarded, Facts, Basics, Sight, [Next]_vars
  PROVE  Sight'
<1> USE DEF Facts, Basics
<1>1. /\ Trio /\ Proc = Node \cup {Witness} /\ Witness \notin Node /\ SeenTicks \in Nat
  BY TrioProc, ConstantsAssumption DEF Guarded, ConstantsAssumption
<1> SUFFICES ASSUME NEW n \in Node, NEW y \in Peers(n)
             PROVE  /\ Mutual(n, view'[n][y]) => view'[y][n].age <= SeenTicks + 1 + view'[n][y].age
                    /\ Coming(n, y)' => view'[y][n].age <= SeenTicks + (IF n \in ticked' THEN 0 ELSE 1)
  BY DEF Sight, Mutual, Seen
<1>2. n \in Proc /\ y \in Proc /\ y # n BY <1>1 DEF Peers
<1>3. /\ view[n][y] \in Obs /\ view[y][n] \in Obs /\ DOMAIN view = Proc
      /\ DOMAIN view[n] = Proc /\ DOMAIN view[y] = Proc
  BY <1>2 DEF TypeOK
<1>4. view[n][y].age \in Nat /\ view[y][n].age \in Nat BY <1>3 DEF Obs
<1>5. /\ Mutual(n, view[n][y]) => view[y][n].age <= SeenTicks + 1 + view[n][y].age
      /\ Coming(n, y) => view[y][n].age <= SeenTicks + (IF n \in ticked THEN 0 ELSE 1)
  BY DEF Sight
<1> DEFINE Good == /\ Mutual(n, view'[n][y]) => view'[y][n].age <= SeenTicks + 1 + view'[n][y].age
                   /\ Coming(n, y)' => view'[y][n].age <= SeenTicks + (IF n \in ticked' THEN 0 ELSE 1)
<1>6. ASSUME UNCHANGED <<view, beat, air, ticked>> PROVE Good BY <1>5, <1>6 DEF Coming
<1>7. ASSUME NEW z \in Proc, Turn(z) PROVE Good
  <2>1. ticked' = ticked \cup {z} /\ z \notin ticked BY <1>7 DEF Turn, Listens
  <2>2. CASE z = n
    <3>1. view'[y] = view[y] /\ <<y, n>> \notin air' BY <1>2, <1>7, <2>2, TurnNet
    <3>2. \/ view'[n][y] = view[n][y]
          \/ <<y, n>> \in air /\ view'[n][y] = [heard |-> TRUE, age |-> 0, hb |-> beat[y]]
      BY <1>2, <1>7, <2>2, TurnNet
    <3>3. ~Coming(n, y)' BY <3>1 DEF Coming
    <3>4. CASE view'[n][y] = view[n][y] BY <1>5, <3>1, <3>3, <3>4
    <3>5. CASE <<y, n>> \in air /\ view'[n][y] = [heard |-> TRUE, age |-> 0, hb |-> beat[y]]
      <4>1. view'[n][y].age = 0 /\ view'[n][y].hb = beat[y] BY <3>5
      <4>2. Mutual(n, view'[n][y]) => Coming(n, y) BY <3>5, <4>1 DEF Mutual, Coming
      <4>3. n \notin ticked BY <2>1, <2>2
      <4> QED BY <1>1, <1>4, <1>5, <3>1, <3>3, <4>1, <4>2, <4>3
    <3> QED BY <3>2, <3>4, <3>5
  <2>3. CASE z # n
    <3>1. view'[n] = view[n] /\ (n \in ticked' <=> n \in ticked)
      BY <1>2, <1>7, <2>1, <2>3, TurnNet
    <3>2. \/ view'[y][n] = view[y][n]
          \/ view'[y][n] = [heard |-> TRUE, age |-> 0, hb |-> beat[n]]
      <4>1. z # y => view'[y] = view[y] BY <1>2, <1>7, TurnNet
      <4>2. z = y => \/ view'[y][n] = view[y][n]
                     \/ view'[y][n] = [heard |-> TRUE, age |-> 0, hb |-> beat[n]]
        <5>1. view'[z] = Fresh(z) BY <1>7, TurnNet
        <5>2. \/ Fresh(z)[n] = view[z][n]
              \/ Fresh(z)[n] = [heard |-> TRUE, age |-> 0, hb |-> beat[n]]
          BY <1>2, <1>7, Renewed
        <5> QED BY <5>1, <5>2
      <4> QED BY <4>1, <4>2
    <3>3. view'[y][n].age \in Nat /\ view'[y][n].age <= view[y][n].age
      BY <1>4, <3>2
    <3>4. \/ beat'[y] = beat[y] /\ (<<y, n>> \in air' => <<y, n>> \in air)
          \/ z = y /\ beat'[y] = Heartbeat(y, p'[y], Fresh(y))
      BY <1>2, <1>7, <2>3, TurnNet
    <3>5. CASE beat'[y] = beat[y] /\ (<<y, n>> \in air' => <<y, n>> \in air)
      <4>1. Coming(n, y)' => Coming(n, y) BY <3>5 DEF Coming
      <4> QED BY <1>1, <1>4, <1>5, <3>1, <3>3, <4>1
    <3>6. CASE z = y /\ beat'[y] = Heartbeat(y, p'[y], Fresh(y))
      <4>1. n \in beat'[y].sees => Seen(Fresh(y)[n]) BY <3>6 DEF Heartbeat
      <4>2. view'[y] = Fresh(y) BY <1>2, <1>7, <3>6, TurnNet
      <4>3. Coming(n, y)' => view'[y][n].age <= SeenTicks BY <4>1, <4>2 DEF Coming, Seen
      <4> QED BY <1>1, <1>4, <1>5, <3>1, <3>3, <4>3
    <3> QED BY <3>4, <3>5, <3>6
  <2> QED BY <2>2, <2>3
<1>8. ASSUME TickPasses PROVE Good
  <2>1. /\ view'[n][y].heard = view[n][y].heard /\ view'[n][y].hb = view[n][y].hb
        /\ beat' = beat /\ ticked' = {} /\ (up[n] => n \in ticked)
        /\ <<y, n>> \in air' => <<y, n>> \in air /\ up[n]
    BY <1>2, <1>8, Passing
  <2>2. /\ view'[n][y].age \in Nat /\ view'[y][n].age \in Nat
        /\ view'[y][n].age <= view[y][n].age + 1
        /\ view'[n][y].age <= SeenTicks =>
             /\ view[n][y].age <= SeenTicks
             /\ up[n] => view'[n][y].age = view[n][y].age + 1
    BY <1>2, <1>8, AgePasses
  <2>3. view[n][y].heard => up[n]
    <3>1. ~up[n] => view[n][y] = NeverSeen BY <1>2 DEF Down
    <3> QED BY <3>1 DEF NeverSeen
  <2>4. Mutual(n, view'[n][y]) =>
          Mutual(n, view[n][y]) /\ view'[n][y].age = view[n][y].age + 1
    BY <2>1, <2>2, <2>3 DEF Mutual, Seen
  <2>5. Coming(n, y)' => Coming(n, y) /\ n \in ticked BY <2>1 DEF Coming
  <2> QED BY <1>1, <1>4, <1>5, <2>1, <2>2, <2>4, <2>5
<1>9. ASSUME NEW x \in Proc, Crashes(x) PROVE Good
  <2>1. view' = [view EXCEPT ![x] = [z \in Proc |-> NeverSeen]] /\ UNCHANGED <<beat, air, ticked>>
    BY <1>9 DEF Crashes
  <2>2. /\ view'[n][y] = view[n][y] \/ view'[n][y] = NeverSeen
        /\ view'[y][n] = view[y][n] \/ view'[y][n] = NeverSeen
    BY <1>2, <1>3, <2>1
  <2>3. NeverSeen.heard = FALSE /\ NeverSeen.age = 0 BY DEF NeverSeen
  <2>4. view'[y][n].age \in Nat /\ view'[y][n].age <= view[y][n].age BY <1>4, <2>2, <2>3
  <2>5. Mutual(n, view'[n][y]) => view'[n][y] = view[n][y] BY <2>2, <2>3 DEF Mutual, Seen
  <2>6. Coming(n, y)' => Coming(n, y) BY <2>1 DEF Coming
  <2> QED BY <1>1, <1>4, <1>5, <2>1, <2>4, <2>5, <2>6
<1>10. ASSUME NEW m \in Node, NodeTurns(m) PROVE Good
  BY <1>1, <1>7, <1>10, NodeEnds
<1>13. WitnessTurns => Good BY <1>1, <1>7 DEF WitnessTurns
<1>11. Idles \/ (\E m \in Node : Answers(m)) => Good
  BY <1>6 DEF Idles, Answers
<1> HIDE DEF Good
<1>12. Good BY <1>8, <1>9, <1>10, <1>11, <1>13, Steps
<1> QED BY <1>12 DEF Good

\* What y has of z in view changes when y hears it, crashes, or time passes.
LEMMA ViewStep ==
  ASSUME Guarded, Facts, Basics, [Next]_vars, NEW y \in Proc, NEW z \in Proc
  PROVE  \/ view'[y][z] = view[y][z] \/ TickPasses \/ (Crashes(y) /\ view'[y][z] = NeverSeen)
         \/ /\ <<z, y>> \in air /\ view'[y][z] = [heard |-> TRUE, age |-> 0, hb |-> beat[z]]
            /\ Turn(y)
<1> USE DEF Facts, Basics
<1>1. /\ Trio /\ Proc = Node \cup {Witness}
      /\ DOMAIN view = Proc /\ \A x \in Proc : DOMAIN view[x] = Proc
  BY TrioProc DEF Guarded, TypeOK
<1> DEFINE Good == \/ view'[y][z] = view[y][z] \/ TickPasses \/ (Crashes(y) /\ view'[y][z] = NeverSeen)
                   \/ /\ <<z, y>> \in air /\ view'[y][z] = [heard |-> TRUE, age |-> 0, hb |-> beat[z]]
                      /\ Turn(y)
<1>2. ASSUME NEW x \in Proc, Turn(x) PROVE Good
  <2>1. CASE x = y BY <1>2, <2>1, TurnNet
  <2>2. CASE x # y
    <3>1. view'[y] = view[y] BY <1>2, <2>2, TurnNet
    <3> QED BY <3>1
  <2> QED BY <2>1, <2>2
<1>3. ASSUME NEW x \in Proc, Crashes(x) PROVE Good
  <2>1. view' = [view EXCEPT ![x] = [u \in Proc |-> NeverSeen]] BY <1>3 DEF Crashes
  <2>2. view'[y][z] = view[y][z] \/ (x = y /\ view'[y][z] = NeverSeen) BY <1>1, <2>1
  <2> QED BY <1>3, <2>2
<1>4. /\ \A n \in Node : NodeTurns(n) => Turn(n)
      /\ WitnessTurns => Turn(Witness)
  BY <1>1, NodeEnds DEF WitnessTurns
<1>5. Idles \/ (\E m \in Node : Answers(m)) => UNCHANGED view BY DEF Idles, Answers
<1>6. UNCHANGED view \/ TickPasses => Good OBVIOUS
<1> HIDE DEF Good
<1>7. Good BY <1>1, <1>2, <1>3, <1>4, <1>5, <1>6, Steps
<1> QED BY <1>7 DEF Good

\* What n believed of y it still believes, and heard nothing new against it,
\* unless y sends a heartbeat with a term that is no higher.
LEMMA FarStep ==
  ASSUME Guarded, Facts, Basics, [Next]_vars, NEW n \in Node, NEW y \in Peers(n), NEW x \in Nat,
         Far(n, y, x),
         beat'[y] = Heartbeat(y, p'[y], Fresh(y)) /\ disk'[y] = p'[y] => beat'[y].term > x
  PROVE  Far(n, y, x)'
<1> USE DEF Facts, Basics
<1>1. n \in Proc /\ y \in Proc /\ y # n /\ SeenTicks \in Nat
  BY Identities, ConstantsAssumption DEF Peers, ConstantsAssumption
<1>2. Coming(n, y)' => beat'[y].term > x
  <2>1. \/ beat'[y] = beat[y] /\ (<<y, n>> \in air' => <<y, n>> \in air)
        \/ beat'[y] = Heartbeat(y, p'[y], Fresh(y)) /\ disk'[y] = p'[y]
    BY <1>1, NetStep
  <2> QED BY <2>1 DEF Far, Coming
<1>3. Mutual(n, view'[n][y]) => view'[n][y].hb.term > x
  <2> SUFFICES ASSUME Mutual(n, view'[n][y]) PROVE view'[n][y].hb.term > x OBVIOUS
  <2>1. NeverSeen.heard = FALSE BY DEF NeverSeen
  <2>2. \/ view'[n][y] = view[n][y] \/ TickPasses \/ view'[n][y] = NeverSeen
        \/ <<y, n>> \in air /\ view'[n][y] = [heard |-> TRUE, age |-> 0, hb |-> beat[y]]
    BY <1>1, ViewStep
  <2>3. CASE view'[n][y] = view[n][y] BY <2>3 DEF Far
  <2>4. CASE TickPasses
    <3>1. view'[n][y].heard = view[n][y].heard /\ view'[n][y].hb = view[n][y].hb
      BY <1>1, <2>4, Passing
    <3>2. view'[n][y].age <= SeenTicks => view[n][y].age <= SeenTicks
      BY <1>1, <2>4, AgePasses
    <3>3. Mutual(n, view[n][y]) BY <3>1, <3>2 DEF Mutual, Seen
    <3> QED BY <3>1, <3>3 DEF Far
  <2>5. CASE view'[n][y] = NeverSeen BY <2>1, <2>5 DEF Mutual, Seen
  <2>6. CASE <<y, n>> \in air /\ view'[n][y] = [heard |-> TRUE, age |-> 0, hb |-> beat[y]]
    <3>1. view'[n][y].hb = beat[y] BY <2>6
    <3>2. Coming(n, y) BY <2>6, <3>1 DEF Mutual, Coming
    <3> QED BY <3>1, <3>2 DEF Far
  <2> QED BY <2>2, <2>3, <2>4, <2>5, <2>6
<1> QED BY <1>2, <1>3 DEF Far, Mutual, Seen

\* The times, as numbers.
LEMMA Times ==
  ASSUME Guarded
  PROVE  /\ SeenTicks \in Nat /\ FenceAfter \in Nat /\ Takeover \in Nat /\ FenceAfter >= 1
         /\ SeenTicks >= 1 /\ Lag = 2 * SeenTicks + 1 /\ Takeover >= 2 * SeenTicks + FenceAfter + 2
  BY ConstantsAssumption DEF Guarded, ConstantsAssumption, Lag

\* What is heard of another, in numbers.
LEMMA ViewTypes ==
  ASSUME TypeOK, NEW x \in Proc, NEW y \in Proc
  PROVE  /\ view[x][y] \in Obs /\ view[x][y].age \in Nat /\ view[x][y].hb \in Beat
         /\ view[x][y].hb.term \in Nat /\ view[x][y].hb.seq \in Nat
         /\ beat[x] \in Beat /\ beat[x].term \in Nat /\ beat[x].seq \in Nat
         /\ p[x] \in Persisted /\ p[x].term \in Nat /\ p[x].seq \in Nat
         /\ p[x].votedTerm \in Nat /\ p[x].votedFor \in Node \cup {Nobody}
<1>1. view[x][y] \in Obs /\ beat[x] \in Beat /\ p[x] \in Persisted BY DEF TypeOK
<1> QED BY <1>1 DEF Obs, Beat, Persisted

\* Whom n sees as its turn comes tells it of the higher term.
LEMMA FarMutual ==
  ASSUME TypeOK, NEW n \in Node, NEW y \in Peers(n), NEW x, Far(n, y, x), Turn(n),
         Mutual(n, Fresh(n)[y])
  PROVE  Fresh(n)[y].hb.term > x
<1>1. n \in Proc /\ y \in Proc BY Identities DEF Peers
<1>2. \/ Fresh(n)[y] = view[n][y]
      \/ <<y, n>> \in air /\ Fresh(n)[y] = [heard |-> TRUE, age |-> 0, hb |-> beat[y]]
  BY <1>1, Renewed
<1>3. CASE Fresh(n)[y] = view[n][y] BY <1>3 DEF Far
<1>4. CASE <<y, n>> \in air /\ Fresh(n)[y] = [heard |-> TRUE, age |-> 0, hb |-> beat[y]]
  <2>1. Fresh(n)[y].hb = beat[y] BY <1>4
  <2> QED BY <1>4, <2>1 DEF Mutual, Coming, Far
<1> QED BY <1>2, <1>3, <1>4

\* Terms held are numbers from one, and of two the higher one has its vote.
LEMMA OwnsVoted ==
  ASSUME Facts, NEW n \in Node, NEW x \in Nat, Owns(n, x)
  PROVE  x >= 1 /\ (x > 1 => <<x, n>> \in ledger)
<1> USE DEF Facts
<1>1. n \in Proc BY Identities
<1>2. p[n].term \in Nat /\ disk[n].term \in Nat BY <1>1 DEF TypeOK, Persisted
<1>3. p[n].term >= 1 /\ disk[n].term >= p[n].term BY <1>1 DEF Started, SavedTerms
<1>4. PICK q \in {p[n], disk[n]} : Claims(q) /\ q.term = x BY DEF Owns
<1>5. x >= 1 BY <1>2, <1>3, <1>4
<1>6. PICK a \in Node : Rightful(n, a, p[n]) /\ Rightful(n, a, disk[n]) BY DEF RightfulOwners
<1>7. x > 1 => <<x, n>> \in ledger BY <1>4, <1>6 DEF Rightful
<1> QED BY <1>5, <1>7

\* A vote against a node with a term, or with a vote, is given only after the
\* takeover time, or was given for a higher term before.
LEMMA OldVote ==
  ASSUME Guarded, Facts, Basics, NEW c \in Node, NEW x \in Nat, NEW t, Bid(Other(c), x), Grants(c, t)
  PROVE  view[Witness][Other(c)].age >= Takeover \/ \E v \in Nat : Noted(v, c) /\ v > x
<1> USE DEF Facts, Basics
<1> DEFINE o == Other(c)
           ob == view[Witness][o]
           w == p[Witness]
<1>1. /\ Trio /\ o \in Node /\ o # c /\ (\A m \in Node : m = c \/ m = o)
      /\ o \in Proc /\ Witness \in Proc /\ Witness \in Peers(o) /\ Witness \notin Node
  BY TrioProc, Identities DEF Guarded
<1>2. /\ ob \in Obs /\ w \in Persisted /\ ob.age \in Nat /\ ob.hb.term \in Nat /\ w.votedTerm \in Nat
      /\ p[o].term \in Nat /\ w.votedFor \in Node \cup {Nobody}
  BY <1>1, ViewTypes
<1> SUFFICES ASSUME ob.age < Takeover
             PROVE  \E v \in Nat : Noted(v, c) /\ v > x
  BY <1>2, Times
<1>3. ob.heard /\ ~Claims(ob.hb) /\ ~(w.votedFor = o /\ ob.hb.term < w.votedTerm)
  <2>1. ~Protected(o, t) BY DEF Grants
  <2>2. ~(~ob.heard /\ ob.age < Takeover)
        /\ ~(ob.hb.role \in {Active, Fenced} /\ ob.age < Takeover)
        /\ ~((w.votedFor = o /\ ob.hb.term < w.votedTerm) /\ ob.age < Takeover)
    BY <2>1 DEF Protected
  <2> QED BY <2>2 DEF Claims
<1>4. <<x, o>> \in ledger /\ ob.hb.term < x
  <2>1. CASE Owns(o, x)
    <3>1. ob.hb.term < x BY <1>1, <1>3, <2>1 DEF BeforeClaim
    <3>2. ob.hb.term >= 1 BY <1>1, <1>3 DEF Hearsay, Peers
    <3>3. x > 1 BY <1>2, <3>1, <3>2
    <3> QED BY <1>1, <2>1, <3>1, <3>3, OwnsVoted
  <2>2. CASE <<x, o>> \in ledger /\ x > p[o].term
    <3>1. ob.hb.term <= p[o].term BY <1>1 DEF Hearsay, Top
    <3> QED BY <1>2, <2>2, <3>1
  <2> QED BY <2>1, <2>2 DEF Bid
<1>5. w.votedFor # Nobody /\ x <= w.votedTerm /\ x > 1
  <2>1. <<x, o>>[1] <= w.votedTerm /\ <<x, o>>[1] > 1 BY <1>4 DEF Book
  <2>2. w.votedFor = Nobody => w.votedTerm = 0 BY DEF Book, Filed
  <2> QED BY <2>1, <2>2
<1>6. w.votedFor = c
  <2>1. ob.hb.term < w.votedTerm BY <1>2, <1>4, <1>5
  <2> QED BY <1>1, <1>2, <1>3, <1>5, <2>1
<1>7. w.votedTerm # x
  <2>1. Knows(w) BY <1>1 DEF VotesKnown
  <2>2. <<x, o>>[1] < w.votedTerm \/ (<<x, o>>[1] = w.votedTerm /\ <<x, o>>[2] = w.votedFor)
    BY <1>4, <2>1 DEF Knows
  <2>3. x < w.votedTerm \/ o = w.votedFor BY <2>2
  <2> QED BY <1>1, <1>2, <1>6, <2>3
<1>8. w.votedTerm > x BY <1>2, <1>5, <1>7
<1> QED BY <1>2, <1>6, <1>8 DEF Noted

\* Whoever the witness tells a node that is outvoted, it tells the newer term.
LEMMA OutvotedStep ==
  ASSUME Guarded, Facts, Facts', Basics, Basics', Sight, Outvoted, [Next]_vars
  PROVE  Outvoted'
<1> USE DEF Facts, Basics
<1> SUFFICES ASSUME NEW n \in Node, NEW x \in Nat, NEW v \in Nat,
                    Bid(n, x)', Noted(v, Other(n))', v > x
             PROVE  Far(n, Witness, x)'
  BY DEF Outvoted
<1>1. /\ Trio /\ n \in Proc /\ Witness \in Proc /\ Witness \in Peers(n) /\ n \in Peers(Witness)
      /\ Other(n) \in Node /\ Other(n) # n /\ Other(Other(n)) = n /\ Witness \notin Node
  BY TrioProc, Identities DEF Guarded
<1>2. Bid(n, x)
  <2> SUFFICES ASSUME <<x, n>> \in ledger', <<x, n>> \notin ledger PROVE FALSE BY Claiming
  <2>1. Answers(n) /\ Grants(n, x) BY Claiming
  <2>2. <<v, Other(n)>> \in ledger
    <3> DEFINE t == request[n].term
               q == Voted(n, t)
    <3>1. /\ ledger' = ledger \cup {<<t, n>>}
          /\ p'[Witness] = q /\ disk'[Witness] = q
      BY <2>1 DEF Answers
    <3>2. t \in Nat /\ p[Witness] \in Persisted BY <1>1 DEF TypeOK, Letter
    <3>3. q.votedFor = n BY <1>1, <3>2, VotedTypes DEF Later
    <3> HIDE DEF q, t
    <3> QED BY <1>1, <3>1, <3>3 DEF Noted
  <2>3. \A u \in ledger : u[1] < x \/ (u[1] = x /\ u[2] = n)
    BY <1>1, <2>1, NewVote
  <2>4. <<v, Other(n)>>[1] < x \/ <<v, Other(n)>>[1] = x BY <2>2, <2>3
  <2> QED BY <2>4
<1>3. Far(n, Witness, x)
  <2>1. CASE \E u \in Nat : Noted(u, Other(n)) /\ u > x
    BY <1>1, <1>2, <2>1 DEF Outvoted
  <2>2. CASE view[Witness][n].age >= Takeover
    <3>1. /\ view[Witness][n].age \in Nat /\ view[n][Witness].age \in Nat
      BY <1>1, ViewTypes
    <3>2. ~Mutual(n, view[n][Witness])
      <4>1. Mutual(n, view[n][Witness]) =>
              /\ view[Witness][n].age <= SeenTicks + 1 + view[n][Witness].age
              /\ view[n][Witness].age <= SeenTicks
        <5>1. Mutual(n, view[n][Witness]) =>
                view[Witness][n].age <= SeenTicks + 1 + view[n][Witness].age
          BY <1>1 DEF Sight
        <5> QED BY <5>1 DEF Mutual, Seen
      <4> QED BY <2>2, <3>1, <4>1, Times
    <3>3. ~Coming(n, Witness)
      <4>1. Coming(n, Witness) => view[Witness][n].age <= SeenTicks + (IF n \in ticked THEN 0 ELSE 1)
        BY <1>1 DEF Sight
      <4> QED BY <2>2, <3>1, <4>1, Times
    <3> QED BY <3>2, <3>3 DEF Far
  <2>3. CASE ~Noted(v, Other(n))
    <3>1. Grants(Other(n), v) BY <1>1, <2>3, NotedStep
    <3>2. \/ view[Witness][Other(Other(n))].age >= Takeover
          \/ \E u \in Nat : Noted(u, Other(n)) /\ u > x
      BY <1>1, <1>2, <3>1, OldVote
    <3> QED BY <1>1, <2>1, <2>2, <3>2
  <2> QED BY <2>1, <2>3
<1>4. ASSUME beat'[Witness] = Heartbeat(Witness, p'[Witness], Fresh(Witness)),
             disk'[Witness] = p'[Witness]
      PROVE  beat'[Witness].term > x
  <2>1. beat'[Witness].term = Larger(p'[Witness].votedTerm, p'[Witness].term)
    BY <1>4 DEF Heartbeat
  <2>2. p'[Witness].votedTerm \in Nat /\ p'[Witness].term \in Nat
    <3>1. p'[Witness] \in Persisted BY <1>1 DEF TypeOK
    <3> QED BY <3>1 DEF Persisted
  <2>3. v <= p'[Witness].votedTerm
    <3>1. CASE <<v, Other(n)>> \in ledger'
      <4>1. <<v, Other(n)>>[1] <= p'[Witness].votedTerm BY <3>1 DEF Book
      <4> QED BY <4>1
    <3>2. CASE p'[Witness].votedTerm = v BY <3>2
    <3> QED BY <1>4, <3>1, <3>2 DEF Noted
  <2>4. /\ Larger(p'[Witness].votedTerm, p'[Witness].term) \in Nat
        /\ Larger(p'[Witness].votedTerm, p'[Witness].term) >= p'[Witness].votedTerm
    BY <2>2, LargerNat
  <2> QED BY <2>1, <2>2, <2>3, <2>4
<1> QED BY <1>1, <1>3, <1>4, FarStep

\* A node is active as before, or by its own tick.
LEMMA ActiveStep ==
  ASSUME Guarded, Facts, Facts', Basics, [Next]_vars, NEW n \in Node, IsActive(n)'
  PROVE  /\ \/ IsActive(n) /\ p'[n].term = p[n].term /\ ~NodeTurns(n)
            \/ /\ NodeTurns(n)
               /\ \E d : /\ Decided(n, p'[n], d) /\ carry'[n].mutualAge = d.mutualAge
         /\ p'[n].role = Active /\ Claims(p'[n])
<1> USE DEF Facts, Basics
<1>1. Trio BY DEF Guarded
<1>2. p'[n].role = Active /\ Claims(p'[n]) BY DEF IsActive, Claims
<1>3. CASE NodeTurns(n)
  <2>1. PICK r, d : /\ Decided(n, r, d)
                    /\ \/ p'[n] = r /\ carry'[n].mutualAge = d.mutualAge
                       \/ ~IsActive(n)'
    BY <1>1, <1>3, NodeEnds
  <2> QED BY <1>2, <1>3, <2>1
<1>4. ASSUME NEW m \in Node, m # n, NodeTurns(m)
      PROVE  IsActive(n) /\ p'[n].term = p[n].term
  BY <1>1, <1>4, NodeEnds
<1>5. Calm => IsActive(n) /\ p'[n].term = p[n].term BY DEF Calm
<1>6. CASE ~NodeTurns(n)
  <2>1. (\E m \in Node : m # n /\ NodeTurns(m)) \/ Calm
    <3>1. \/ \E m \in Node : NodeTurns(m) \/ Answers(m)
          \/ WitnessTurns \/ TickPasses \/ Idles
          \/ \E x \in Proc : Crashes(x)
      BY Steps
    <3>2. ASSUME NEW m \in Node, Answers(m) PROVE Calm BY <3>2, OthersCalm
    <3>3. WitnessTurns \/ TickPasses \/ Idles \/ (\E x \in Proc : Crashes(x)) => Calm
      BY OthersCalm
    <3> QED BY <1>6, <3>1, <3>2, <3>3
  <2> QED BY <1>2, <1>4, <1>5, <1>6, <2>1
<1> QED BY <1>3, <1>6

\* As a node takes or keeps a term, the witness has no vote above it.
LEMMA NoneAbove ==
  ASSUME Guarded, Facts, Basics, Outvoted, NEW n \in Node, Turn(n), NEW x \in Nat, Bid(n, x),
         Mutual(n, Fresh(n)[Witness]), Fresh(n)[Witness].hb.term <= x,
         NEW v \in Nat, Noted(v, Other(n))
  PROVE  v <= x
<1> USE DEF Facts, Basics
<1>1. Witness \in Peers(n) BY TrioProc DEF Guarded
<1>2. Fresh(n)[Witness].hb.term \in Nat
  <2>1. n \in Proc /\ Witness \in Proc BY <1>1, Identities DEF Peers
  <2>2. Fresh(n) \in [Proc -> Obs] BY <2>1, HearTypes DEF Fresh
  <2> QED BY <2>1, <2>2 DEF Obs, Beat
<1>3. CASE v > x
  <2>1. Far(n, Witness, x) BY <1>3 DEF Outvoted
  <2>2. Fresh(n)[Witness].hb.term > x BY <1>1, <2>1, FarMutual
  <2> QED BY <1>2, <2>2
<1> QED BY <1>3

\* The node that wins a term: nobody has a vote above it.
LEMMA WonTop ==
  ASSUME Guarded, Facts, Basics, Outvoted, NEW n \in Node, NodeTurns(n), Won(n)
  PROVE  /\ granted[n] \in Nat /\ granted[n] > 1 /\ granted[n] > p[n].term
         /\ <<granted[n], n>> \in ledger
         /\ \A v \in Nat : Noted(v, Other(n)) => v <= granted[n]
<1> USE DEF Facts, Basics
<1>1. n \in Proc BY Identities
<1>2. granted[n] \in Nat /\ p[n].term \in Nat /\ p[n].term >= 1
  BY <1>1 DEF TypeOK, Persisted, Started
<1>3. /\ granted[n] > p[n].term /\ <<granted[n], n>> \in ledger
      /\ Mutual(n, Fresh(n)[Witness]) /\ Fresh(n)[Witness].hb.term <= granted[n]
  BY DEF Won
<1>4. Turn(n) /\ Bid(n, granted[n]) BY <1>3, NodeEnds DEF Bid, Guarded
<1> QED BY <1>2, <1>3, <1>4, NoneAbove

\* A node whose partner owns a newer term is not active in its own.
LEMMA ReplacedStep ==
  ASSUME Guarded, Facts, Facts', Basics, Sight, Outvoted, Replaced, Trusts, Unheard, [Next]_vars
  PROVE  Replaced'
<1> USE DEF Facts, Basics
<1> SUFFICES ASSUME NEW n \in Node, NEW x \in Nat, NEW v \in Nat,
                    Owns(n, x)', Owns(Other(n), v)', v > x
             PROVE  Far(n, Other(n), x)' /\ (IsActive(n)' => p'[n].term # x)
  BY DEF Replaced
<1> DEFINE c == Other(n)
<1>1. /\ Trio /\ n \in Proc /\ Witness \in Proc /\ c \in Proc /\ c \in Peers(n) /\ n \in Peers(c)
      /\ c \in Node /\ c # n /\ Other(c) = n /\ Witness \notin Node
  BY TrioProc, Identities DEF Guarded
<1>2. Owns(n, x)
  <2>1. CASE NodeTurns(n) /\ Won(n) /\ x = granted[n]
    <3>1. Owns(c, v) BY <1>1, <2>1, NodeTickOwnsWon
    <3>2. x > 1 BY <2>1, WonTop
    <3>3. v > 1 BY <3>2
    <3>4. <<v, c>> \in ledger BY <1>1, <3>1, <3>3, OwnsVoted
    <3>5. v <= x BY <2>1, <3>4, WonTop DEF Noted
    <3> QED BY <3>5
  <2> QED BY <2>1, Claiming
<1>3. x >= 1 BY <1>2, OwnsVoted
<1>4. Far(n, c, x) /\ (IsActive(n) => p[n].term # x) /\ Noted(v, c)
  <2>1. CASE Owns(c, v)
    <3>1. v > 1 BY <1>3
    <3>2. <<v, c>> \in ledger BY <1>1, <2>1, <3>1, OwnsVoted
    <3> QED BY <1>2, <2>1, <3>2 DEF Replaced, Noted
  <2>2. CASE NodeTurns(c) /\ Won(c) /\ v = granted[c]
    <3> DEFINE pa == Fresh(c)[n]
    <3>1. /\ Noted(v, c) /\ p[c].seq = 0
          /\ (Seen(pa) /\ ~Claims(pa.hb)) \/ Absent(pa, Takeover)
      BY <1>1, <2>2 DEF Won, Noted
    <3>2. Turn(c) BY <1>1, <2>2, NodeEnds
    <3>3. \/ pa = view[c][n]
          \/ <<n, c>> \in air /\ pa = [heard |-> TRUE, age |-> 0, hb |-> beat[n]]
      BY <1>1, <3>2, Renewed
    <3>4. /\ view[c][n].age \in Nat /\ view[n][c].age \in Nat /\ view[c][n].hb.term \in Nat
          /\ beat[n].term \in Nat /\ p[n].term \in Nat
      BY <1>1, ViewTypes
    <3>5. CASE Seen(pa) /\ ~Claims(pa.hb)
      <4>1. CASE pa = view[c][n]
        <5>1. pa.hb.term < x BY <1>1, <1>2, <3>5, <4>1 DEF BeforeClaim, Seen
        <5>2. view[c][n].age > SeenTicks
          BY <1>1, <1>2, <3>1, <3>5, <4>1, <5>1 DEF Unheard, Seen
        <5>3. view[c][n].age <= SeenTicks BY <3>5, <4>1 DEF Seen
        <5> QED BY <3>4, <5>2, <5>3, Times
      <4>2. CASE <<n, c>> \in air /\ pa = [heard |-> TRUE, age |-> 0, hb |-> beat[n]]
        <5>1. pa.hb = beat[n] BY <4>2
        <5>2. beat[n].term < x BY <1>2, <3>5, <5>1 DEF BeforeClaim
        <5>3. beat[n].term >= x BY <1>1, <1>2, <3>1, <4>2 DEF Unheard
        <5> QED BY <3>4, <5>2, <5>3
      <4> QED BY <3>3, <4>1, <4>2
    <3>6. CASE Absent(pa, Takeover)
      <4>1. view[c][n].age >= Takeover
        <5>1. pa # [heard |-> TRUE, age |-> 0, hb |-> beat[n]]
          BY <3>6, Times DEF Absent
        <5> QED BY <3>3, <3>6, <5>1 DEF Absent
      <4>2. ~Mutual(n, view[n][c])
        <5>1. Mutual(n, view[n][c]) => view[c][n].age <= SeenTicks + 1 + view[n][c].age
          BY <1>1 DEF Sight
        <5>2. Mutual(n, view[n][c]) => view[n][c].age <= SeenTicks BY DEF Mutual, Seen
        <5> QED BY <3>4, <4>1, <5>1, <5>2, Times
      <4>3. ~Coming(n, c)
        <5>1. Coming(n, c) => view[c][n].age <= SeenTicks + (IF n \in ticked THEN 0 ELSE 1)
          BY <1>1 DEF Sight
        <5> QED BY <3>4, <4>1, <5>1, Times
      <4>4. ASSUME IsActive(n), p[n].term = x PROVE FALSE
        <5>1. ~NoRival(n) BY <3>1, <4>4 DEF NoRival
        <5>2. view[c][n].age <= Lag + carry[n].mutualAge
          BY <3>1, <4>4, <5>1 DEF Trusts, Trusting
        <5>3. carry[n].mutualAge <= FenceAfter /\ carry[n].mutualAge \in Nat
          BY DEF MutualAges, TypeOK, Carry
        <5> QED BY <3>4, <4>1, <5>2, <5>3, Times
      <4> QED BY <3>1, <4>2, <4>3, <4>4 DEF Far
    <3> QED BY <3>1, <3>5, <3>6
  <2> QED BY <1>1, <2>1, <2>2, Claiming
<1>5. Far(n, c, x)'
  <2>1. ASSUME beat'[c] = Heartbeat(c, p'[c], Fresh(c)), disk'[c] = p'[c]
        PROVE  beat'[c].term > x
    <3>1. p'[c].term = v BY <2>1 DEF Owns
    <3>2. beat'[c].term = v BY <1>1, <2>1, <3>1 DEF Heartbeat
    <3> QED BY <3>2
  <2> QED BY <1>1, <1>4, <2>1, FarStep
<1>6. ASSUME IsActive(n)', p'[n].term = x PROVE FALSE
  <2>1. CASE IsActive(n) /\ p'[n].term = p[n].term BY <1>4, <1>6, <2>1
  <2>2. CASE NodeTurns(n) /\ \E d : Decided(n, p'[n], d)
    <3>1. PICK d : Decided(n, p'[n], d) BY <2>2
    <3>2. Turn(n) BY <1>1, <2>2, NodeEnds
    <3>3. /\ Fresh(n)[c].hb.term <= x /\ Fresh(n)[Witness].hb.term <= x
          /\ (GoesOn(n) /\ p[n].term = x) \/ (x = granted[n] /\ Won(n))
      BY <1>6, <3>1, ActiveStep DEF Decided
    <3>4. Fresh(n)[c].hb.term \in Nat
      <4>1. Fresh(n) \in [Proc -> Obs] BY <1>1, HearTypes DEF Fresh
      <4> QED BY <1>1, <4>1 DEF Obs, Beat
    <3>5. ~Mutual(n, Fresh(n)[c])
      <4>1. Mutual(n, Fresh(n)[c]) => Fresh(n)[c].hb.term > x
        BY <1>1, <1>4, <3>2, FarMutual
      <4> QED BY <3>3, <3>4, <4>1
    <3>6. Bid(n, x) BY <1>2 DEF Bid
    <3>7. ~Mutual(n, Fresh(n)[Witness])
      <4>1. Mutual(n, Fresh(n)[Witness]) => v <= x
        BY <1>4, <3>2, <3>3, <3>6, NoneAbove
      <4> QED BY <4>1
    <3> QED BY <1>4, <3>3, <3>5, <3>7 DEF GoesOn, Won
  <2> QED BY <1>6, <2>1, <2>2, ActiveStep
<1> QED BY <1>5, <1>6

\* What n believes as its tick ends keeps it trusted.
LEMMA TickTrusts ==
  ASSUME Guarded, Facts, Facts', Basics, Sight', Outvoted, Trusts,
         NEW n \in Node, NodeTurns(n), [Next]_vars, IsActive(n)'
  PROVE  Trusting(n)'
<1> USE DEF Facts, Basics
<1> DEFINE c == Other(n)
           pa == Fresh(n)[c]
           w == Fresh(n)[Witness]
           m == carry'[n].mutualAge
<1>1. /\ Trio /\ n \in Proc /\ Witness \in Proc /\ c \in Proc /\ c \in Peers(n) /\ Witness \in Peers(n)
      /\ c \in Node /\ c # n /\ Other(c) = n /\ Witness \notin Node /\ Witness # n
  BY TrioProc, Identities DEF Guarded
<1>2. Turn(n) BY <1>1, NodeEnds
<1>3. /\ view'[c] = view[c] /\ view'[Witness] = view[Witness] /\ view'[n] = Fresh(n)
      /\ p'[c] = p[c] /\ UNCHANGED ledger
      /\ p'[Witness] = p[Witness] /\ disk'[Witness] = disk[Witness]
      /\ pa.hb \in {view[n][c].hb, beat[c]}
  <2>1. /\ view'[c] = view[c] /\ view'[Witness] = view[Witness] /\ view'[n] = Fresh(n)
        /\ p'[c] = p[c]
    BY <1>1, <1>2, TurnNet
  <2>2. \/ pa = view[n][c]
        \/ pa = [heard |-> TRUE, age |-> 0, hb |-> beat[c]]
    BY <1>1, <1>2, Renewed
  <2>3. [heard |-> TRUE, age |-> 0, hb |-> beat[c]].hb = beat[c] OBVIOUS
  <2>4. pa.hb \in {view[n][c].hb, beat[c]} BY <2>2, <2>3
  <2> QED BY <1>1, <2>1, <2>4, NodeEnds DEF NodeTurns
<1>4. PICK d : Decided(n, p'[n], d) /\ m = d.mutualAge
  <2>1. \/ IsActive(n) /\ p'[n].term = p[n].term /\ ~NodeTurns(n)
        \/ /\ NodeTurns(n)
           /\ \E d : /\ Decided(n, p'[n], d) /\ carry'[n].mutualAge = d.mutualAge
    BY ActiveStep
  <2> QED BY <2>1
<1>5. p'[n].role = Active /\ Claims(p'[n]) BY ActiveStep
<1>6. /\ m = IF Mutual(n, pa) \/ Mutual(n, w) THEN 0 ELSE carry[n].mutualAge
      /\ pa.hb.term <= p'[n].term /\ w.hb.term <= p'[n].term
      /\ \/ Claims(p[n]) /\ p'[n].term = p[n].term /\ GoesOn(n)
         \/ p'[n].term = granted[n] /\ Won(n)
  BY <1>4, <1>5 DEF Decided
<1>7. /\ view'[c][n].age \in Nat /\ view'[Witness][n].age \in Nat /\ p'[n].term \in Nat
      /\ view'[n][c].age \in Nat /\ view'[n][Witness].age \in Nat
      /\ view[n][c].hb.seq \in Nat /\ beat[c].seq \in Nat /\ p[c].seq \in Nat
  <2>1. p'[n].term \in Nat BY <1>1, Growing
  <2>2. view'[n] \in [Proc -> Obs] BY <1>1 DEF TypeOK
  <2> QED BY <1>1, <1>3, <2>1, <2>2, ViewTypes DEF Obs
<1>8. CASE Mutual(n, pa)
  <2>1. m = 0 BY <1>6, <1>8
  <2>2. view'[c][n].age <= SeenTicks + 1 + view'[n][c].age BY <1>1, <1>3, <1>8 DEF Sight
  <2>3. view'[n][c].age <= SeenTicks BY <1>3, <1>8 DEF Mutual, Seen
  <2>4. view'[c][n].age <= Lag + m /\ m < FenceAfter BY <1>7, <2>1, <2>2, <2>3, Times
  <2> QED BY <2>4 DEF Trusting
<1>9. CASE Mutual(n, w)
  <2>1. m = 0 BY <1>6, <1>9
  <2>2. view'[Witness][n].age <= SeenTicks + 1 + view'[n][Witness].age
    BY <1>1, <1>3, <1>9 DEF Sight
  <2>3. view'[n][Witness].age <= SeenTicks BY <1>3, <1>9 DEF Mutual, Seen
  <2>4. view'[Witness][n].age <= Lag + m /\ m < FenceAfter BY <1>7, <2>1, <2>2, <2>3, Times
  <2>5. Bid(n, p'[n].term)
    <3>1. CASE Claims(p[n]) /\ p'[n].term = p[n].term BY <3>1 DEF Bid, Owns
    <3>2. CASE p'[n].term = granted[n] /\ Won(n) BY <3>2 DEF Won, Bid
    <3> QED BY <1>6, <3>1, <3>2
  <2>6. NoRival(n)'
    <3>1. \A v \in Nat : Noted(v, c) => v <= p'[n].term
      BY <1>2, <1>6, <1>7, <1>9, <2>5, NoneAbove
    <3> QED BY <1>3, <3>1 DEF NoRival, Noted
  <2> QED BY <2>4, <2>6 DEF Trusting
<1>10. CASE ~Mutual(n, pa) /\ ~Mutual(n, w)
  <2>1. m = carry[n].mutualAge BY <1>6, <1>10
  <2>2. ~Won(n) BY <1>10 DEF Won
  <2>3. Claims(p[n]) /\ p'[n].term = p[n].term /\ GoesOn(n) BY <1>6, <2>2
  <2>4. /\ IsActive(n)
        /\ \/ carry[n].mutualAge < FenceAfter \/ pa.hb.seq > 0
           \/ Seen(pa) /\ pa.hb.role = Active /\ pa.hb.term = p[n].term
    BY <1>10, <2>3 DEF GoesOn
  <2>5. pa.hb.seq > 0 => p[c].seq > 0
    <3>1. n \in Peers(c) BY <1>1 DEF Peers
    <3>2. view[n][c].hb.seq <= p[c].seq /\ beat[c].seq <= p[c].seq BY <1>1, <3>1 DEF Hearsay
    <3> QED BY <1>3, <1>7, <3>2
  <2>6. ~(Seen(pa) /\ pa.hb.role = Active /\ pa.hb.term = p[n].term)
    <3> SUFFICES ASSUME pa.hb.role = Active, pa.hb.term = p[n].term PROVE FALSE OBVIOUS
    <3>1. n \in Peers(c) BY <1>1 DEF Peers
    <3>2. Justly(c, pa.hb) BY <1>1, <1>3, <3>1 DEF Signed
    <3>3. Claims(pa.hb) BY DEF Claims
    <3>4. p[n].term \in Nat /\ p[n].term >= 1 /\ Owns(n, p[n].term)
      BY <1>1, <2>3, ViewTypes DEF Started, Owns
    <3>5. CASE p[n].term = 1 BY <1>1, <3>2, <3>3, <3>4, <3>5 DEF Justly
    <3>6. CASE p[n].term # 1
      <4>1. <<p[n].term, c>> \in ledger BY <3>2, <3>3, <3>6 DEF Justly
      <4>2. <<p[n].term, n>> \in ledger BY <3>4, <3>6, OwnsVoted
      <4>3. <<p[n].term, c>>[1] = <<p[n].term, n>>[1] OBVIOUS
      <4>4. <<p[n].term, c>> = <<p[n].term, n>> BY <4>1, <4>2, <4>3 DEF OneVotePerTerm
      <4> QED BY <1>1, <4>4
    <3> QED BY <3>5, <3>6
  <2>7. Trusting(n) BY <2>4 DEF Trusts
  <2>8. CASE p[c].seq > 0 BY <1>3, <2>8 DEF Trusting
  <2>9. CASE /\ carry[n].mutualAge < FenceAfter
             /\ \/ view[c][n].age <= Lag + carry[n].mutualAge
                \/ view[Witness][n].age <= Lag + carry[n].mutualAge /\ NoRival(n)
    <3>1. NoRival(n) => NoRival(n)' BY <1>3, <2>3 DEF NoRival, Noted
    <3> QED BY <1>3, <2>1, <2>9, <3>1 DEF Trusting
  <2> QED BY <2>4, <2>5, <2>6, <2>7, <2>8, <2>9 DEF Trusting
<1> QED BY <1>8, <1>9, <1>10

\* An active node was heard lately by its partner or by a witness that gave no
\* newer vote, or its partner is under maintenance.
LEMMA TrustsStep ==
  ASSUME Guarded, Facts, Facts', Basics, Sight', Outvoted, Trusts, [Next]_vars
  PROVE  Trusts'
<1> USE DEF Facts, Basics
<1> SUFFICES ASSUME NEW n \in Node, IsActive(n)', ~NodeTurns(n)
             PROVE  Trusting(n)'
  BY TickTrusts DEF Trusts
<1> DEFINE c == Other(n)
           m == carry[n].mutualAge
           k == carry'[n].mutualAge
<1>1. /\ Trio /\ n \in Proc /\ Witness \in Proc /\ c \in Proc
      /\ c \in Node /\ c # n /\ Other(c) = n /\ Witness \notin Node /\ Witness # n
      /\ \A x \in Node : x = n \/ x = c
  BY TrioProc, Identities DEF Guarded
<1>2. IsActive(n) /\ p'[n].term = p[n].term /\ Trusting(n)
  BY ActiveStep DEF Trusts
<1>3. /\ view[c][n].age \in Nat /\ view[Witness][n].age \in Nat /\ m \in Nat /\ p[n].term \in Nat
      /\ p[c].seq \in Nat /\ p'[c].seq \in Nat /\ p'[c].seq >= p[c].seq /\ m <= FenceAfter
      /\ k \in Nat
  <2>1. carry[n] \in Carry /\ carry'[n] \in Carry BY DEF TypeOK
  <2>2. p[c].seq \in Nat /\ p'[c].seq \in Nat /\ p'[c].seq >= p[c].seq BY <1>1, Growing
  <2> QED BY <1>1, <2>1, <2>2, ViewTypes DEF Carry, MutualAges
<1>4. CASE p[c].seq > 0
  <2>1. p'[c].seq > 0 BY <1>3, <1>4
  <2> QED BY <2>1 DEF Trusting
<1>5. CASE /\ m < FenceAfter \/ n \notin ticked
           /\ \/ view[c][n].age <= Lag + m
              \/ view[Witness][n].age <= Lag + m /\ NoRival(n)
  <2>1. ASSUME k = m, n \in ticked' <=> n \in ticked,
               view'[c][n].age \in Nat, view'[c][n].age <= view[c][n].age,
               view'[Witness][n].age \in Nat, view'[Witness][n].age <= view[Witness][n].age,
               NoRival(n) /\ view[Witness][n].age <= Lag + m => NoRival(n)'
        PROVE  Trusting(n)'
    <3>1. view[c][n].age <= Lag + m => view'[c][n].age <= Lag + k BY <1>3, <2>1, Times
    <3>2. view[Witness][n].age <= Lag + m => view'[Witness][n].age <= Lag + k
      BY <1>3, <2>1, Times
    <3>3. k < FenceAfter \/ n \notin ticked' BY <1>5, <2>1
    <3> QED BY <1>5, <2>1, <3>1, <3>2, <3>3 DEF Trusting
  <2>2. ASSUME NEW x \in Node, Answers(x) PROVE Trusting(n)'
    <3>1. UNCHANGED <<view, carry, ticked>> BY <2>2 DEF Answers
    <3>2. NoRival(n) /\ view[Witness][n].age <= Lag + m => NoRival(n)'
      <4> SUFFICES ASSUME NoRival(n), view[Witness][n].age <= Lag + m,
                          NEW v \in Nat, Noted(v, c)', ~Noted(v, c)
                   PROVE  FALSE
        BY <1>2 DEF NoRival
      <4>1. Grants(c, v) BY <1>1, NotedStep
      <4>2. Bid(n, p[n].term) BY <1>2 DEF Bid, Owns, IsActive, Claims
      <4>3. \/ view[Witness][n].age >= Takeover
            \/ \E u \in Nat : Noted(u, c) /\ u > p[n].term
        BY <1>1, <1>3, <4>1, <4>2, OldVote
      <4>4. ~(view[Witness][n].age >= Takeover) BY <1>3, Times
      <4>5. ASSUME NEW u \in Nat, Noted(u, c), u > p[n].term PROVE FALSE
        BY <1>3, <4>5 DEF NoRival
      <4> QED BY <4>3, <4>4, <4>5
    <3> QED BY <1>3, <2>1, <3>1, <3>2
  <2> SUFFICES ASSUME \A x \in Node : ~Answers(x) PROVE Trusting(n)' BY <2>2
  <2>3. NoRival(n) => NoRival(n)' BY <1>1, <1>2, NotedStep DEF NoRival
  <2>4. ASSUME NEW z \in Proc, z # n, Turn(z), k = m PROVE Trusting(n)'
    <3>1. ticked' = ticked \cup {z} BY <2>4 DEF Turn, Listens
    <3>2. ASSUME NEW x \in Proc
          PROVE  view'[x][n] = view[x][n] \/ view'[x][n].age = 0
      <4>1. x # z => view'[x] = view[x] BY <2>4, TurnNet
      <4>2. view'[z] = Fresh(z) BY <2>4, TurnNet
      <4>3. \/ Fresh(z)[n] = view[z][n]
            \/ Fresh(z)[n] = [heard |-> TRUE, age |-> 0, hb |-> beat[n]]
        BY <1>1, <2>4, Renewed
      <4>4. Fresh(z)[n] = view[z][n] \/ Fresh(z)[n].age = 0 BY <4>3
      <4> QED BY <4>1, <4>2, <4>4
    <3>3. /\ view'[c][n].age \in Nat /\ view'[c][n].age <= view[c][n].age
          /\ view'[Witness][n].age \in Nat /\ view'[Witness][n].age <= view[Witness][n].age
      <4>1. view'[c][n] = view[c][n] \/ view'[c][n].age = 0 BY <1>1, <3>2
      <4>2. view'[Witness][n] = view[Witness][n] \/ view'[Witness][n].age = 0 BY <1>1, <3>2
      <4> QED BY <1>3, <4>1, <4>2
    <3>4. n \in ticked' <=> n \in ticked BY <2>4, <3>1
    <3> QED BY <2>3, <2>1, <2>4, <3>3, <3>4
  <2>5. ASSUME NEW x \in Node, NodeTurns(x) PROVE Trusting(n)'
    <3>1. x # n /\ x \in Proc BY <2>5, Identities
    <3>2. Turn(x) /\ k = m BY <1>1, <2>5, <3>1, NodeEnds
    <3> QED BY <2>4, <3>1, <3>2
  <2>6. WitnessTurns => Trusting(n)' BY <1>1, <2>4 DEF WitnessTurns
  <2>7. CASE TickPasses
    <3>1. /\ ticked' = {} /\ (up[n] => n \in ticked) /\ UNCHANGED up
          /\ k = IF up[n] THEN Older(m, FenceAfter) ELSE m
      BY <1>1, <2>7, Passing
    <3>2. up[n] BY <1>2 DEF IsActive
    <3>3. m < FenceAfter BY <1>5, <3>1, <3>2
    <3>4. k = m + 1 BY <1>3, <3>1, <3>2, <3>3 DEF Older
    <3>5. /\ view'[c][n].age \in Nat /\ view'[c][n].age <= view[c][n].age + 1
          /\ view'[Witness][n].age \in Nat /\ view'[Witness][n].age <= view[Witness][n].age + 1
      BY <1>1, <2>7, AgePasses
    <3>6. view[c][n].age <= Lag + m => view'[c][n].age <= Lag + k BY <1>3, <3>4, <3>5, Times
    <3>7. view[Witness][n].age <= Lag + m => view'[Witness][n].age <= Lag + k
      BY <1>3, <3>4, <3>5, Times
    <3>8. n \notin ticked' BY <3>1
    <3> QED BY <1>5, <2>3, <3>1, <3>6, <3>7, <3>8 DEF Trusting
  <2>8. Idles => Trusting(n)'
    <3> SUFFICES ASSUME Idles PROVE Trusting(n)' OBVIOUS
    <3>1. UNCHANGED <<view, carry, ticked>> BY DEF Idles
    <3> QED BY <1>3, <2>3, <2>1, <3>1
  <2>9. ASSUME NEW x \in Proc, Crashes(x) PROVE Trusting(n)'
    <3>1. /\ up' = [up EXCEPT ![x] = FALSE] /\ UNCHANGED ticked
          /\ view' = [view EXCEPT ![x] = [y \in Proc |-> NeverSeen]]
          /\ k = IF n = x THEN NoCarry.mutualAge ELSE m
      BY <2>9 DEF Crashes
    <3>2. n # x BY <1>1, <3>1 DEF IsActive, TypeOK
    <3>3. /\ view'[c][n] = view[c][n] \/ view'[c][n] = NeverSeen
          /\ view'[Witness][n] = view[Witness][n] \/ view'[Witness][n] = NeverSeen
      BY <1>1, <3>1 DEF TypeOK
    <3>4. NeverSeen.age = 0 BY DEF NeverSeen
    <3>5. /\ view'[c][n].age \in Nat /\ view'[c][n].age <= view[c][n].age
          /\ view'[Witness][n].age \in Nat /\ view'[Witness][n].age <= view[Witness][n].age
      BY <1>3, <3>3, <3>4
    <3> QED BY <2>3, <2>1, <3>1, <3>2, <3>5
  <2> QED BY <2>5, <2>6, <2>7, <2>8, <2>9, Steps
<1> QED BY <1>2, <1>4, <1>5 DEF Trusting

\* While the partner still believes an older heartbeat, the witness heard the node almost as lately.
LEMMA RecentStep ==
  ASSUME Guarded, Facts, Facts', Basics, Sight', Recent, [Next]_vars
  PROVE  Recent'
<1> USE DEF Facts, Basics
<1> SUFFICES ASSUME NEW n \in Node, NEW x \in Nat, Owns(n, x)'
             PROVE  /\ view'[Other(n)][n].heard /\ view'[Other(n)][n].hb.term < x
                         => view'[Witness][n].age <= Lag + 1 + view'[Other(n)][n].age
                    /\ <<n, Other(n)>> \in air' /\ beat'[n].term < x
                         => view'[Witness][n].age <= Lag + (IF Other(n) \in ticked' THEN 0 ELSE 1)
  BY DEF Recent
<1> DEFINE c == Other(n)
           o == view[c][n]
           q == view'[c][n]
           i == view[Witness][n].age
           j == view'[Witness][n].age
           Good == /\ q.heard /\ q.hb.term < x => j <= Lag + 1 + q.age
                   /\ <<n, c>> \in air' /\ beat'[n].term < x
                        => j <= Lag + (IF c \in ticked' THEN 0 ELSE 1)
<1>1. /\ Trio /\ n \in Proc /\ Witness \in Proc /\ c \in Proc /\ Witness \in Peers(n)
      /\ c \in Node /\ c # n /\ Other(c) = n /\ Witness \notin Node /\ Witness # n /\ Witness # c
      /\ \A m \in Node : m = n \/ m = c
  BY TrioProc, Identities DEF Guarded
<1>2. o.age \in Nat /\ i \in Nat BY <1>1, ViewTypes
<1>3. CASE NodeTurns(n) /\ Won(n)
  <2>1. Turn(n) /\ Mutual(n, Fresh(n)[Witness]) BY <1>1, <1>3, NodeEnds DEF Won
  <2>2. /\ view'[n] = Fresh(n) /\ view'[Witness] = view[Witness] /\ view'[c] = view[c]
    BY <1>1, <2>1, TurnNet
  <2>3. j <= SeenTicks + 1 + view'[n][Witness].age BY <1>1, <2>1, <2>2 DEF Sight
  <2>4. view'[n][Witness].age <= SeenTicks BY <2>1, <2>2 DEF Mutual, Seen
  <2>5. view'[n][Witness].age \in Nat
    <3>1. Fresh(n) \in [Proc -> Obs] BY <1>1, HearTypes DEF Fresh
    <3> QED BY <1>1, <2>2, <3>1 DEF Obs
  <2>6. j <= Lag BY <1>2, <2>2, <2>3, <2>4, <2>5, Times
  <2>7. q.age = o.age /\ j = i BY <2>2
  <2> QED BY <1>2, <2>6, <2>7, Times
<1>4. CASE Owns(n, x)
  <2>1. /\ o.heard /\ o.hb.term < x => i <= Lag + 1 + o.age
        /\ <<n, c>> \in air /\ beat[n].term < x => i <= Lag + (IF c \in ticked THEN 0 ELSE 1)
    BY <1>4 DEF Recent
  <2>2. ASSUME NodeTurns(n) PROVE Good
    <3>1. Turn(n) BY <1>1, <2>2, NodeEnds
    <3>2. view'[Witness] = view[Witness] /\ view'[c] = view[c] BY <1>1, <3>1, TurnNet
    <3>3. c \in ticked' <=> c \in ticked BY <1>1, <3>1 DEF Turn, Listens
    <3>4. \/ beat'[n] = beat[n] /\ (<<n, c>> \in air' => <<n, c>> \in air)
          \/ beat'[n] = Heartbeat(n, p'[n], Fresh(n)) /\ disk'[n] = p'[n]
      BY <1>1, NetStep
    <3>5. beat'[n] = Heartbeat(n, p'[n], Fresh(n)) /\ disk'[n] = p'[n] => ~(beat'[n].term < x)
      <4> SUFFICES ASSUME beat'[n] = Heartbeat(n, p'[n], Fresh(n)), disk'[n] = p'[n]
                   PROVE  ~(beat'[n].term < x)
        OBVIOUS
      <4>1. p'[n].term = x BY DEF Owns
      <4>2. beat'[n].term = x BY <1>1, <4>1 DEF Heartbeat
      <4> QED BY <4>2
    <3>6. q = o /\ j = i BY <3>2
    <3> QED BY <2>1, <3>3, <3>4, <3>5, <3>6
  <2>3. ASSUME NEW z \in Proc, z # n, Turn(z) PROVE Good
    <3>1. beat'[n] = beat[n] /\ ticked' = ticked \cup {z} /\ z \notin ticked
      BY <1>1, <2>3, TurnNet DEF Turn, Listens
    <3>2. CASE z = c
      <4>1. <<n, c>> \notin air' /\ view'[Witness] = view[Witness] /\ view'[c] = Fresh(c)
        BY <1>1, <2>3, <3>2, TurnNet
      <4>2. \/ Fresh(c)[n] = o
            \/ <<n, c>> \in air /\ Fresh(c)[n] = [heard |-> TRUE, age |-> 0, hb |-> beat[n]]
        BY <1>1, <2>3, <3>2, Renewed
      <4>3. \/ q = o
            \/ <<n, c>> \in air /\ q.age = 0 /\ q.hb = beat[n]
        BY <4>1, <4>2
      <4>4. c \notin ticked /\ j = i BY <3>1, <3>2, <4>1
      <4> QED BY <1>2, <2>1, <4>1, <4>3, <4>4, Times
    <3>3. CASE z # c
      <4>1. /\ view'[c] = view[c] /\ (<<n, c>> \in air' => <<n, c>> \in air)
            /\ c \in ticked' <=> c \in ticked
        BY <1>1, <2>3, <3>1, <3>3, TurnNet
      <4>2. j \in Nat /\ j <= i
        <5>1. z # Witness => view'[Witness] = view[Witness] BY <1>1, <2>3, TurnNet
        <5>2. z = Witness => view'[Witness] = Fresh(Witness) BY <2>3, TurnNet
        <5>3. z = Witness => \/ Fresh(Witness)[n] = view[Witness][n]
                             \/ Fresh(Witness)[n] = [heard |-> TRUE, age |-> 0, hb |-> beat[n]]
          <6>1. \/ Fresh(z)[n] = view[z][n]
                \/ Fresh(z)[n] = [heard |-> TRUE, age |-> 0, hb |-> beat[n]]
            BY <1>1, <2>3, Renewed
          <6> QED BY <6>1
        <5>4. z = Witness => Fresh(Witness)[n].age = i \/ Fresh(Witness)[n].age = 0
          BY <5>3
        <5>5. j = i \/ j = 0 BY <5>1, <5>2, <5>4
        <5> QED BY <1>2, <5>5
      <4>3. q = o BY <4>1
      <4> QED BY <1>2, <2>1, <3>1, <4>1, <4>2, <4>3, Times
    <3> QED BY <3>2, <3>3
  <2>4. ASSUME NEW m \in Node, NodeTurns(m) PROVE Good
    <3>1. m # n => Turn(m) /\ m \in Proc BY <1>1, <2>4, Identities, NodeEnds
    <3> HIDE DEF Good
    <3> QED BY <2>2, <2>3, <2>4, <3>1
  <2>5. ASSUME WitnessTurns PROVE Good
    <3>1. Turn(Witness) BY <2>5 DEF WitnessTurns
    <3> HIDE DEF Good
    <3> QED BY <1>1, <2>3, <3>1
  <2>6. ASSUME UNCHANGED <<view, beat, air, ticked>> PROVE Good BY <2>1, <2>6
  <2>7. Idles => Good BY <2>6 DEF Idles
  <2>8. ASSUME NEW m \in Node, Answers(m) PROVE Good BY <2>6, <2>8 DEF Answers
  <2>9. ASSUME TickPasses PROVE Good
    <3>1. /\ q.heard = o.heard /\ q.hb = o.hb /\ UNCHANGED <<beat, up>> /\ ticked' = {}
          /\ up[c] => c \in ticked
          /\ <<n, c>> \in air' => <<n, c>> \in air /\ up[c]
      BY <1>1, <2>9, Passing
    <3>2. /\ q.age \in Nat /\ j \in Nat /\ j <= i + 1 /\ (~up[Witness] => j = i)
          /\ up[c] => q.age = Older(o.age, Takeover)
          /\ up[Witness] => j = Older(i, Takeover)
      BY <1>1, <2>9, AgePasses
    <3>3. NeverSeen.heard = FALSE /\ NeverSeen.age = 0 BY DEF NeverSeen
    <3>4. (o.heard => up[c]) /\ (~up[Witness] => i = 0) BY <1>1, <3>3 DEF Down
    <3>5. <<n, c>> \in air' /\ beat'[n].term < x => j <= Lag + 1
      <4>1. <<n, c>> \in air' /\ beat'[n].term < x => i <= Lag BY <1>2, <2>1, <3>1, Times
      <4> QED BY <1>2, <3>2, <4>1, Times
    <3>6. q.heard /\ q.hb.term < x => j <= Lag + 1 + q.age
      <4> SUFFICES ASSUME q.heard, q.hb.term < x PROVE j <= Lag + 1 + q.age OBVIOUS
      <4>1. up[c] /\ i <= Lag + 1 + o.age BY <2>1, <3>1, <3>4
      <4>2. CASE o.age < Takeover
        <5>1. q.age = o.age + 1 BY <3>2, <4>1, <4>2 DEF Older
        <5> QED BY <1>2, <3>2, <4>1, <5>1, Times
      <4>3. CASE o.age >= Takeover
        <5>1. q.age = Takeover BY <1>2, <3>2, <4>1, <4>3, Times DEF Older
        <5>2. j <= Takeover
          <6>1. up[Witness] => j <= Takeover BY <1>2, <3>2, Times DEF Older
          <6>2. ~up[Witness] => j = 0 BY <3>2, <3>4
          <6> QED BY <6>1, <6>2, Times
        <5> QED BY <3>2, <5>1, <5>2, Times
      <4> QED BY <1>2, <4>2, <4>3, Times
    <3> QED BY <3>1, <3>5, <3>6
  <2>10. ASSUME NEW z \in Proc, Crashes(z) PROVE Good
    <3>1. /\ UNCHANGED <<ticked, beat, air>>
          /\ view' = [view EXCEPT ![z] = [y \in Proc |-> NeverSeen]]
      BY <2>10 DEF Crashes
    <3>2. /\ q = o \/ q = NeverSeen
          /\ view'[Witness][n] = view[Witness][n] \/ view'[Witness][n] = NeverSeen
      BY <1>1, <3>1 DEF TypeOK
    <3>3. NeverSeen.heard = FALSE /\ NeverSeen.age = 0 BY DEF NeverSeen
    <3>4. j = i \/ j = 0 BY <3>2, <3>3
    <3>5. j \in Nat /\ j <= i BY <1>2, <3>4
    <3> QED BY <1>2, <2>1, <3>1, <3>2, <3>3, <3>5, Times
  <2> HIDE DEF Good
  <2>11. Good BY <2>4, <2>5, <2>7, <2>8, <2>9, <2>10, Steps
  <2> QED BY <2>11 DEF Good
<1> QED BY <1>3, <1>4, Claiming

\* A vote is asked for only when the partner was out of sight for the takeover time, or just came back.
LEMMA AskingStep ==
  ASSUME Guarded, Facts, Basics, Asking, [Next]_vars
  PROVE  Asking'
<1> USE DEF Facts, Basics
<1> SUFFICES ASSUME NEW n \in Node, request'[n].term # 0
             PROVE  /\ n \notin ticked' => request'[n].late
                    /\ view'[n][Other(n)].heard =>
                         \/ view'[n][Other(n)].age >= Takeover
                         \/ view'[n][Other(n)].age = 0 /\ request'[n].late /\ n \in ticked'
  BY DEF Asking
<1> DEFINE c == Other(n)
           o == view[n][c]
           q == view'[n][c]
           Good == /\ n \notin ticked' => request'[n].late
                   /\ q.heard => q.age >= Takeover \/ (q.age = 0 /\ request'[n].late /\ n \in ticked')
<1>1. /\ Trio /\ n \in Proc /\ Witness \in Proc /\ c \in Proc
      /\ c \in Node /\ c # n /\ Witness \notin Node /\ Witness # n
      /\ \A m \in Node : m = n \/ m = c
  BY TrioProc, Identities DEF Guarded
<1>2. o.age \in Nat /\ request[n] \in Letter BY <1>1, ViewTypes DEF TypeOK
<1>3. request[n].term # 0 =>
        /\ n \notin ticked => request[n].late
        /\ o.heard => o.age >= Takeover \/ (o.age = 0 /\ request[n].late /\ n \in ticked)
  BY DEF Asking
<1>4. ASSUME request'[n] = request[n], n \in ticked' <=> n \in ticked,
             q = o \/ q = NeverSeen
      PROVE  Good
  <2>1. NeverSeen.heard = FALSE BY DEF NeverSeen
  <2> QED BY <1>3, <1>4, <2>1
<1>5. ASSUME NodeTurns(n) PROVE Good
  <2>1. Turn(n) /\ (request'[n] = request[n] \/ Absent(Fresh(n)[c], Takeover))
    BY <1>1, <1>5, NodeEnds
  <2>2. n \in ticked' /\ n \notin ticked BY <2>1 DEF Turn, Listens
  <2>3. view'[n] = Fresh(n) BY <1>1, <2>1, TurnNet
  <2>4. CASE Absent(Fresh(n)[c], Takeover) BY <2>2, <2>3, <2>4 DEF Absent
  <2>5. CASE request'[n] = request[n]
    <3>1. Fresh(n)[c] = o \/ Fresh(n)[c] = [heard |-> TRUE, age |-> 0, hb |-> beat[c]]
      BY <1>1, <2>1, Renewed
    <3>2. q = o \/ q.age = 0 BY <2>3, <3>1
    <3>3. request'[n].late BY <1>3, <2>2, <2>5
    <3> QED BY <1>3, <2>2, <2>5, <3>2, <3>3
  <2> QED BY <2>1, <2>4, <2>5
<1>6. ASSUME NEW z \in Proc, z # n, Turn(z), request'[n] = request[n] PROVE Good
  <2>1. view'[n] = view[n] /\ (n \in ticked' <=> n \in ticked)
    BY <1>1, <1>6, TurnNet DEF Turn, Listens
  <2> QED BY <1>4, <1>6, <2>1
<1>7. ASSUME NEW m \in Node, NodeTurns(m) PROVE Good
  <2>1. m # n => Turn(m) /\ m \in Proc /\ request'[n] = request[n]
    BY <1>1, <1>7, Identities, NodeEnds
  <2> HIDE DEF Good
  <2> QED BY <1>5, <1>6, <1>7, <2>1
<1>8. ASSUME WitnessTurns PROVE Good
  <2>1. Turn(Witness) /\ UNCHANGED request BY <1>8 DEF WitnessTurns
  <2> HIDE DEF Good
  <2> QED BY <1>1, <1>6, <2>1
<1>9. ASSUME NEW m \in Node, Answers(m) PROVE Good
  <2>1. /\ request' = [request EXCEPT ![m] = NoLetter] /\ UNCHANGED <<view, ticked>>
    BY <1>9 DEF Answers
  <2>2. m # n
    <3>1. NoLetter.term = 0 BY DEF NoLetter
    <3>2. m = n => request'[n] = NoLetter BY <2>1 DEF TypeOK
    <3> QED BY <3>1, <3>2
  <2>3. request'[n] = request[n] BY <2>1, <2>2 DEF TypeOK
  <2> QED BY <1>4, <2>1, <2>3
<1>10. ASSUME Idles PROVE Good
  <2>1. UNCHANGED <<view, ticked, request>> BY <1>10 DEF Idles
  <2> QED BY <1>4, <2>1
<1>11. ASSUME NEW z \in Proc, Crashes(z) PROVE Good
  <2>1. /\ UNCHANGED <<ticked, request>>
        /\ view' = [view EXCEPT ![z] = [y \in Proc |-> NeverSeen]]
    BY <1>11 DEF Crashes
  <2>2. q = o \/ q = NeverSeen BY <1>1, <2>1 DEF TypeOK
  <2> QED BY <1>4, <2>1, <2>2
<1>12. ASSUME TickPasses PROVE Good
  <2>1. /\ q.heard = o.heard /\ request'[n] = Delayed(request[n])
    BY <1>1, <1>12, Passing
  <2>2. /\ ~up[n] => q.age = o.age
        /\ up[n] => q.age = Older(o.age, Takeover)
    BY <1>1, <1>12, AgePasses
  <2>3. ~request[n].late
    <3>1. request[n].late => request'[n] = NoLetter BY <2>1 DEF Delayed
    <3>2. NoLetter.term = 0 BY DEF NoLetter
    <3> QED BY <3>1, <3>2
  <2>4. request'[n].late /\ request[n].term # 0
    <3>1. request'[n] = [request[n] EXCEPT !.late = request[n].term # 0]
      BY <2>1, <2>3 DEF Delayed
    <3> QED BY <1>2, <3>1 DEF Letter
  <2>5. o.heard => o.age >= Takeover BY <1>3, <2>3, <2>4
  <2>6. o.heard => q.age >= Takeover
    <3>1. o.age >= Takeover => Older(o.age, Takeover) = Takeover
      BY <1>2, Times DEF Older
    <3>2. o.age >= Takeover => q.age >= Takeover BY <2>2, <3>1, Times
    <3> QED BY <2>5, <3>2
  <2> QED BY <2>1, <2>4, <2>6
<1> HIDE DEF Good
<1>13. Good BY <1>7, <1>8, <1>9, <1>10, <1>11, <1>12, Steps
<1> QED BY <1>13 DEF Good

\* Once the partner has the vote of a newer term, what it heard before the claim is out of sight.
LEMMA UnheardStep ==
  ASSUME Guarded, Facts, Basics, Outvoted, Recent, Asking, Unheard, [Next]_vars
  PROVE  Unheard'
<1> USE DEF Facts, Basics
<1> SUFFICES ASSUME NEW n \in Node, NEW x \in Nat, NEW v \in Nat,
                    Owns(n, x)', Noted(v, Other(n))', v > x
             PROVE  /\ view'[Other(n)][n].heard /\ view'[Other(n)][n].hb.term < x
                         => view'[Other(n)][n].age > SeenTicks
                    /\ <<n, Other(n)>> \in air' => beat'[n].term >= x
  BY DEF Unheard
<1> DEFINE c == Other(n)
<1>1. /\ Trio /\ n \in Proc /\ Witness \in Proc /\ c \in Proc
      /\ c \in Node /\ c # n /\ Other(c) = n /\ Witness \notin Node /\ Witness # n
  BY TrioProc, Identities DEF Guarded
<1>2. /\ view[c][n].age \in Nat /\ view[Witness][n].age \in Nat /\ beat[n].term \in Nat
      /\ view[c][n].hb.term \in Nat
  BY <1>1, ViewTypes
<1>3. Owns(n, x)
  <2>1. CASE NodeTurns(n) /\ Won(n) /\ x = granted[n]
    <3>1. Noted(v, c) BY <1>1, <2>1, NodeEnds DEF NodeTurns, Noted
    <3>2. v <= x BY <2>1, <3>1, WonTop
    <3> QED BY <3>2
  <2> QED BY <2>1, Claiming
<1>4. /\ view[c][n].heard /\ view[c][n].hb.term < x => view[c][n].age > SeenTicks
      /\ <<n, c>> \in air => beat[n].term >= x
  <2>1. CASE \E u \in Nat : Noted(u, c) /\ u > x BY <1>3, <2>1 DEF Unheard
  <2>2. CASE Answers(c) /\ view[Witness][n].age >= Takeover
    <3>1. ASSUME <<n, c>> \in air, beat[n].term < x PROVE FALSE
      <4>1. view[Witness][n].age <= Lag + (IF c \in ticked THEN 0 ELSE 1)
        BY <1>3, <3>1 DEF Recent
      <4> QED BY <1>2, <2>2, <4>1, Times
    <3>2. ASSUME view[c][n].heard, view[c][n].hb.term < x PROVE view[c][n].age > SeenTicks
      <4>1. view[Witness][n].age <= Lag + 1 + view[c][n].age BY <1>3, <3>2 DEF Recent
      <4>2. view[c][n].age # 0 BY <1>2, <2>2, <4>1, Times
      <4>3. request[c].term # 0 BY <2>2 DEF Answers
      <4>4. view[c][n].age >= Takeover BY <1>1, <3>2, <4>2, <4>3 DEF Asking
      <4> QED BY <1>2, <4>4, Times
    <3> QED BY <1>2, <3>1, <3>2
  <2>3. CASE ~Noted(v, c)
    <3>1. Answers(c) /\ Grants(c, v) BY <1>1, <2>3, NotedStep
    <3>2. Bid(n, x) BY <1>3 DEF Bid
    <3>3. view[Witness][n].age >= Takeover \/ \E u \in Nat : Noted(u, c) /\ u > x
      BY <1>1, <3>1, <3>2, OldVote
    <3> QED BY <2>1, <2>2, <3>1, <3>3
  <2> QED BY <2>1, <2>3
<1>5. <<n, c>> \in air' => beat'[n].term >= x
  <2>1. \/ beat'[n] = beat[n] /\ (<<n, c>> \in air' => <<n, c>> \in air)
        \/ beat'[n] = Heartbeat(n, p'[n], Fresh(n)) /\ disk'[n] = p'[n]
    BY <1>1, NetStep
  <2>2. CASE beat'[n] = Heartbeat(n, p'[n], Fresh(n)) /\ disk'[n] = p'[n]
    <3>1. p'[n].term = x BY <2>2 DEF Owns
    <3>2. beat'[n].term = x BY <1>1, <2>2, <3>1 DEF Heartbeat
    <3> QED BY <3>2
  <2> QED BY <1>4, <2>1, <2>2
<1>6. ASSUME view'[c][n].heard, view'[c][n].hb.term < x PROVE view'[c][n].age > SeenTicks
  <2>1. NeverSeen.heard = FALSE BY DEF NeverSeen
  <2>2. CASE view'[c][n] = view[c][n] BY <1>4, <1>6, <2>2
  <2>3. CASE TickPasses
    <3>1. view'[c][n].heard = view[c][n].heard /\ view'[c][n].hb = view[c][n].hb
      BY <1>1, <2>3, Passing
    <3>2. /\ view'[c][n].age \in Nat
          /\ view'[c][n].age <= SeenTicks => view[c][n].age <= SeenTicks
      BY <1>1, <2>3, AgePasses
    <3> QED BY <1>2, <1>4, <1>6, <3>1, <3>2, Times
  <2>4. CASE view'[c][n] = NeverSeen BY <1>6, <2>1, <2>4
  <2>5. CASE <<n, c>> \in air /\ view'[c][n] = [heard |-> TRUE, age |-> 0, hb |-> beat[n]]
    <3>1. view'[c][n].hb = beat[n] BY <2>5
    <3> QED BY <1>2, <1>4, <1>6, <2>5, <3>1
  <2> QED BY <1>1, <2>2, <2>3, <2>4, <2>5, ViewStep
<1> QED BY <1>5, <1>6

\* What keeps two claims apart: who hears whom, and how late at most.
Kernel == Sight /\ Outvoted /\ Replaced /\ Trusts /\ Recent /\ Asking /\ Unheard

\* Each part of the kernel is kept with the others before the step, and with
\* the sight after it.
LEMMA KernelStep ==
  ASSUME Guarded, Facts, Facts', Basics, Basics', Kernel, [Next]_vars
  PROVE  Kernel'
<1>1. Sight /\ Outvoted /\ Replaced /\ Trusts /\ Recent /\ Asking /\ Unheard
  BY DEF Kernel
<1>2. Sight' BY <1>1, SightStep
<1>3. Outvoted' BY <1>1, OutvotedStep
<1>4. Replaced' BY <1>1, ReplacedStep
<1>5. Trusts' BY <1>1, <1>2, TrustsStep
<1>6. Recent' BY <1>1, <1>2, RecentStep
<1>7. Asking' BY <1>1, AskingStep
<1>8. Unheard' BY <1>1, UnheardStep
<1> QED BY <1>2, <1>3, <1>4, <1>5, <1>6, <1>7, <1>8 DEF Kernel

\* A set-up cluster: one node claims the first term, nothing is heard or voted.
LEMMA SetUp ==
  ASSUME Guarded, Init
  PROVE  /\ \E a \in Node : \A n \in Node, x \in Nat : Owns(n, x) => n = a /\ x = 1
         /\ \A z \in Proc :
              /\ p[z].term = 1 /\ p[z].seq = 0 /\ p[z].maint = FALSE
              /\ p[z].votedFor = Nobody /\ p[z].votedTerm = 0
              /\ disk[z] = p[z] /\ beat[z] = NoBeat /\ up[z]
              /\ \A y \in Proc : view[z][y] = NeverSeen
         /\ \A n \in Node : /\ carry[n] = NoCarry /\ request[n] = NoLetter
                            /\ real[n] = TRUE /\ demotes[n] = <<>>
         /\ air = {} /\ ledger = {}
<1>1. PICK a \in Node :
        p = [x \in Proc |-> StateFile(IF x = a THEN Active
                                     ELSE IF x = Witness THEN Zeuge ELSE Passive)]
  BY DEF Init
<1>2. \A role : /\ StateFile(role).role = role /\ StateFile(role).term = 1
                /\ StateFile(role).seq = 0 /\ StateFile(role).maint = FALSE
                /\ StateFile(role).votedFor = Nobody /\ StateFile(role).votedTerm = 0
  BY DEF StateFile
<1>3. disk = p /\ Node \subseteq Proc /\ Witness \notin Node BY Identities DEF Init
<1>4. \A n \in Node, x \in Nat : Owns(n, x) => n = a /\ x = 1
  <2>1. \A n \in Node : p[n].term = 1 /\ disk[n] = p[n] BY <1>1, <1>2, <1>3
  <2>2. \A n \in Node : Claims(p[n]) => n = a
    BY <1>1, <1>2, <1>3 DEF Claims, Active, Fenced, Passive
  <2> QED BY <2>1, <2>2 DEF Owns
<1>5. ASSUME NEW z \in Proc
      PROVE  /\ p[z].term = 1 /\ p[z].seq = 0 /\ p[z].maint = FALSE
             /\ p[z].votedFor = Nobody /\ p[z].votedTerm = 0
             /\ disk[z] = p[z] /\ beat[z] = NoBeat /\ up[z]
             /\ \A y \in Proc : view[z][y] = NeverSeen
  <2>1. /\ p[z].term = 1 /\ p[z].seq = 0 /\ p[z].maint = FALSE
        /\ p[z].votedFor = Nobody /\ p[z].votedTerm = 0
    BY <1>1, <1>2
  <2>2. disk[z] = p[z] BY <1>3
  <2>3. beat[z] = NoBeat /\ up[z] /\ \A y \in Proc : view[z][y] = NeverSeen BY DEF Init
  <2> QED BY <2>1, <2>2, <2>3
<1>6. ASSUME NEW n \in Node
      PROVE  /\ carry[n] = NoCarry /\ request[n] = NoLetter
             /\ real[n] = TRUE /\ demotes[n] = <<>>
  <2>1. real[n] \in {TRUE} BY DEF Init, Guarded
  <2> QED BY <2>1 DEF Init
<1>7. air = {} /\ ledger = {} BY DEF Init
<1> QED BY <1>4, <1>5, <1>6, <1>7

\* The inductive invariant holds in a set-up cluster.
LEMMA Begins ==
  ASSUME Guarded, Init
  PROVE  Basics /\ Kernel
<1>1. /\ Trio /\ Proc = Node \cup {Witness} /\ Node \subseteq Proc /\ Witness \in Proc
      /\ \A n \in Node : Other(n) \in Node /\ Other(n) # n
      /\ \A z \in Proc : Peers(z) \subseteq Proc
      /\ {SeenTicks, FenceAfter, Takeover} \subseteq Nat \ {0}
  BY TrioProc, ConstantsAssumption DEF Guarded, ConstantsAssumption, Peers
<1>2. PICK a \in Node : \A n \in Node, x \in Nat : Owns(n, x) => n = a /\ x = 1 BY SetUp
<1>3. /\ air = {} /\ ledger = {}
      /\ \A z \in Proc :
              /\ p[z].term = 1 /\ p[z].seq = 0 /\ p[z].maint = FALSE
              /\ p[z].votedFor = Nobody /\ p[z].votedTerm = 0
              /\ disk[z] = p[z] /\ beat[z] = NoBeat /\ up[z]
              /\ \A y \in Proc : view[z][y] = NeverSeen
      /\ \A n \in Node : /\ carry[n] = NoCarry /\ request[n] = NoLetter
                         /\ real[n] = TRUE /\ demotes[n] = <<>>
  BY SetUp
<1>4. /\ NoBeat.term = 0 /\ NoBeat.seq = 0 /\ NoBeat.maint = FALSE /\ ~Claims(NoBeat)
      /\ NeverSeen.heard = FALSE /\ NeverSeen.age = 0 /\ NeverSeen.hb = NoBeat
      /\ NoCarry.vote = 0 /\ NoCarry.mutualAge = 0 /\ NoLetter.term = 0
  BY RoleNames DEF NoBeat, NeverSeen, NoCarry, NoLetter, Claims
<1>5. \A z, y \in Proc : ~Mutual(z, view[z][y]) /\ ~Coming(z, y)
  BY <1>3, <1>4 DEF Mutual, Seen, Coming
<1>6. Basics
  <2>1. Steadfast BY <1>3 DEF Steadfast
  <2>2. SteadyAll BY <1>3, <1>4 DEF SteadyAll, Steady
  <2>3. NoVote BY <1>1, <1>3, <1>4 DEF NoVote
  <2>4. MutualAges BY <1>1, <1>3, <1>4 DEF MutualAges
  <2>5. Down BY <1>3 DEF Down
  <2>6. Book BY <1>1, <1>3 DEF Book, Filed
  <2>7. Hearsay
    <3> SUFFICES ASSUME NEW z \in Proc
                 PROVE  /\ beat[z].term <= Top(z) /\ beat[z].seq <= p[z].seq
                        /\ p[z].seq <= disk[z].seq
                        /\ \A y \in Peers(z) :
                             /\ view[y][z].hb.term <= Top(z) /\ view[y][z].hb.seq <= p[z].seq
                             /\ view[y][z].heard => view[y][z].hb.term >= 1
                             /\ <<z, y>> \in air => beat[z].term >= 1
      BY DEF Hearsay
    <3>1. Top(z) \in {0, 1} BY <1>3 DEF Top, Larger
    <3> QED BY <1>1, <1>3, <1>4, <3>1
  <2>8. BeforeClaim BY <1>1, <1>2, <1>3, <1>4 DEF BeforeClaim
  <2>9. Signed BY <1>1, <1>3, <1>4 DEF Signed, Justly
  <2> QED BY <2>1, <2>2, <2>3, <2>4, <2>5, <2>6, <2>7, <2>8, <2>9 DEF Basics
<1>7. Sight BY <1>1, <1>5 DEF Sight
<1>20. \A n \in Node, v \in Nat : ~Noted(v, n)
  <2>1. Nobody \notin Node BY Identities
  <2> QED BY <1>1, <1>3, <2>1 DEF Noted
<1>8. Outvoted BY <1>1, <1>20 DEF Outvoted
<1>9. Replaced BY <1>1, <1>2 DEF Replaced
<1>10. Trusts
  <2> SUFFICES ASSUME NEW n \in Node PROVE Trusting(n) BY DEF Trusts
  <2>1. carry[n].mutualAge = 0 /\ view[Other(n)][n].age = 0 BY <1>1, <1>3, <1>4
  <2> QED BY <1>1, <2>1 DEF Trusting, Lag
<1>11. Recent BY <1>1, <1>3, <1>4 DEF Recent
<1>12. Asking BY <1>3, <1>4 DEF Asking
<1>13. Unheard BY <1>1, <1>20 DEF Unheard
<1> QED BY <1>6, <1>7, <1>8, <1>9, <1>10, <1>11, <1>12, <1>13 DEF Kernel

\* An active node whose partner is active in a higher term would be replaced,
\* and no term has two owners.
LEMMA Alone ==
  ASSUME Guarded, Facts, Replaced
  PROVE  AtMostOneActive
<1> USE DEF Facts
<1> SUFFICES ASSUME NEW m \in Node, NEW n \in Node, IsActive(m), IsActive(n), m # n
             PROVE  FALSE
  BY DEF AtMostOneActive
<1>1. m = Other(n) /\ n = Other(m) /\ Node \subseteq Proc BY TrioProc DEF Guarded
<1>2. p[m].term \in Nat /\ p[n].term \in Nat BY <1>1 DEF TypeOK, Persisted
<1>3. Claims(p[m]) /\ Claims(p[n]) BY DEF IsActive, Claims
<1>4. Owns(m, p[m].term) /\ Owns(n, p[n].term) BY <1>3 DEF Owns
<1>5. ~(p[m].term > p[n].term) BY <1>1, <1>2, <1>4 DEF Replaced
<1>6. ~(p[n].term > p[m].term) BY <1>1, <1>2, <1>4 DEF Replaced
<1>7. p[m].term # p[n].term BY <1>3, OneOwner DEF OneOwnerPerTerm, Claims
<1> QED BY <1>2, <1>5, <1>6, <1>7

\* With a witness, and as long as no operator but for switching maintenance on
\* interferes, two servers never run as the active one: not across crashes of
\* the servers, failed saves, lost, late or reordered heartbeats and votes, or
\* partitions in any direction.
THEOREM OneActive ==
  ASSUME Guarded
  PROVE  Spec => []AtMostOneActive
<1>1. Trio /\ RolesLeftAlone BY DEF Guarded, RolesLeftAlone
<1>2. Spec => [](NoHandover /\ RightfulOwners /\ Started) BY <1>1, OwnersHold
<1>3. Init => Basics /\ Kernel BY Begins
<1>4. Facts /\ Facts' /\ Basics /\ Kernel /\ [Next]_vars => Basics' /\ Kernel'
  BY BasicsStep, KernelStep
<1>5. Facts /\ Kernel => AtMostOneActive BY Alone DEF Kernel
<1>6. Facts <=> /\ TypeOK /\ SavedTerms /\ VotesKnown /\ OneVotePerTerm /\ GrantsVoted
                /\ NoHandover /\ RightfulOwners /\ Started
  BY DEF Facts
<1>7. Spec => []Facts
  BY <1>2, <1>6, TypesHold, SavedTermsHold, VotesKnownHolds, GrantsHold, PTL
<1>8. Spec => Init /\ [][Next]_vars BY DEF Spec
<1>9. Spec => [](Basics /\ Kernel) BY <1>3, <1>4, <1>7, <1>8, PTL
<1> QED BY <1>5, <1>7, <1>9, PTL
=============================================================================
