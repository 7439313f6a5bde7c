---------------------------- MODULE Stock_proofs ----------------------------
(* Theorems about Stock, for any shelves and any number of requests.       *)
EXTENDS Stock, FiniteSetTheorems, SequenceTheorems, TLAPS

-----------------------------------------------------------------------------
(* Types                                                                   *)

\* Quantities of some shelves.
Parts == UNION {[S -> Int] : S \in SUBSET Shelf}

Acts == {"in", "out", "guarded", "correct", "many", "reserve", "return", "inventory"}
OpNames == Acts \cup {"none", "consumeAll", "consume", "list"}
Kinds == {"reserve", "unreserve", "out", "in"}
Booking == {"check", "read", "write", "sum", "total", "commit"}
Places == Booking \cup {"idle", "find", "relabel", "flag", "consumed", "list", "open", "items", "close"}

\* What the cached sum is does not matter here.
CallRecord(V) ==
  [op : OpNames, at : Places, todo : Seq(Shelf), qty : Nat, want : Parts, old : Int,
   put : Parts, delta : Parts, sum : V, kinds : SUBSET Kinds]

CallShape == \E V : call \in [Clerk -> CallRecord(V)]

ResvRecord == [is : {"none", "reserved", "gone"}, place : SUBSET Shelf, qty : Nat,
               taken : Nat, back : Nat, used : Nat, kinds : SUBSET Kinds]

CountRecord == [is : {"none", "open", "booked", "cancelled"}, expected : Parts, counted : Parts]

Shape ==
  /\ stock \in [Shelf -> Int] /\ moved \in [Shelf -> Int]
  /\ hasRow \subseteq Shelf /\ Stocked \subseteq hasRow
  /\ resv \in ResvRecord /\ count \in CountRecord
  /\ rowLock \in [Shelf -> Clerk \cup {Nobody}]
  /\ partLock \in Clerk \cup {Nobody} /\ resLock \in Clerk \cup {Nobody}
  /\ CallShape

-----------------------------------------------------------------------------
(* The inductive invariant                                                 *)

\* A booking has a position to book, none of them twice, and a stocktake a
\* count for each.
Bookable(c) ==
  /\ call[c].at \in Booking =>
       /\ call[c].op \in Acts
       /\ \A i, j \in DOMAIN call[c].todo : call[c].todo[i] = call[c].todo[j] => i = j
       /\ call[c].op = "inventory" =>
            \A i \in DOMAIN call[c].todo : call[c].todo[i] \in DOMAIN call[c].want
  /\ call[c].at \in Booking \ {"commit"} => call[c].todo # <<>>
  /\ call[c].at \in {"check", "read", "write"} =>
       \A i \in DOMAIN call[c].todo : call[c].todo[i] \notin DOMAIN call[c].put
  /\ call[c].at \in {"sum", "total"} =>
       \A i \in DOMAIN call[c].todo : i # 1 => call[c].todo[i] \notin DOMAIN call[c].put
  /\ call[c].at = "find" => call[c].op = "return" /\ DOMAIN call[c].put = {}
  /\ call[c].at = "items" => call[c].op = "inventory" /\ DOMAIN call[c].put = {}

\* What a request has written and not committed: it holds the rows, and the
\* quantity is what is committed plus its movement.
RowsHeld(c) ==
  /\ DOMAIN call[c].delta = DOMAIN call[c].put
  /\ \A n \in Stocked : n \in DOMAIN call[c].put =>
       rowLock[n] = c /\ call[c].put[n] = stock[n] + call[c].delta[n]

\* What it has read to write from is what is committed.
ReadHolds(c) ==
  call[c].at = "write" =>
    \A n \in Stocked : n = Head(call[c].todo) => rowLock[n] = c /\ call[c].old = stock[n]

NotBelow(c) ==
  call[c].op \in {"reserve", "guarded"} =>
    /\ call[c].at = "write" => NewQty(c, Head(call[c].todo), call[c].old) >= 0
    /\ \A n \in DOMAIN call[c].put : call[c].put[n] >= 0

\* Who holds the reservation has found it, and returns no more than it is.
ResvHeld(c) ==
  /\ resLock = c => resv.is = "reserved"
  /\ call[c].op = "return" /\ call[c].at \in Booking => resLock = c /\ call[c].qty <= resv.qty

CallInv(c) == Bookable(c) /\ RowsHeld(c) /\ ReadHolds(c) /\ NotBelow(c) /\ ResvHeld(c)

ResvAdds ==
  /\ resv.is = "none" => resv.qty = 0 /\ resv.taken = 0 /\ resv.back = 0 /\ resv.used = 0
  /\ resv.is # "none" => resv.taken = resv.back + resv.used + resv.qty
  /\ resv.is = "gone" => resv.qty = 0

StockInv == Shape /\ LedgerAdds /\ ResvAdds /\ \A c \in Clerk : CallInv(c)

-----------------------------------------------------------------------------
(* Quantities of some shelves                                              *)

LEMMA PartsOf ==
  ASSUME NEW f \in Parts
  PROVE  DOMAIN f \subseteq Shelf /\ \A n \in DOMAIN f : f[n] \in Int
  BY DEF Parts

LEMMA PartsMake ==
  ASSUME NEW S \in SUBSET Shelf, NEW f \in [S -> Int]
  PROVE  f \in Parts /\ DOMAIN f = S
  BY DEF Parts

LEMMA PartsWith ==
  ASSUME NEW f \in Parts, NEW n \in Shelf, NEW v \in Int
  PROVE  /\ With(f, n, v) \in Parts /\ DOMAIN With(f, n, v) = DOMAIN f \cup {n}
         /\ With(f, n, v)[n] = v
         /\ \A m \in DOMAIN f : m # n => With(f, n, v)[m] = f[m]
<1>1. DOMAIN f \cup {n} \in SUBSET Shelf BY PartsOf
<1>2. With(f, n, v) \in [DOMAIN f \cup {n} -> Int] BY PartsOf DEF With
<1> QED BY <1>1, <1>2, PartsMake DEF With

LEMMA NoParts == <<>> \in Parts /\ DOMAIN <<>> = {}
<1>1. <<>> \in [{} -> Int] /\ DOMAIN <<>> = {} OBVIOUS
<1> QED BY <1>1, PartsMake

-----------------------------------------------------------------------------
(* Requests                                                                *)

LEMMA CallOf ==
  ASSUME CallShape, NEW c \in Clerk
  PROVE  \E V : call[c] \in CallRecord(V)
  BY DEF CallShape

LEMMA CallChanges ==
  ASSUME CallShape, NEW c \in Clerk, NEW V, NEW r \in CallRecord(V), call' = [call EXCEPT ![c] = r]
  PROVE  CallShape' /\ call'[c] = r /\ \A d \in Clerk : d # c => call'[d] = call[d]
<1>1. PICK W : call \in [Clerk -> CallRecord(W)] BY DEF CallShape
<1>2. \A x \in CallRecord(V) : x \in CallRecord(V \cup W) BY DEF CallRecord
<1>3. \A x \in CallRecord(W) : x \in CallRecord(V \cup W) BY DEF CallRecord
<1>4. call' \in [Clerk -> CallRecord(V \cup W)] BY <1>1, <1>2, <1>3
<1> QED BY <1>1, <1>4 DEF CallShape

LEMMA EmptyCall ==
  /\ NoCall \in CallRecord({0}) /\ NoCall.at = "idle" /\ NoCall.op = "none"
  /\ NoCall.put = <<>> /\ NoCall.delta = <<>>
<1>1. <<>> \in Seq(Shelf) OBVIOUS
<1> QED BY <1>1, NoParts DEF NoCall, CallRecord, OpNames, Places, Acts, Kinds

\* A request that stands still keeps its part of the invariant, if what it
\* holds is left alone.
Spared(d) ==
  /\ call'[d] = call[d]
  /\ \A n \in Stocked : rowLock[n] = d => rowLock'[n] = d /\ stock'[n] = stock[n]
  /\ resLock' = d <=> resLock = d
  /\ resLock = d => resv'.is = resv.is /\ resv'.qty = resv.qty

LEMMA SparedKeeps ==
  ASSUME NEW d \in Clerk, CallInv(d), Spared(d)
  PROVE  CallInv(d)'
<1> USE DEF CallInv, Spared
<1>1. Bookable(d)' BY DEF Bookable
<1>2. RowsHeld(d)' BY DEF RowsHeld
<1>3. ReadHolds(d)' BY DEF ReadHolds
<1>4. NotBelow(d)' BY DEF NotBelow, NewQty
<1>5. ResvHeld(d)' BY DEF ResvHeld
<1> QED BY <1>1, <1>2, <1>3, <1>4, <1>5

\* Only the request moves on.
LEMMA OnlyCall ==
  ASSUME StockInv, NEW c \in Clerk, NEW V, NEW r \in CallRecord(V), call' = [call EXCEPT ![c] = r],
         UNCHANGED <<stockTables, stockLocks>>, CallInv(c)'
  PROVE  StockInv'
<1>1. CallShape' /\ \A d \in Clerk : d # c => call'[d] = call[d]
  BY CallChanges DEF StockInv, Shape
<1>2. UNCHANGED <<stock, hasRow, total, moved, resv, count, rowLock, partLock, resLock>>
  BY DEF stockTables, stockLocks
<1>3. Shape' BY <1>1, <1>2 DEF StockInv, Shape
<1>4. \A d \in Clerk : d # c => Spared(d) BY <1>1, <1>2 DEF Spared
<1>5. \A d \in Clerk : CallInv(d)' BY <1>4, SparedKeeps DEF StockInv
<1>6. LedgerAdds' /\ ResvAdds' BY <1>2 DEF StockInv, LedgerAdds, ResvAdds
<1> QED BY <1>3, <1>5, <1>6 DEF StockInv

\* The locks of a request that ends.
LEMMA LocksGo ==
  ASSUME Shape, NEW c \in Clerk, LetGo(c)
  PROVE  /\ rowLock' \in [Shelf -> Clerk \cup {Nobody}]
         /\ partLock' \in Clerk \cup {Nobody} /\ resLock' \in Clerk \cup {Nobody}
         /\ resLock' # c
         /\ \A d \in Clerk : d # c => /\ \A n \in Shelf : rowLock[n] = d => rowLock'[n] = d
                                      /\ resLock' = d <=> resLock = d
  BY StockAssumption DEF Shape, LetGo

\* It ends without a change.
LEMMA CallEnds ==
  ASSUME StockInv, NEW c \in Clerk, EndCall(c), UNCHANGED <<stock, hasRow, total, moved, resv>>,
         count' \in CountRecord
  PROVE  StockInv'
<1>1. CallShape' /\ call'[c] = NoCall /\ \A d \in Clerk : d # c => call'[d] = call[d]
  BY CallChanges, EmptyCall DEF StockInv, Shape, EndCall, Goes
<1>2. /\ rowLock' \in [Shelf -> Clerk \cup {Nobody}]
      /\ partLock' \in Clerk \cup {Nobody} /\ resLock' \in Clerk \cup {Nobody}
      /\ resLock' # c
      /\ \A d \in Clerk : d # c => /\ \A n \in Shelf : rowLock[n] = d => rowLock'[n] = d
                                   /\ resLock' = d <=> resLock = d
  BY LocksGo DEF StockInv, EndCall
<1>3. Shape' BY <1>1, <1>2 DEF StockInv, Shape
<1>4. \A d \in Clerk : d # c => Spared(d) BY <1>1, <1>2, StockAssumption DEF Spared
<1>5. CallInv(c)'
  BY <1>1, <1>2, EmptyCall, NoParts
  DEF CallInv, Bookable, RowsHeld, ReadHolds, NotBelow, ResvHeld, Booking
<1>6. \A d \in Clerk : CallInv(d)' BY <1>4, <1>5, SparedKeeps DEF StockInv
<1>7. LedgerAdds' /\ ResvAdds' BY DEF StockInv, LedgerAdds, ResvAdds
<1> QED BY <1>3, <1>6, <1>7 DEF StockInv

\* Only the request and locks of its own move.
LEMMA OwnStep ==
  ASSUME StockInv, NEW c \in Clerk, NEW V, NEW r \in CallRecord(V), call' = [call EXCEPT ![c] = r],
         UNCHANGED stockTables,
         rowLock' \in [Shelf -> Clerk \cup {Nobody}],
         partLock' \in Clerk \cup {Nobody}, resLock' \in Clerk \cup {Nobody},
         \A n \in Shelf, d \in Clerk : d # c => (rowLock[n] = d => rowLock'[n] = d),
         \A d \in Clerk : d # c => (resLock' = d <=> resLock = d),
         CallInv(c)'
  PROVE  StockInv'
<1>1. CallShape' /\ \A d \in Clerk : d # c => call'[d] = call[d]
  BY CallChanges DEF StockInv, Shape
<1>2. UNCHANGED <<stock, hasRow, total, moved, resv, count>> BY DEF stockTables
<1>3. Shape' BY <1>1, <1>2 DEF StockInv, Shape
<1>4. \A d \in Clerk : d # c => Spared(d) BY <1>1, <1>2, StockAssumption DEF Spared
<1>5. \A d \in Clerk : CallInv(d)' BY <1>4, SparedKeeps DEF StockInv
<1>6. LedgerAdds' /\ ResvAdds' BY <1>2 DEF StockInv, LedgerAdds, ResvAdds
<1> QED BY <1>3, <1>5, <1>6 DEF StockInv

-----------------------------------------------------------------------------
(* The start                                                               *)

LEMMA StartInv == StockInit => StockInv
<1> SUFFICES ASSUME StockInit PROVE StockInv OBVIOUS
<1>1. PICK n \in Stocked, k \in {0, ReservedQty}, S \in SUBSET Stocked :
        /\ k <= Opening
        /\ moved = [m \in Shelf |-> IF m = n THEN -k ELSE 0]
        /\ stock = [m \in Shelf |-> (IF m \in Stocked THEN Opening ELSE 0) + moved[m]]
        /\ resv = [is |-> IF k = 0 THEN "none" ELSE "reserved",
                   place |-> IF k = 0 THEN {} ELSE {n}, qty |-> k,
                   taken |-> k, back |-> 0, used |-> 0,
                   kinds |-> IF k = 0 THEN {} ELSE {"reserve"}]
        /\ count = IF S = {} THEN [is |-> "none", expected |-> <<>>, counted |-> <<>>]
                   ELSE [is |-> "open", expected |-> [m \in S |-> stock[m]],
                         counted |-> [m \in S |-> Uncounted]]
  BY DEF StockInit
<1>2. moved \in [Shelf -> Int] /\ stock \in [Shelf -> Int]
  BY <1>1, StockAssumption DEF ReservedQty
<1>3. resv \in ResvRecord /\ ResvAdds
  <2>1. k \in Nat /\ (IF k = 0 THEN {} ELSE {n}) \in SUBSET Shelf
        /\ (IF k = 0 THEN {} ELSE {"reserve"}) \in SUBSET Kinds
    BY StockAssumption DEF ReservedQty, Kinds
  <2>2. resv \in ResvRecord BY <1>1, <2>1 DEF ResvRecord
  <2> QED BY <1>1, <2>1, <2>2 DEF ResvAdds, ReservedQty
<1>4. count \in CountRecord
  <2>1. [m \in S |-> stock[m]] \in Parts /\ [m \in S |-> Uncounted] \in Parts
    <3>1. S \in SUBSET Shelf BY StockAssumption
    <3>2. [m \in S |-> stock[m]] \in [S -> Int] BY <1>2, <3>1
    <3>3. [m \in S |-> Uncounted] \in [S -> Int] BY DEF Uncounted
    <3> QED BY <3>1, <3>2, <3>3, PartsMake
  <2> QED BY <1>1, <2>1, NoParts DEF CountRecord
<1>5. call = [c \in Clerk |-> NoCall] /\ CallShape
  BY EmptyCall DEF StockInit, CallShape
<1>6. Shape
  BY <1>2, <1>3, <1>4, <1>5, StockAssumption DEF StockInit, Shape
<1>7. LedgerAdds BY <1>1, <1>2, StockAssumption DEF LedgerAdds
<1>8. ASSUME NEW c \in Clerk PROVE CallInv(c)
  BY <1>5, EmptyCall, NoParts, StockAssumption
  DEF StockInit, CallInv, Bookable, RowsHeld, ReadHolds, NotBelow, ResvHeld, Booking
<1> QED BY <1>3, <1>6, <1>7, <1>8 DEF StockInv

-----------------------------------------------------------------------------
(* The steps                                                               *)

LEMMA OrderStep == ASSUME StockInv, NEW c \in Clerk, Order(c) PROVE StockInv'
<1>1. UNCHANGED <<stockTables, stockLocks>> /\ UNCHANGED <<resv, resLock>> /\ ResvHeld(c)
  BY DEF Order, stockTables, stockLocks, StockInv, CallInv
<1>2. ASSUME NEW op \in OpNames, NEW at \in {"check", "find", "relabel", "flag", "items"},
             NEW todo \in Seq(Shelf), NEW qty \in Nat, Request(c, op, at, todo, qty),
             at = "check" => /\ op \in Acts \ {"inventory", "return"} /\ todo # <<>>
                             /\ \A i, j \in DOMAIN todo : todo[i] = todo[j] => i = j,
             at = "find" => op = "return", at = "items" => op = "inventory"
      PROVE  StockInv'
  <2> DEFINE r == [NoCall EXCEPT !.op = op, !.at = at, !.todo = todo, !.qty = qty]
  <2>1. r \in CallRecord({0}) BY EmptyCall DEF CallRecord, Places, Booking
  <2>2. r.op = op /\ r.at = at /\ r.todo = todo /\ r.qty = qty /\ r.put = <<>> /\ r.delta = <<>>
    BY EmptyCall DEF NoCall
  <2>3. call' = [call EXCEPT ![c] = r] BY <1>2 DEF Request, Goes
  <2> HIDE DEF r
  <2>4. call'[c] = r BY <2>1, <2>3, CallChanges DEF StockInv, Shape
  <2>5. CallInv(c)'
    BY <1>1, <1>2, <2>2, <2>4, NoParts
    DEF CallInv, Bookable, RowsHeld, ReadHolds, NotBelow, ResvHeld, Booking, Acts
  <2> QED BY <1>1, <2>1, <2>3, <2>5, OnlyCall
<1>3. ASSUME NEW op \in {"in", "out", "guarded", "correct", "reserve"}, NEW n \in Shelf, NEW q \in Nat,
             Request(c, op, "check", <<n>>, q)
      PROVE  StockInv'
  <2>1. <<n>> \in Seq(Shelf) /\ <<n>> # <<>>
        /\ \A i, j \in DOMAIN <<n>> : <<n>>[i] = <<n>>[j] => i = j
    OBVIOUS
  <2> QED BY <1>2, <1>3, <2>1 DEF Acts, OpNames
<1>4. ASSUME NEW m \in Shelf, NEW n \in Shelf, m # n, Request(c, "many", "check", <<m, n>>, 1)
      PROVE  StockInv'
  <2>1. <<m, n>> \in Seq(Shelf) /\ <<m, n>> # <<>>
        /\ \A i, j \in DOMAIN <<m, n>> : <<m, n>>[i] = <<m, n>>[j] => i = j
    BY <1>4
  <2> QED BY <1>2, <1>4, <2>1 DEF Acts, OpNames
<1>5. ASSUME NEW S \in SUBSET Shelf,
             Goes(c, [NoCall EXCEPT !.op = "list", !.at = "list", !.want = [n \in S |-> 0]])
      PROVE  StockInv'
  <2> DEFINE r == [NoCall EXCEPT !.op = "list", !.at = "list", !.want = [n \in S |-> 0]]
  <2>1. [n \in S |-> 0] \in Parts BY PartsMake
  <2>2. r \in CallRecord({0}) BY <2>1, EmptyCall DEF CallRecord, Places, OpNames
  <2>3. r.op = "list" /\ r.at = "list" /\ r.put = <<>> /\ r.delta = <<>>
    BY EmptyCall DEF NoCall
  <2>4. call' = [call EXCEPT ![c] = r] BY <1>5 DEF Goes
  <2> HIDE DEF r
  <2>5. call'[c] = r BY <2>2, <2>4, CallChanges DEF StockInv, Shape
  <2>6. CallInv(c)'
    BY <1>1, <2>3, <2>5, NoParts
    DEF CallInv, Bookable, RowsHeld, ReadHolds, NotBelow, ResvHeld, Booking
  <2> QED BY <1>1, <2>2, <2>4, <2>6, OnlyCall
<1>6. ASSUME NEW op \in {"return", "consumeAll", "consume", "inventory"},
             NEW at \in {"find", "relabel", "flag", "items"}, NEW q \in {0, 1},
             Request(c, op, at, <<>>, q),
             at = "find" => op = "return", at = "items" => op = "inventory"
      PROVE  StockInv'
  <2>1. <<>> \in Seq(Shelf) OBVIOUS
  <2> QED BY <1>2, <1>6, <2>1 DEF Acts, OpNames
<1> QED BY <1>3, <1>4, <1>5, <1>6 DEF Order, ReservedQty

LEMMA CheckStep == ASSUME StockInv, NEW c \in Clerk, CheckLocked(c) PROVE StockInv'
<1>1. UNCHANGED <<stock, hasRow, total, moved, resv, count>> /\ call[c].at = "check"
  BY DEF CheckLocked, stockTables
<1>2. CASE EndCall(c) BY <1>1, <1>2, CallEnds DEF StockInv, Shape
<1>3. CASE Goes(c, [call[c] EXCEPT !.at = "read"]) /\ UNCHANGED stockLocks
  <2> DEFINE r == [call[c] EXCEPT !.at = "read"]
  <2>1. PICK V : call[c] \in CallRecord(V) BY CallOf DEF StockInv, Shape
  <2>2. r \in CallRecord(V) BY <2>1 DEF CallRecord, Places, Booking
  <2>3. /\ r.at = "read" /\ r.op = call[c].op /\ r.todo = call[c].todo /\ r.want = call[c].want
        /\ r.put = call[c].put /\ r.delta = call[c].delta /\ r.qty = call[c].qty
    BY <2>1 DEF CallRecord
  <2>4. call' = [call EXCEPT ![c] = r] BY <1>3 DEF Goes
  <2> HIDE DEF r
  <2>5. call'[c] = r BY <2>2, <2>4, CallChanges DEF StockInv, Shape
  <2>6. CallInv(c) BY DEF StockInv
  <2>7. UNCHANGED <<rowLock, partLock, resLock>> BY <1>3 DEF stockLocks
  <2>8. Bookable(c)' BY <1>1, <2>3, <2>5, <2>6 DEF CallInv, Bookable, Booking
  <2>9. CallInv(c)'
    BY <1>1, <2>3, <2>5, <2>6, <2>7, <2>8
    DEF CallInv, RowsHeld, ReadHolds, NotBelow, ResvHeld, Booking
  <2> QED BY <1>1, <1>3, <2>2, <2>4, <2>9, OnlyCall DEF stockTables
<1> QED BY <1>2, <1>3 DEF CheckLocked

\* The fields of a request.
LEMMA Fields ==
  ASSUME NEW V, NEW r \in CallRecord(V)
  PROVE  /\ r.op \in OpNames /\ r.at \in Places /\ r.todo \in Seq(Shelf) /\ r.qty \in Nat
         /\ r.want \in Parts /\ r.old \in Int /\ r.put \in Parts /\ r.delta \in Parts
         /\ r.kinds \in SUBSET Kinds
  BY DEF CallRecord

\* The position a booking is at.
LEMMA AtPosition ==
  ASSUME StockInv, NEW c \in Clerk, call[c].at \in {"read", "write"}
  PROVE  /\ Head(call[c].todo) \in Shelf /\ 1 \in DOMAIN call[c].todo
         /\ Head(call[c].todo) = call[c].todo[1]
         /\ Head(call[c].todo) \notin DOMAIN call[c].put
         /\ \A k \in Int : NewQty(c, Head(call[c].todo), k) \in Int
<1>1. PICK V : call[c] \in CallRecord(V) BY CallOf DEF StockInv, Shape
<1>2. call[c].todo \in Seq(Shelf) /\ call[c].qty \in Nat /\ call[c].want \in Parts
  BY <1>1, Fields
<1>3. Bookable(c) BY DEF StockInv, CallInv
<1>4. call[c].todo # <<>> /\ call[c].op \in Acts BY <1>3 DEF Bookable, Booking
<1>5. /\ Head(call[c].todo) \in Shelf /\ 1 \in DOMAIN call[c].todo
      /\ Head(call[c].todo) = call[c].todo[1]
  BY <1>2, <1>4
<1>6. Head(call[c].todo) \notin DOMAIN call[c].put BY <1>3, <1>5 DEF Bookable
<1>7. call[c].op = "inventory" => call[c].want[Head(call[c].todo)] \in Int
  <2>1. call[c].op = "inventory" => Head(call[c].todo) \in DOMAIN call[c].want
    BY <1>3, <1>5 DEF Bookable, Booking
  <2> QED BY <1>2, <2>1, PartsOf
<1>8. ASSUME NEW k \in Int PROVE NewQty(c, Head(call[c].todo), k) \in Int
  BY <1>2, <1>4, <1>7 DEF NewQty, Acts
<1> QED BY <1>5, <1>6, <1>8

LEMMA ReadStep == ASSUME StockInv, NEW c \in Clerk, ReadRow(c) PROVE StockInv'
<1> DEFINE n == Head(call[c].todo)
           cur == Seen(c, n)
<1>1. UNCHANGED <<stock, hasRow, total, moved, resv, count>> /\ call[c].at = "read"
  BY DEF ReadRow, stockTables
<1>2. CASE EndCall(c) BY <1>1, <1>2, CallEnds DEF StockInv, Shape
<1>3. CASE /\ ~Refused(c, n, cur)
           /\ n \in hasRow => rowLock[n] \in {c, Nobody}
           /\ Goes(c, [call[c] EXCEPT !.at = "write", !.old = cur])
           /\ rowLock' = IF n \in hasRow THEN [rowLock EXCEPT ![n] = c] ELSE rowLock
           /\ UNCHANGED <<partLock, resLock>>
  <2> DEFINE r == [call[c] EXCEPT !.at = "write", !.old = cur]
  <2>1. PICK V : call[c] \in CallRecord(V) BY CallOf DEF StockInv, Shape
  <2>2. n \in Shelf /\ n \notin DOMAIN call[c].put /\ \A k \in Int : NewQty(c, n, k) \in Int
    BY <1>1, AtPosition
  <2>3. cur = stock[n] /\ cur \in Int BY <2>2 DEF Seen, StockInv, Shape
  <2> HIDE DEF cur, n
  <2>4. r \in CallRecord(V) BY <2>1, <2>3 DEF CallRecord, Places, Booking
  <2>5. /\ r.at = "write" /\ r.op = call[c].op /\ r.todo = call[c].todo /\ r.want = call[c].want
        /\ r.put = call[c].put /\ r.delta = call[c].delta /\ r.qty = call[c].qty /\ r.old = cur
    BY <2>1 DEF CallRecord
  <2>6. call' = [call EXCEPT ![c] = r] BY <1>3 DEF Goes
  <2> HIDE DEF r
  <2>7. call'[c] = r BY <2>4, <2>6, CallChanges DEF StockInv, Shape
  <2>8. CallInv(c) /\ Shape BY DEF StockInv
  <2>9. /\ rowLock' \in [Shelf -> Clerk \cup {Nobody}]
        /\ \A m \in Shelf, d \in Clerk : d # c => (rowLock[m] = d => rowLock'[m] = d)
        /\ \A m \in Shelf : rowLock[m] = c => rowLock'[m] = c
        /\ n \in Stocked => rowLock'[n] = c
    BY <1>3, <2>2, <2>8, StockAssumption DEF Shape
  <2>10. Bookable(c)' BY <1>1, <2>5, <2>7, <2>8 DEF CallInv, Bookable, Booking
  <2>11. RowsHeld(c)' BY <1>1, <2>5, <2>7, <2>8, <2>9, StockAssumption DEF CallInv, RowsHeld
  <2>12. ReadHolds(c)' BY <1>1, <2>3, <2>5, <2>7, <2>9 DEF ReadHolds, n
  <2>13. NotBelow(c)'
    <3>1. call[c].qty \in Nat BY <2>1, Fields
    <3>2. call[c].op \in {"reserve", "guarded"} => NewQty(c, n, cur) >= 0
      BY <1>3, <2>2, <2>3, <3>1 DEF Refused, NewQty
    <3>3. call[c].op \in {"reserve", "guarded"} =>
            NewQty(c, Head(call[c].todo), call[c].old)' = call[c].old' - call[c].qty
      BY <2>5, <2>7 DEF NewQty
    <3>4. call[c].op \in {"reserve", "guarded"} => NewQty(c, n, cur) = cur - call[c].qty
      BY DEF NewQty
    <3> QED BY <2>5, <2>7, <2>8, <3>2, <3>3, <3>4 DEF CallInv, NotBelow
  <2>14. ResvHeld(c)' BY <1>1, <1>3, <2>5, <2>7, <2>8 DEF CallInv, ResvHeld, Booking
  <2>15. CallInv(c)' BY <2>10, <2>11, <2>12, <2>13, <2>14 DEF CallInv
  <2>16. partLock' \in Clerk \cup {Nobody} /\ resLock' \in Clerk \cup {Nobody} /\ resLock' = resLock
    BY <1>3, <2>8 DEF Shape
  <2> QED BY <1>1, <2>4, <2>6, <2>9, <2>15, <2>16, OwnStep DEF stockTables
<1> QED BY <1>2, <1>3 DEF ReadRow

LEMMA WriteStep == ASSUME StockInv, NEW c \in Clerk, WriteRow(c) PROVE StockInv'
<1> DEFINE n == Head(call[c].todo)
           new == NewQty(c, n, call[c].old)
           put == With(call[c].put, n, new)
           delta == With(call[c].delta, n, new - call[c].old)
           r == [call[c] EXCEPT !.at = "sum", !.put = put, !.delta = delta]
<1>1. UNCHANGED <<stock, hasRow, total, moved, resv, count>> /\ call[c].at = "write"
  BY DEF WriteRow, stockTables
<1>2. /\ rowLock[n] \in {c, Nobody} /\ rowLock' = [rowLock EXCEPT ![n] = c]
      /\ UNCHANGED <<partLock, resLock>> /\ call' = [call EXCEPT ![c] = r]
  BY DEF WriteRow, Goes
<1>3. PICK V : call[c] \in CallRecord(V) BY CallOf DEF StockInv, Shape
<1>4. CallInv(c) /\ Shape BY DEF StockInv
<1>5. call[c].old \in Int /\ call[c].put \in Parts /\ call[c].delta \in Parts BY <1>3, Fields
<1>6. /\ n \in Shelf /\ n \notin DOMAIN call[c].put /\ new \in Int
      /\ n = call[c].todo[1] /\ 1 \in DOMAIN call[c].todo
  BY <1>1, <1>5, AtPosition
<1>7. n \in Stocked => rowLock[n] = c /\ call[c].old = stock[n]
  BY <1>1, <1>4 DEF CallInv, ReadHolds
<1>8. call[c].op \in {"reserve", "guarded"} => new >= 0
  BY <1>1, <1>4 DEF CallInv, NotBelow
<1> HIDE DEF n, new
<1>9. new - call[c].old \in Int BY <1>5, <1>6
<1>10. /\ put \in Parts /\ DOMAIN put = DOMAIN call[c].put \cup {n} /\ put[n] = new
       /\ \A m \in DOMAIN call[c].put : m # n => put[m] = call[c].put[m]
  <2> DEFINE f == call[c].put
  <2>1. f \in Parts /\ n \in Shelf /\ new \in Int BY <1>5, <1>6
  <2> HIDE DEF f
  <2>2. /\ With(f, n, new) \in Parts /\ DOMAIN With(f, n, new) = DOMAIN f \cup {n}
        /\ With(f, n, new)[n] = new
        /\ \A m \in DOMAIN f : m # n => With(f, n, new)[m] = f[m]
    BY <2>1, PartsWith
  <2> QED BY <2>2 DEF f
<1>11. /\ delta \in Parts /\ DOMAIN delta = DOMAIN call[c].delta \cup {n}
       /\ delta[n] = new - call[c].old
       /\ \A m \in DOMAIN call[c].delta : m # n => delta[m] = call[c].delta[m]
  <2> DEFINE f == call[c].delta
             v == new - call[c].old
  <2>1. f \in Parts /\ n \in Shelf /\ v \in Int BY <1>5, <1>6, <1>9
  <2> HIDE DEF f, v
  <2>2. /\ With(f, n, v) \in Parts /\ DOMAIN With(f, n, v) = DOMAIN f \cup {n}
        /\ With(f, n, v)[n] = v
        /\ \A m \in DOMAIN f : m # n => With(f, n, v)[m] = f[m]
    BY <2>1, PartsWith
  <2> QED BY <2>2 DEF f, v
<1> HIDE DEF put, delta
<1>12. r \in CallRecord(V) BY <1>3, <1>10, <1>11 DEF CallRecord, Places, Booking
<1>13. /\ r.at = "sum" /\ r.op = call[c].op /\ r.todo = call[c].todo /\ r.want = call[c].want
       /\ r.put = put /\ r.delta = delta /\ r.qty = call[c].qty
  BY <1>3 DEF CallRecord
<1> HIDE DEF r
<1>14. call'[c] = r BY <1>2, <1>12, CallChanges DEF StockInv, Shape
<1>15. DOMAIN call'[c].put = DOMAIN call[c].put \cup {n}
       /\ DOMAIN call'[c].delta = DOMAIN call[c].delta \cup {n}
  BY <1>10, <1>11, <1>13, <1>14
<1>16. /\ call'[c].put[n] = new /\ call'[c].delta[n] = new - call[c].old
       /\ \A m \in DOMAIN call[c].put : m # n => call'[c].put[m] = call[c].put[m]
       /\ \A m \in DOMAIN call[c].delta : m # n => call'[c].delta[m] = call[c].delta[m]
  BY <1>10, <1>11, <1>13, <1>14
<1>17. /\ rowLock' \in [Shelf -> Clerk \cup {Nobody}]
       /\ \A m \in Shelf, d \in Clerk : d # c => (rowLock[m] = d => rowLock'[m] = d)
       /\ \A m \in Shelf : rowLock[m] = c => rowLock'[m] = c
       /\ rowLock'[n] = c
  BY <1>2, <1>4, <1>6, StockAssumption DEF Shape
<1>18. Bookable(c)'
  <2>1. \A i \in DOMAIN call[c].todo : i # 1 => call[c].todo[i] \notin DOMAIN call'[c].put
    BY <1>1, <1>4, <1>6, <1>15 DEF CallInv, Bookable, Booking
  <2> QED BY <1>1, <1>4, <1>13, <1>14, <2>1 DEF CallInv, Bookable, Booking
<1>19. RowsHeld(c)'
  <2>1. DOMAIN call'[c].delta = DOMAIN call'[c].put BY <1>4, <1>15 DEF CallInv, RowsHeld
  <2>2. ASSUME NEW m \in Stocked, m \in DOMAIN call'[c].put
        PROVE  rowLock'[m] = c /\ call'[c].put[m] = stock[m] + call'[c].delta[m]
    <3>1. CASE m = n BY <1>5, <1>6, <1>7, <1>16, <1>17, <3>1
    <3>2. CASE m # n
      BY <1>4, <1>15, <1>16, <1>17, <2>2, <3>2, StockAssumption DEF CallInv, RowsHeld
    <3> QED BY <3>1, <3>2
  <2> QED BY <1>1, <2>1, <2>2 DEF RowsHeld
<1>20. ReadHolds(c)' BY <1>13, <1>14 DEF ReadHolds
<1>21. NotBelow(c)' BY <1>4, <1>8, <1>13, <1>14, <1>15, <1>16 DEF CallInv, NotBelow
<1>22. ResvHeld(c)' BY <1>1, <1>2, <1>4, <1>13, <1>14 DEF CallInv, ResvHeld, Booking
<1>23. CallInv(c)' BY <1>18, <1>19, <1>20, <1>21, <1>22 DEF CallInv
<1>24. partLock' \in Clerk \cup {Nobody} /\ resLock' \in Clerk \cup {Nobody} /\ resLock' = resLock
  BY <1>2, <1>4 DEF Shape
<1> QED BY <1>1, <1>2, <1>12, <1>17, <1>23, <1>24, OwnStep DEF stockTables

LEMMA SumStep == ASSUME StockInv, NEW c \in Clerk, SumUp(c) PROVE StockInv'
<1> DEFINE s == SumOf([n \in Shelf |-> Seen(c, n)])
           r == [call[c] EXCEPT !.at = "total", !.sum = s]
<1>1. UNCHANGED <<stockTables, stockLocks>> /\ call[c].at = "sum" /\ call' = [call EXCEPT ![c] = r]
  BY DEF SumUp, Goes
<1>2. PICK V : call[c] \in CallRecord(V) BY CallOf DEF StockInv, Shape
<1> HIDE DEF s
<1>3. r \in CallRecord(V \cup {s}) BY <1>2 DEF CallRecord, Places, Booking
<1>4. /\ r.at = "total" /\ r.op = call[c].op /\ r.todo = call[c].todo /\ r.want = call[c].want
      /\ r.put = call[c].put /\ r.delta = call[c].delta /\ r.qty = call[c].qty
  BY <1>2 DEF CallRecord
<1> HIDE DEF r
<1>5. call'[c] = r BY <1>1, <1>3, CallChanges DEF StockInv, Shape
<1>6. CallInv(c) /\ UNCHANGED <<stock, resv, rowLock, resLock>>
  BY <1>1 DEF StockInv, stockTables, stockLocks
<1>7. Bookable(c)' BY <1>1, <1>4, <1>5, <1>6 DEF CallInv, Bookable, Booking
<1>8. CallInv(c)'
  BY <1>1, <1>4, <1>5, <1>6, <1>7 DEF CallInv, RowsHeld, ReadHolds, NotBelow, ResvHeld, Booking
<1> QED BY <1>1, <1>3, <1>8, OnlyCall

LEMMA TailOf ==
  ASSUME NEW s \in Seq(Shelf), s # <<>>
  PROVE  /\ Tail(s) \in Seq(Shelf) /\ (Len(s) > 1 => Tail(s) # <<>>)
         /\ \A i \in DOMAIN Tail(s) :
               i \in Nat /\ i + 1 \in DOMAIN s /\ i + 1 # 1 /\ Tail(s)[i] = s[i + 1]
<1>1. /\ Tail(s) \in Seq(Shelf) /\ Len(Tail(s)) = Len(s) - 1 /\ Len(s) \in Nat
      /\ \A i \in 1..Len(Tail(s)) : Tail(s)[i] = s[i + 1]
  OBVIOUS
<1>2. DOMAIN Tail(s) = 1..Len(Tail(s)) /\ DOMAIN s = 1..Len(s) BY <1>1
<1>3. Len(s) > 1 => Tail(s) # <<>>
  <2>1. Len(s) > 1 => 1 \in DOMAIN Tail(s) BY <1>1, <1>2
  <2> QED BY <2>1, NoParts
<1>4. ASSUME NEW i \in DOMAIN Tail(s) PROVE i \in Nat /\ i + 1 \in 1..Len(s) /\ i + 1 # 1
  BY <1>1, <1>2
<1> QED BY <1>1, <1>2, <1>3, <1>4

LEMMA TotalStep == ASSUME StockInv, NEW c \in Clerk, WriteTotal(c) PROVE StockInv'
<1> DEFINE next == IF Len(call[c].todo) > 1 /\ call[c].op = "many" THEN "read" ELSE "commit"
           r == [call[c] EXCEPT !.todo = Tail(@), !.at = next]
<1>1. /\ UNCHANGED <<stock, hasRow, total, moved, resv, count, rowLock, resLock>>
      /\ call[c].at = "total" /\ partLock' = c /\ call' = [call EXCEPT ![c] = r]
  BY DEF WriteTotal, Goes, stockTables
<1>2. PICK V : call[c] \in CallRecord(V) BY CallOf DEF StockInv, Shape
<1>3. CallInv(c) /\ Shape BY DEF StockInv
<1>4. call[c].todo \in Seq(Shelf) /\ call[c].todo # <<>>
  BY <1>1, <1>2, <1>3, Fields DEF CallInv, Bookable, Booking
<1>5. /\ Tail(call[c].todo) \in Seq(Shelf) /\ (next = "read" => Tail(call[c].todo) # <<>>)
      /\ \A i \in DOMAIN Tail(call[c].todo) :
            i \in Nat /\ i + 1 \in DOMAIN call[c].todo /\ i + 1 # 1
            /\ Tail(call[c].todo)[i] = call[c].todo[i + 1]
  BY <1>4, TailOf
<1>6. next \in {"read", "commit"} OBVIOUS
<1> HIDE DEF next
<1>7. r \in CallRecord(V) BY <1>2, <1>5, <1>6 DEF CallRecord, Places, Booking
<1>8. /\ r.at = next /\ r.op = call[c].op /\ r.todo = Tail(call[c].todo) /\ r.want = call[c].want
      /\ r.put = call[c].put /\ r.delta = call[c].delta /\ r.qty = call[c].qty
  BY <1>2 DEF CallRecord
<1> HIDE DEF r
<1>9. call'[c] = r BY <1>1, <1>7, CallChanges DEF StockInv, Shape
<1>10. Bookable(c)'
  <2>1. \A i, j \in DOMAIN Tail(call[c].todo) :
           Tail(call[c].todo)[i] = Tail(call[c].todo)[j] => i = j
    <3>1. \A i, j \in DOMAIN call[c].todo : call[c].todo[i] = call[c].todo[j] => i = j
      BY <1>1, <1>3 DEF CallInv, Bookable, Booking
    <3>2. \A i, j \in Nat : i + 1 = j + 1 => i = j OBVIOUS
    <3> QED BY <1>5, <3>1, <3>2
  <2>2. \A i \in DOMAIN Tail(call[c].todo) : Tail(call[c].todo)[i] \notin DOMAIN call[c].put
    BY <1>1, <1>3, <1>5 DEF CallInv, Bookable
  <2>3. call[c].op = "inventory" =>
          \A i \in DOMAIN Tail(call[c].todo) : Tail(call[c].todo)[i] \in DOMAIN call[c].want
    BY <1>1, <1>3, <1>5 DEF CallInv, Bookable, Booking
  <2>4. call[c].op \in Acts BY <1>1, <1>3 DEF CallInv, Bookable, Booking
  <2>5. call'[c].op = call[c].op /\ call'[c].at = next /\ call'[c].todo = Tail(call[c].todo)
        /\ call'[c].want = call[c].want /\ call'[c].put = call[c].put
    BY <1>8, <1>9
  <2> QED BY <1>5, <1>6, <2>1, <2>2, <2>3, <2>4, <2>5 DEF Bookable, Booking
<1>11. RowsHeld(c)' BY <1>1, <1>3, <1>8, <1>9 DEF CallInv, RowsHeld
<1>12. ReadHolds(c)' /\ NotBelow(c)'
  BY <1>3, <1>6, <1>8, <1>9 DEF CallInv, ReadHolds, NotBelow
<1>13. ResvHeld(c)' BY <1>1, <1>3, <1>8, <1>9 DEF CallInv, ResvHeld, Booking
<1>14. CallInv(c)' BY <1>10, <1>11, <1>12, <1>13 DEF CallInv
<1>15. /\ rowLock' \in [Shelf -> Clerk \cup {Nobody}] /\ partLock' \in Clerk \cup {Nobody}
       /\ resLock' \in Clerk \cup {Nobody}
       /\ \A n \in Shelf, d \in Clerk : d # c => (rowLock[n] = d => rowLock'[n] = d)
       /\ \A d \in Clerk : d # c => (resLock' = d <=> resLock = d)
  BY <1>1, <1>3 DEF Shape
<1> QED BY <1>1, <1>7, <1>14, <1>15, OwnStep DEF stockTables

\* The call after the commit: a stocktake goes on, any other ends.
LEMMA CommitStep == ASSUME StockInv, NEW c \in Clerk, CommitCall(c) PROVE StockInv'
<1> DEFINE next == IF call[c].todo = <<>> THEN "close" ELSE "read"
           go == [call[c] EXCEPT !.at = next, !.put = <<>>, !.delta = <<>>]
           r == IF call[c].op = "inventory" THEN go ELSE NoCall
           gain == [n \in Shelf |-> IF n \in DOMAIN call[c].delta THEN call[c].delta[n] ELSE 0]
<1>1. /\ call[c].at = "commit"
      /\ stock' = [n \in Shelf |-> Seen(c, n)]
      /\ hasRow' = hasRow \cup DOMAIN call[c].put
      /\ moved' = [n \in Shelf |-> moved[n] + gain[n]]
      /\ resv' = BookedFor(c) /\ count' = count
      /\ LetGo(c) /\ call' = [call EXCEPT ![c] = r]
  BY DEF CommitCall, Goes
<1>2. PICK V : call[c] \in CallRecord(V) BY CallOf DEF StockInv, Shape
<1>3. CallInv(c) /\ Shape /\ LedgerAdds /\ ResvAdds BY DEF StockInv
<1>4. /\ call[c].put \in Parts /\ call[c].delta \in Parts /\ call[c].qty \in Nat
      /\ DOMAIN call[c].put \subseteq Shelf
      /\ \A n \in DOMAIN call[c].put : call[c].put[n] \in Int
      /\ \A n \in DOMAIN call[c].delta : call[c].delta[n] \in Int
  BY <1>2, Fields, PartsOf
<1>5. gain \in [Shelf -> Int] BY <1>4
<1>6. stock' \in [Shelf -> Int] /\ moved' \in [Shelf -> Int]
  <2>1. stock' \in [Shelf -> Int] BY <1>1, <1>3, <1>4 DEF Seen, Shape
  <2> HIDE DEF gain
  <2>2. moved' \in [Shelf -> Int] BY <1>1, <1>3, <1>5 DEF Shape
  <2> QED BY <2>1, <2>2
\* The committed quantities and movements of a shelf that has its row.
<1>7. LedgerAdds'
  <2> SUFFICES ASSUME NEW n \in Stocked PROVE stock'[n] = Opening + moved'[n]
    BY DEF LedgerAdds
  <2>1. n \in Shelf /\ stock[n] = Opening + moved[n] /\ stock[n] \in Int /\ moved[n] \in Int
        /\ Opening \in Int
    BY <1>3, StockAssumption DEF LedgerAdds, Shape
  <2>2. stock'[n] = Seen(c, n) /\ moved'[n] = moved[n] + gain[n] BY <1>1, <2>1
  <2>3. CASE n \in DOMAIN call[c].put
    <3>1. call[c].put[n] = stock[n] + call[c].delta[n] /\ n \in DOMAIN call[c].delta
      BY <1>3, <2>3 DEF CallInv, RowsHeld
    <3>2. Seen(c, n) = stock[n] + call[c].delta[n] BY <2>3, <3>1 DEF Seen
    <3>3. gain[n] = call[c].delta[n] /\ call[c].delta[n] \in Int BY <1>4, <2>1, <3>1
    <3> QED BY <2>1, <2>2, <3>2, <3>3
  <2>4. CASE n \notin DOMAIN call[c].put
    <3>1. n \notin DOMAIN call[c].delta BY <1>3, <2>4 DEF CallInv, RowsHeld
    <3> QED BY <2>1, <2>2, <2>4, <3>1 DEF Seen
  <2> QED BY <2>3, <2>4
<1> HIDE DEF gain
\* Other requests hold none of its rows, and not the reservation it returns.
<1>8. ASSUME NEW n \in Stocked, rowLock[n] # c PROVE stock'[n] = stock[n]
  <2>1. n \notin DOMAIN call[c].put /\ n \in Shelf
    BY <1>3, <1>8, StockAssumption DEF CallInv, RowsHeld
  <2> QED BY <1>1, <2>1 DEF Seen
<1>9. resv' \in ResvRecord /\ ResvAdds'
      /\ (resLock # c => resv.is # "reserved" \/ resv' = resv)
  <2>1. resv \in ResvRecord BY <1>3 DEF Shape
  <2>2. CASE call[c].op = "reserve" /\ resv.is = "none"
    <3> DEFINE q == call[c].qty
               b == [resv EXCEPT !.is = "reserved", !.place = DOMAIN call[c].put, !.qty = q,
                                 !.taken = @ + q, !.kinds = @ \cup {"reserve"}]
    <3>1. resv' = b BY <1>1, <2>2 DEF BookedFor
    <3>2. /\ q \in Nat /\ resv.taken + q \in Nat /\ DOMAIN call[c].put \in SUBSET Shelf
          /\ resv.kinds \cup {"reserve"} \in SUBSET Kinds
      BY <1>4, <2>1 DEF ResvRecord, Kinds
    <3> HIDE DEF q
    <3>2a. b \in ResvRecord BY <2>1, <3>2 DEF ResvRecord
    <3>3. /\ b.is = "reserved" /\ b.qty = q /\ b.taken = resv.taken + q
          /\ b.back = resv.back /\ b.used = resv.used
      BY <2>1 DEF ResvRecord
    <3>4. resv.taken = 0 /\ resv.back = 0 /\ resv.used = 0 BY <1>3, <2>2 DEF ResvAdds
    <3>5. b.taken = b.back + b.used + b.qty /\ b.is # "none" /\ b.is # "gone"
      BY <3>2, <3>3, <3>4
    <3> QED BY <2>2, <3>1, <3>2a, <3>5 DEF ResvAdds
  <2>3. CASE call[c].op = "return"
    <3> DEFINE q == call[c].qty
               b == [resv EXCEPT !.is = IF q = resv.qty THEN "gone" ELSE @,
                                 !.qty = @ - q, !.back = @ + q,
                                 !.kinds = @ \cup {"unreserve"}]
    <3>1. resv' = b BY <1>1, <2>3 DEF BookedFor
    <3>2. resLock = c /\ q <= resv.qty /\ resv.is = "reserved"
      BY <1>1, <1>3, <2>3 DEF CallInv, ResvHeld, Booking
    <3>3. /\ resv.qty \in Nat /\ resv.taken \in Nat /\ resv.back \in Nat /\ resv.used \in Nat
          /\ resv.is \in {"none", "reserved", "gone"} /\ resv.kinds \in SUBSET Kinds
          /\ q \in Nat
      BY <1>4, <2>1 DEF ResvRecord
    <3>4. /\ resv.qty - q \in Nat /\ resv.back + q \in Nat
          /\ resv.kinds \cup {"unreserve"} \in SUBSET Kinds
          /\ (IF q = resv.qty THEN "gone" ELSE resv.is) \in {"none", "reserved", "gone"}
      BY <3>2, <3>3 DEF Kinds
    <3>5. b \in ResvRecord BY <2>1, <3>4 DEF ResvRecord
    <3>6. /\ b.is = (IF q = resv.qty THEN "gone" ELSE "reserved") /\ b.qty = resv.qty - q
          /\ b.taken = resv.taken /\ b.back = resv.back + q /\ b.used = resv.used
      BY <2>1, <3>2 DEF ResvRecord
    <3>7. resv.taken = resv.back + resv.used + resv.qty BY <1>3, <3>2 DEF ResvAdds
    <3> HIDE DEF b, q
    <3>8. b.taken = b.back + b.used + b.qty /\ (b.is = "gone" => b.qty = 0) /\ b.is # "none"
      BY <3>3, <3>6, <3>7
    <3> QED BY <3>1, <3>2, <3>5, <3>8 DEF ResvAdds
  <2>4. CASE ~(call[c].op = "reserve" /\ resv.is = "none") /\ call[c].op # "return"
    <3>1. resv' = resv BY <1>1, <2>4 DEF BookedFor
    <3> QED BY <1>3, <2>1, <3>1 DEF ResvAdds
  <2> QED BY <2>2, <2>3, <2>4
<1>10. /\ rowLock' \in [Shelf -> Clerk \cup {Nobody}]
       /\ partLock' \in Clerk \cup {Nobody} /\ resLock' \in Clerk \cup {Nobody}
       /\ resLock' # c
       /\ \A d \in Clerk : d # c => /\ \A n \in Shelf : rowLock[n] = d => rowLock'[n] = d
                                    /\ resLock' = d <=> resLock = d
  BY <1>1, <1>3, LocksGo
<1>11. go \in CallRecord(V) BY <1>2, NoParts DEF CallRecord, Places, Booking
<1>12. /\ go.at = next /\ go.op = call[c].op /\ go.todo = call[c].todo /\ go.want = call[c].want
       /\ go.put = <<>> /\ go.delta = <<>>
  BY <1>2 DEF CallRecord
<1>13. r \in CallRecord(V \cup {0})
  <2>1. \A x \in CallRecord(V) : x \in CallRecord(V \cup {0}) BY DEF CallRecord
  <2>2. \A x \in CallRecord({0}) : x \in CallRecord(V \cup {0}) BY DEF CallRecord
  <2> HIDE DEF go
  <2> QED BY <1>11, <2>1, <2>2, EmptyCall
<1> HIDE DEF go
<1>14. /\ r.put = <<>> /\ r.delta = <<>> /\ r.at \in {"idle", "close", "read"}
       /\ r.at = "read" => /\ r.op = "inventory" /\ call[c].op = "inventory" /\ r.todo # <<>>
                           /\ r.todo = call[c].todo /\ r.want = call[c].want
       /\ r.op \in {"none", "inventory"}
  BY <1>12, EmptyCall
<1> HIDE DEF r
<1>15. CallShape' /\ call'[c] = r /\ \A d \in Clerk : d # c => call'[d] = call[d]
  BY <1>1, <1>3, <1>13, CallChanges DEF Shape
<1>16. CallInv(c)'
  <2>1. Bookable(c)'
    BY <1>1, <1>3, <1>14, <1>15, NoParts DEF CallInv, Bookable, Booking, Acts
  <2>2. RowsHeld(c)' BY <1>14, <1>15, NoParts DEF RowsHeld
  <2>3. ReadHolds(c)' BY <1>14, <1>15 DEF ReadHolds
  <2>4. NotBelow(c)' BY <1>14, <1>15 DEF NotBelow
  <2>5. ResvHeld(c)' BY <1>10, <1>14, <1>15 DEF ResvHeld
  <2> QED BY <2>1, <2>2, <2>3, <2>4, <2>5 DEF CallInv
<1>17. ASSUME NEW d \in Clerk, d # c PROVE CallInv(d)'
  <2>1. CallInv(d) BY DEF StockInv
  <2>2. \A n \in Stocked : rowLock[n] = d => rowLock'[n] = d /\ stock'[n] = stock[n]
    BY <1>8, <1>10, <1>17, StockAssumption
  <2>3. resLock = d => resv'.is = resv.is /\ resv'.qty = resv.qty
    BY <1>9, <1>17, <2>1 DEF CallInv, ResvHeld
  <2>4. Spared(d) BY <1>10, <1>15, <1>17, <2>2, <2>3 DEF Spared
  <2> QED BY <2>1, <2>4, SparedKeeps
<1>18. Shape'
  BY <1>1, <1>3, <1>4, <1>6, <1>9, <1>10, <1>15 DEF Shape
<1> QED BY <1>7, <1>9, <1>16, <1>17, <1>18 DEF StockInv

\* A request that is not booking.
LEMMA NotBooking ==
  ASSUME StockInv, NEW c \in Clerk, call'[c].at \notin Booking \cup {"find", "items"},
         call'[c].op = call[c].op, call'[c].put = call[c].put, call'[c].delta = call[c].delta,
         UNCHANGED <<stock, resv>>,
         \A n \in Shelf : rowLock[n] = c => rowLock'[n] = c,
         resLock' = c => resv.is = "reserved"
  PROVE  CallInv(c)'
<1>1. CallInv(c) BY DEF StockInv
<1>2. Bookable(c)' BY DEF Bookable, Booking
<1>3. RowsHeld(c)' BY <1>1, StockAssumption DEF CallInv, RowsHeld
<1>4. ReadHolds(c)' BY DEF ReadHolds, Booking
<1>5. NotBelow(c)' BY <1>1 DEF CallInv, NotBelow, Booking
<1>6. ResvHeld(c)' BY DEF ResvHeld
<1> QED BY <1>2, <1>3, <1>4, <1>5, <1>6 DEF CallInv

LEMMA ReturnStep == ASSUME StockInv, NEW c \in Clerk, ReturnReservation(c) PROVE StockInv'
<1>1. /\ UNCHANGED <<stock, hasRow, total, moved, resv, count>> /\ UNCHANGED stockTables
      /\ call[c].at = "find" /\ resLock \in {c, Nobody}
  BY DEF ReturnReservation, stockTables
<1>2. CallInv(c) /\ Shape BY DEF StockInv
<1>3. CASE EndCall(c) BY <1>1, <1>2, <1>3, CallEnds DEF Shape
<1>4. CASE ~EndCall(c)
  <2> DEFINE q == IF call[c].qty = 0 \/ call[c].qty >= resv.qty THEN resv.qty ELSE call[c].qty
  <2>1. PICK n \in resv.place : call' = [call EXCEPT ![c] =
                                   [call[c] EXCEPT !.at = "read", !.todo = <<n>>, !.qty = q]]
    BY <1>4 DEF ReturnReservation, Goes
  <2>2. resv.is = "reserved" /\ resLock' = c /\ UNCHANGED <<rowLock, partLock>>
    BY <1>4 DEF ReturnReservation
  <2> DEFINE r == [call[c] EXCEPT !.at = "read", !.todo = <<n>>, !.qty = q]
  <2>3. PICK V : call[c] \in CallRecord(V) BY <1>2, CallOf DEF Shape
  <2>4. resv.qty \in Nat /\ n \in Shelf /\ call[c].qty \in Nat
    BY <1>2, <2>3, Fields DEF Shape, ResvRecord
  <2>5. q \in Nat /\ q <= resv.qty BY <2>4
  <2>6. /\ <<n>> \in Seq(Shelf) /\ <<n>> # <<>> /\ DOMAIN <<n>> = {1}
    BY <2>4
  <2> HIDE DEF q
  <2>7. r \in CallRecord(V) BY <2>3, <2>5, <2>6 DEF CallRecord, Places, Booking
  <2>8. /\ r.at = "read" /\ r.op = call[c].op /\ r.todo = <<n>> /\ r.qty = q
        /\ r.put = call[c].put /\ r.delta = call[c].delta
    BY <2>3 DEF CallRecord
  <2>9. call' = [call EXCEPT ![c] = r] BY <2>1
  <2> HIDE DEF r
  <2>10. call'[c] = r BY <1>2, <2>7, <2>9, CallChanges DEF Shape
  <2>11. call[c].op = "return" /\ DOMAIN call[c].put = {} BY <1>1, <1>2 DEF CallInv, Bookable
  <2>12. Bookable(c)'
    <3>1. /\ call'[c].at = "read" /\ call'[c].op = "return" /\ DOMAIN call'[c].put = {}
          /\ call'[c].todo # <<>> /\ DOMAIN call'[c].todo = {1}
      BY <2>6, <2>8, <2>10, <2>11
    <3> QED BY <3>1 DEF Bookable, Booking, Acts
  <2>13. RowsHeld(c)' BY <1>1, <1>2, <2>8, <2>10, <2>11 DEF CallInv, RowsHeld
  <2>14. ReadHolds(c)' /\ NotBelow(c)' BY <2>8, <2>10, <2>11 DEF ReadHolds, NotBelow
  <2>15. ResvHeld(c)' BY <1>1, <2>2, <2>5, <2>8, <2>10 DEF ResvHeld
  <2>16. CallInv(c)' BY <2>12, <2>13, <2>14, <2>15 DEF CallInv
  <2>17. /\ rowLock' \in [Shelf -> Clerk \cup {Nobody}] /\ partLock' \in Clerk \cup {Nobody}
         /\ resLock' \in Clerk \cup {Nobody}
         /\ \A m \in Shelf, d \in Clerk : d # c => (rowLock[m] = d => rowLock'[m] = d)
         /\ \A d \in Clerk : d # c => (resLock' = d <=> resLock = d)
    BY <1>1, <1>2, <2>2, StockAssumption DEF Shape
  <2> QED BY <1>1, <2>7, <2>9, <2>16, <2>17, OwnStep
<1> QED BY <1>3, <1>4

LEMMA RelabelStep == ASSUME StockInv, NEW c \in Clerk, Relabel(c) PROVE StockInv'
<1> DEFINE next == IF call[c].op = "consume" THEN "consumed" ELSE "flag"
           k == IF resv.is = "reserved" THEN resv.kinds ELSE {}
           r == [call[c] EXCEPT !.at = next, !.kinds = k]
<1>1. UNCHANGED <<stockTables, stockLocks>> /\ call' = [call EXCEPT ![c] = r]
  BY DEF Relabel, Goes
<1>2. UNCHANGED <<stock, resv, rowLock, resLock>> BY <1>1 DEF stockTables, stockLocks
<1>3. PICK V : call[c] \in CallRecord(V) BY CallOf DEF StockInv, Shape
<1>4. next \in {"consumed", "flag"} /\ k \in SUBSET Kinds
  BY DEF StockInv, Shape, ResvRecord, Kinds
<1> HIDE DEF next, k
<1>5. r \in CallRecord(V) BY <1>3, <1>4 DEF CallRecord, Places
<1>6. r.at = next /\ r.op = call[c].op /\ r.put = call[c].put /\ r.delta = call[c].delta
  BY <1>3 DEF CallRecord
<1> HIDE DEF r
<1>7. call'[c] = r BY <1>1, <1>5, CallChanges DEF StockInv, Shape
<1>8. resLock' = c => resv.is = "reserved" BY <1>2 DEF StockInv, CallInv, ResvHeld
<1>9. CallInv(c)' BY <1>2, <1>4, <1>6, <1>7, <1>8, NotBooking DEF Booking
<1> QED BY <1>1, <1>5, <1>9, OnlyCall

LEMMA FlagStep == ASSUME StockInv, NEW c \in Clerk, Flag(c) PROVE StockInv'
<1>1. /\ UNCHANGED <<stock, hasRow, total, moved, resv, count>> /\ UNCHANGED stockTables
      /\ call[c].at = "flag" /\ resLock \in {c, Nobody}
  BY DEF Flag, stockTables
<1>2. CallInv(c) /\ Shape BY DEF StockInv
<1>3. CASE EndCall(c) BY <1>1, <1>2, <1>3, CallEnds DEF Shape
<1>4. CASE ~EndCall(c)
  <2>1. \E next \in {"consumed", "relabel"} : call' = [call EXCEPT ![c] = [call[c] EXCEPT !.at = next]]
    BY <1>4 DEF Flag, Goes
  <2>2. PICK next \in {"consumed", "relabel"} :
          call' = [call EXCEPT ![c] = [call[c] EXCEPT !.at = next]]
    BY <2>1
  <2>3. UNCHANGED <<rowLock, partLock>> /\ (resLock' = resLock \/ (resLock' = c /\ resv.is = "reserved"))
    <3>1. CASE resv.is = "reserved" BY <3>1 DEF Flag
    <3>2. CASE resv.is # "reserved"
      <4>1. UNCHANGED stockLocks BY <1>4, <3>2 DEF Flag
      <4> QED BY <4>1 DEF stockLocks
    <3> QED BY <3>1, <3>2
  <2> DEFINE r == [call[c] EXCEPT !.at = next]
  <2>4. PICK V : call[c] \in CallRecord(V) BY <1>2, CallOf DEF Shape
  <2>5. r \in CallRecord(V) BY <2>4 DEF CallRecord, Places
  <2>6. r.at = next /\ r.op = call[c].op /\ r.put = call[c].put /\ r.delta = call[c].delta
    BY <2>4 DEF CallRecord
  <2>7. call' = [call EXCEPT ![c] = r] BY <2>2
  <2> HIDE DEF r
  <2>8. call'[c] = r BY <1>2, <2>5, <2>7, CallChanges DEF Shape
  <2>9. resLock' = c => resv.is = "reserved" BY <1>2, <2>3 DEF CallInv, ResvHeld
  <2>10. CallInv(c)' BY <1>1, <2>3, <2>6, <2>8, <2>9, NotBooking DEF Booking
  <2>11. /\ rowLock' \in [Shelf -> Clerk \cup {Nobody}] /\ partLock' \in Clerk \cup {Nobody}
         /\ resLock' \in Clerk \cup {Nobody}
         /\ \A m \in Shelf, d \in Clerk : d # c => (rowLock[m] = d => rowLock'[m] = d)
         /\ \A d \in Clerk : d # c => (resLock' = d <=> resLock = d)
    BY <1>1, <1>2, <2>3, StockAssumption DEF Shape
  <2> QED BY <1>1, <2>5, <2>7, <2>10, <2>11, OwnStep
<1> QED BY <1>3, <1>4

LEMMA ListStep == ASSUME StockInv, NEW c \in Clerk, ListShelves(c) PROVE StockInv'
<1> DEFINE w == [n \in DOMAIN call[c].want |-> stock[n]]
           r == [call[c] EXCEPT !.at = "open", !.want = w]
<1>1. UNCHANGED <<stockTables, stockLocks>> /\ call' = [call EXCEPT ![c] = r]
  BY DEF ListShelves, Goes
<1>2. UNCHANGED <<stock, resv, rowLock, resLock>> BY <1>1 DEF stockTables, stockLocks
<1>3. PICK V : call[c] \in CallRecord(V) BY CallOf DEF StockInv, Shape
<1>4. w \in Parts
  <2>1. DOMAIN call[c].want \in SUBSET Shelf BY <1>3, Fields, PartsOf
  <2>2. w \in [DOMAIN call[c].want -> Int] BY <2>1 DEF StockInv, Shape
  <2> QED BY <2>1, <2>2, PartsMake
<1> HIDE DEF w
<1>5. r \in CallRecord(V) BY <1>3, <1>4 DEF CallRecord, Places
<1>6. r.at = "open" /\ r.op = call[c].op /\ r.put = call[c].put /\ r.delta = call[c].delta
  BY <1>3 DEF CallRecord
<1> HIDE DEF r
<1>7. call'[c] = r BY <1>1, <1>5, CallChanges DEF StockInv, Shape
<1>8. resLock' = c => resv.is = "reserved" BY <1>2 DEF StockInv, CallInv, ResvHeld
<1>9. CallInv(c)' BY <1>2, <1>6, <1>7, <1>8, NotBooking DEF Booking
<1> QED BY <1>1, <1>5, <1>9, OnlyCall

LEMMA OpenStep == ASSUME StockInv, NEW c \in Clerk, OpenCount(c) PROVE StockInv'
<1>1. PICK V : call[c] \in CallRecord(V) BY CallOf DEF StockInv, Shape
<1> DEFINE w == call[c].want
           e == [n \in DOMAIN w |-> Uncounted]
<1>2. w \in Parts BY <1>1, Fields
<1>3. e \in Parts
  <2>1. DOMAIN w \in SUBSET Shelf BY <1>2, PartsOf
  <2>2. e \in [DOMAIN w -> Int] BY DEF Uncounted
  <2> QED BY <2>1, <2>2, PartsMake
<1>4. count' = count \/ count' = [is |-> "open", expected |-> w, counted |-> e]
  BY DEF OpenCount
<1> HIDE DEF w, e
<1>5. count' \in CountRecord BY <1>2, <1>3, <1>4 DEF StockInv, Shape, CountRecord
<1> QED BY <1>5, CallEnds DEF OpenCount

LEMMA CloseStep == ASSUME StockInv, NEW c \in Clerk, CloseCount(c) PROVE StockInv'
<1>1. count' \in CountRecord BY DEF CloseCount, StockInv, Shape, CountRecord
<1> QED BY <1>1, CallEnds DEF CloseCount

LEMMA BreakStep == ASSUME StockInv, NEW c \in Clerk, BreakOff(c) PROVE StockInv'
  BY CallEnds DEF BreakOff, stockTables, StockInv, Shape

LEMMA ConsumedStep == ASSUME StockInv, NEW c \in Clerk, Consumed(c) PROVE StockInv'
<1> DEFINE mine == resLock = c
           k == (resv.kinds \ call[c].kinds) \cup Consumption(call[c].kinds)
           b == [resv EXCEPT !.kinds = k, !.is = IF mine THEN "gone" ELSE @,
                             !.used = IF mine THEN @ + resv.qty ELSE @,
                             !.qty = IF mine THEN 0 ELSE @]
<1>1. /\ UNCHANGED <<stock, hasRow, total, moved, count>> /\ resv' = b
      /\ LetGo(c) /\ call' = [call EXCEPT ![c] = NoCall]
  BY DEF Consumed, EndCall, Goes
<1>2. /\ Shape /\ ResvAdds /\ LedgerAdds /\ resv \in ResvRecord
      /\ mine => resv.is = "reserved"
  BY DEF StockInv, Shape, CallInv, ResvHeld
<1>3. PICK V : call[c] \in CallRecord(V) BY <1>2, CallOf DEF Shape
<1>4. k \in SUBSET Kinds
  <2>1. call[c].kinds \in SUBSET Kinds /\ resv.kinds \in SUBSET Kinds
    BY <1>2, <1>3, Fields DEF ResvRecord
  <2>2. Consumption(call[c].kinds) \in SUBSET Kinds BY <2>1 DEF Consumption, Kinds
  <2> QED BY <2>1, <2>2
<1> HIDE DEF k
<1>5. /\ resv.qty \in Nat /\ resv.taken \in Nat /\ resv.back \in Nat /\ resv.used \in Nat
      /\ resv.is \in {"none", "reserved", "gone"}
  BY <1>2 DEF ResvRecord
<1>6. b \in ResvRecord
  <2>1. resv.used + resv.qty \in Nat BY <1>5
  <2> QED BY <1>2, <1>4, <1>5, <2>1 DEF ResvRecord
<1>7. /\ b.is = (IF mine THEN "gone" ELSE resv.is) /\ b.qty = (IF mine THEN 0 ELSE resv.qty)
      /\ b.used = (IF mine THEN resv.used + resv.qty ELSE resv.used)
      /\ b.taken = resv.taken /\ b.back = resv.back
  BY <1>2 DEF ResvRecord
<1> HIDE DEF b
<1>8. ResvAdds'
  <2>1. CASE mine
    <3>1. resv.taken = resv.back + resv.used + resv.qty BY <1>2, <2>1 DEF ResvAdds
    <3>2. b.taken = b.back + b.used + b.qty /\ b.qty = 0 /\ b.is = "gone"
      BY <1>5, <1>7, <2>1, <3>1
    <3> QED BY <1>1, <3>2 DEF ResvAdds
  <2>2. CASE ~mine BY <1>1, <1>2, <1>7, <2>2 DEF ResvAdds
  <2> QED BY <2>1, <2>2
<1>9. CallShape' /\ call'[c] = NoCall /\ \A d \in Clerk : d # c => call'[d] = call[d]
  BY <1>1, <1>2, CallChanges, EmptyCall DEF Shape
<1>10. /\ rowLock' \in [Shelf -> Clerk \cup {Nobody}]
       /\ partLock' \in Clerk \cup {Nobody} /\ resLock' \in Clerk \cup {Nobody}
       /\ resLock' # c
       /\ \A d \in Clerk : d # c => /\ \A n \in Shelf : rowLock[n] = d => rowLock'[n] = d
                                    /\ resLock' = d <=> resLock = d
  BY <1>1, <1>2, LocksGo
<1>11. Shape' BY <1>1, <1>2, <1>6, <1>9, <1>10 DEF Shape
<1>12. \A d \in Clerk : d # c => Spared(d) BY <1>1, <1>7, <1>9, <1>10, StockAssumption DEF Spared
<1>13. CallInv(c)'
  BY <1>9, <1>10, EmptyCall, NoParts
  DEF CallInv, Bookable, RowsHeld, ReadHolds, NotBelow, ResvHeld, Booking
<1>14. \A d \in Clerk : CallInv(d)' BY <1>12, <1>13, SparedKeeps DEF StockInv
<1>15. LedgerAdds' BY <1>1, <1>2 DEF LedgerAdds
<1> QED BY <1>8, <1>11, <1>14, <1>15 DEF StockInv

LEMMA BookStep == ASSUME StockInv, NEW c \in Clerk, BookStocktake(c) PROVE StockInv'
<1>1. /\ UNCHANGED <<stock, hasRow, total, moved, resv, count>> /\ UNCHANGED stockTables
      /\ call[c].at = "items"
  BY DEF BookStocktake, stockTables
<1>2. CallInv(c) /\ Shape BY DEF StockInv
<1>3. CASE EndCall(c) BY <1>1, <1>2, <1>3, CallEnds DEF Shape
<1>4. CASE ~EndCall(c)
  <2> DEFINE next == IF Differs = {} THEN "close" ELSE "read"
  <2>1. PICK order \in [1..Cardinality(Differs) -> Differs] :
          /\ \A i, j \in DOMAIN order : order[i] = order[j] => i = j
          /\ call' = [call EXCEPT ![c] = [call[c] EXCEPT !.at = next, !.todo = order,
                                                         !.want = count.counted]]
    BY <1>4 DEF BookStocktake, Goes
  <2>2. UNCHANGED stockLocks /\ UNCHANGED <<rowLock, partLock, resLock>>
    BY <1>4 DEF BookStocktake, stockLocks
  <2>3. count.counted \in Parts BY <1>2 DEF Shape, CountRecord
  <2>4. DOMAIN count.counted \subseteq Shelf /\ Differs \subseteq DOMAIN count.counted
    BY <2>3, PartsOf DEF Differs
  <2>5. /\ IsFiniteSet(Differs) /\ Cardinality(Differs) \in Nat
        /\ Cardinality(Differs) = 0 <=> Differs = {}
    <3>1. Differs \subseteq Shelf BY <2>4
    <3>2. IsFiniteSet(Differs) BY <3>1, StockAssumption, FS_Subset
    <3> QED BY <3>2, FS_CardinalityType, FS_EmptySet
  <2>6. /\ order \in Seq(Shelf) /\ \A i \in DOMAIN order : order[i] \in DOMAIN count.counted
        /\ Differs # {} => order # <<>>
    <3>1. order \in [1..Cardinality(Differs) -> Shelf] BY <2>1, <2>4
    <3>2. order \in Seq(Shelf) BY <2>5, <3>1
    <3>3. Differs # {} => 1 \in DOMAIN order BY <2>1, <2>5
    <3> QED BY <2>1, <2>4, <3>2, <3>3, NoParts
  <2>7. next \in {"close", "read"} /\ (next = "read" => order # <<>>) BY <2>6
  <2> DEFINE r == [call[c] EXCEPT !.at = next, !.todo = order, !.want = count.counted]
  <2>8. PICK V : call[c] \in CallRecord(V) BY <1>2, CallOf DEF Shape
  <2> HIDE DEF next
  <2>9. r \in CallRecord(V) BY <2>3, <2>6, <2>7, <2>8 DEF CallRecord, Places, Booking
  <2>10. /\ r.at = next /\ r.op = call[c].op /\ r.todo = order /\ r.want = count.counted
         /\ r.put = call[c].put /\ r.delta = call[c].delta
    BY <2>8 DEF CallRecord
  <2>11. call' = [call EXCEPT ![c] = r] BY <2>1
  <2> HIDE DEF r
  <2>12. call'[c] = r BY <1>2, <2>9, <2>11, CallChanges DEF Shape
  <2>13. call[c].op = "inventory" /\ DOMAIN call[c].put = {} BY <1>1, <1>2 DEF CallInv, Bookable
  <2>14. Bookable(c)'
    <3>1. call'[c].todo = order /\ call'[c].want = count.counted BY <2>10, <2>12
    <3>2. /\ call'[c].at \in {"close", "read"} /\ call'[c].op = "inventory"
          /\ DOMAIN call'[c].put = {} /\ (call'[c].at = "read" => order # <<>>)
      BY <2>7, <2>10, <2>12, <2>13
    <3>3. \A i, j \in DOMAIN call'[c].todo : call'[c].todo[i] = call'[c].todo[j] => i = j
      BY <2>1, <3>1
    <3>4. \A i \in DOMAIN call'[c].todo : call'[c].todo[i] \in DOMAIN call'[c].want
      BY <2>1, <2>6, <3>1
    <3> QED BY <3>1, <3>2, <3>3, <3>4 DEF Bookable, Booking, Acts
  <2>15. RowsHeld(c)' BY <1>1, <1>2, <2>2, <2>10, <2>12, <2>13 DEF CallInv, RowsHeld
  <2>16. ReadHolds(c)' /\ NotBelow(c)'
    BY <2>7, <2>10, <2>12, <2>13 DEF ReadHolds, NotBelow
  <2>17. ResvHeld(c)' BY <1>1, <1>2, <2>2, <2>10, <2>12, <2>13 DEF CallInv, ResvHeld
  <2>18. CallInv(c)' BY <2>14, <2>15, <2>16, <2>17 DEF CallInv
  <2> QED BY <1>1, <2>2, <2>9, <2>11, <2>18, OnlyCall
<1> QED BY <1>3, <1>4

LEMMA CountsStep ==
  ASSUME StockInv, SubmitCounts \/ CancelStocktake
  PROVE  StockInv'
<1>1. /\ UNCHANGED <<stock, hasRow, total, moved, resv, stockLocks, call>>
      /\ UNCHANGED <<rowLock, partLock, resLock>>
  BY DEF SubmitCounts, CancelStocktake, stockLocks
<1>2. count \in CountRecord BY DEF StockInv, Shape
<1>3. count' \in CountRecord
  <2>1. CASE CancelStocktake BY <1>2, <2>1 DEF CancelStocktake, CountRecord
  <2>2. CASE SubmitCounts
    <3>1. PICK n \in DOMAIN count.counted, q \in 0..Opening :
            count' = [count EXCEPT !.counted[n] = q]
      BY <2>2 DEF SubmitCounts
    <3> DEFINE f == [count.counted EXCEPT ![n] = q]
    <3>2. count.counted \in Parts /\ q \in Int BY <1>2, StockAssumption DEF CountRecord
    <3>3. f \in Parts
      <4>1. DOMAIN count.counted \in SUBSET Shelf BY <3>2, PartsOf
      <4>2. f \in [DOMAIN count.counted -> Int] BY <3>2 DEF Parts
      <4> QED BY <4>1, <4>2, PartsMake
    <3>4. count' = [count EXCEPT !.counted = f] BY <3>1
    <3> HIDE DEF f
    <3> QED BY <1>2, <3>3, <3>4 DEF CountRecord
  <2> QED BY <2>1, <2>2
<1>4. Shape' BY <1>1, <1>3 DEF StockInv, Shape, CallShape
<1>5. \A c \in Clerk : CallInv(c)' BY <1>1, SparedKeeps DEF StockInv, Spared
<1>6. LedgerAdds' /\ ResvAdds' BY <1>1 DEF StockInv, LedgerAdds, ResvAdds
<1> QED BY <1>4, <1>5, <1>6 DEF StockInv

LEMMA StandsStill == ASSUME StockInv, UNCHANGED stockVars PROVE StockInv'
<1>1. UNCHANGED <<stock, hasRow, total, moved, resv, count, rowLock, partLock, resLock, call>>
  BY DEF stockVars, stockTables, stockLocks
<1>2. Shape' BY <1>1 DEF StockInv, Shape, CallShape
<1>3. \A c \in Clerk : CallInv(c)' BY <1>1, SparedKeeps DEF StockInv, Spared
<1> QED BY <1>1, <1>2, <1>3 DEF StockInv, LedgerAdds, ResvAdds

LEMMA KeepsInv == StockInv /\ [StockNext]_stockVars => StockInv'
<1> SUFFICES ASSUME StockInv, [StockNext]_stockVars PROVE StockInv'
  OBVIOUS
<1>1. CASE UNCHANGED stockVars BY <1>1, StandsStill
<1>2. CASE SubmitCounts \/ CancelStocktake BY <1>2, CountsStep
<1>3. ASSUME NEW c \in Clerk,
             \/ Order(c) \/ BreakOff(c) \/ CheckLocked(c) \/ ReadRow(c) \/ WriteRow(c)
             \/ SumUp(c) \/ WriteTotal(c) \/ CommitCall(c)
             \/ ReturnReservation(c) \/ Relabel(c) \/ Flag(c) \/ Consumed(c)
             \/ ListShelves(c) \/ OpenCount(c) \/ BookStocktake(c) \/ CloseCount(c)
      PROVE  StockInv'
  BY <1>3, OrderStep, BreakStep, CheckStep, ReadStep, WriteStep, SumStep, TotalStep, CommitStep,
     ReturnStep, RelabelStep, FlagStep, ConsumedStep, ListStep, OpenStep, BookStep, CloseStep
<1> QED BY <1>1, <1>2, <1>3 DEF StockNext

LEMMA InvHolds == StockSpec => []StockInv
  BY StartInv, KeepsInv, PTL DEF StockSpec

-----------------------------------------------------------------------------
(* What the requests guarantee                                             *)

(* For any shelves and any number of requests at once, wherever one of     *)
(* them breaks off, the stock of a shelf that has its row is what it was   *)
(* plus its movements: no booking is lost between the SELECT FOR UPDATE    *)
(* and the write of bookTx.                                                *)
THEOREM BookingsAdd == StockSpec => []LedgerAdds
<1>1. StockInv => LedgerAdds BY DEF StockInv
<1> QED BY <1>1, InvHolds, PTL

(* Of a reservation never more comes back or is consumed than was taken,   *)
(* and all of it when it is gone, however many requests return it, delete  *)
(* its entry and close its work item at once.                              *)
THEOREM ReservationAdds == StockSpec => []PiecesAccounted
<1>1. StockInv => PiecesAccounted
  <2> SUFFICES ASSUME StockInv PROVE PiecesAccounted OBVIOUS
  <2>1. /\ resv.qty \in Nat /\ resv.taken \in Nat /\ resv.back \in Nat /\ resv.used \in Nat
        /\ ResvAdds
    BY DEF StockInv, Shape, ResvRecord
  <2>2. CASE resv.is = "none" BY <2>1, <2>2 DEF ResvAdds, PiecesAccounted
  <2>3. CASE resv.is # "none"
    <3>1. resv.taken = resv.back + resv.used + resv.qty /\ (resv.is = "gone" => resv.qty = 0)
      BY <2>1, <2>3 DEF ResvAdds
    <3> QED BY <2>1, <3>1 DEF PiecesAccounted
  <2> QED BY <2>2, <2>3
<1> QED BY <1>1, InvHolds, PTL

(* No reservation and no booking with NoNegative commits a quantity below  *)
(* zero to a shelf, whatever is booked beside it.                          *)
THEOREM TakesWhatIsThere == StockSpec => NeverOverdrawn
<1> DEFINE A == \A c \in Clerk : CommitCall(c) /\ call[c].op \in {"reserve", "guarded"}
                  => \A n \in DOMAIN call[c].put \cap Stocked : stock'[n] >= 0
<1>1. StockInv => A
  <2> SUFFICES ASSUME StockInv, NEW c \in Clerk, CommitCall(c), call[c].op \in {"reserve", "guarded"},
                      NEW n \in DOMAIN call[c].put \cap Stocked
               PROVE  stock'[n] >= 0
    OBVIOUS
  <2>1. call[c].put[n] >= 0 BY DEF StockInv, CallInv, NotBelow
  <2>2. stock'[n] = call[c].put[n] BY StockAssumption DEF CommitCall, Seen
  <2> QED BY <2>1, <2>2
<1>2. StockInv /\ [StockNext]_stockVars => [A]_stockVars BY <1>1
<1> HIDE DEF A
<1>3. StockSpec => [][A]_stockVars BY <1>2, InvHolds, PTL DEF StockSpec
<1> QED BY <1>3 DEF NeverOverdrawn, A
=============================================================================
