------------------------------- MODULE Stock -------------------------------
(***************************************************************************)
(* The stock of one spare part on the shelves of the store: bookings,      *)
(* reservations for a work item and stocktaking                            *)
(* (src/internal/modules/inventory, the trigger pdh_reservation_return).   *)
(*                                                                         *)
(* Every request runs statement by statement against PostgreSQL at READ    *)
(* COMMITTED: a statement sees what is committed when it starts, a row     *)
(* lock is held to the end of its transaction, and what a transaction      *)
(* wrote shows when it commits.  A request may break off at any statement  *)
(* (its context ends, PostgreSQL picks it as the victim of a deadlock).    *)
(***************************************************************************)
EXTENDS Integers, Sequences, FiniteSets

CONSTANTS Shelf,      \* storage_nodes
          Stocked,    \* the shelves that have a row in spare_part_stock
          Opening,    \* what lies on each of them
          Clerk,      \* requests in flight
          Nobody,     \* no request holds the lock
          MaxCalls    \* bound: requests in a behaviour

ASSUME StockAssumption == /\ IsFiniteSet(Shelf)
                          /\ Stocked \subseteq Shelf /\ Stocked # {}
                          /\ Opening \in Nat
                          /\ MaxCalls \in Nat
                          /\ Nobody \notin Clerk

VARIABLES stock,      \* spare_part_stock.qty, 0 without a row
          hasRow,     \* the shelves with a row
          total,      \* spare_parts.stock_qty, the cached sum
          moved,      \* the sum of the stock_movements of a shelf
          resv,       \* the reservation, and what its movements say of it
          count,      \* the stocktake: inventory_sessions and its items
          rowLock, partLock, resLock,  \* which request holds which row
          call,       \* the requests in flight
          calls       \* bound: requests so far

stockTables == <<stock, hasRow, total, moved, resv, count>>
stockLocks == <<rowLock, partLock, resLock>>
stockVars == <<stockTables, stockLocks, call, calls>>

ReservedQty == 2      \* bound: what one reservation takes
Uncounted == -1       \* counted_qty IS NULL

SumOf(f) == LET Add[S \in SUBSET Shelf] ==
                  IF S = {} THEN 0
                  ELSE LET n == CHOOSE n \in S : TRUE IN f[n] + Add[S \ {n}]
            IN  Add[Shelf]

(* A request: its operation, the statement it is at, the positions it      *)
(* still books, and what it has read and written in its transaction.       *)
NoCall == [op |-> "none", at |-> "idle", todo |-> <<>>, qty |-> 0,
           want |-> <<>>, old |-> 0, put |-> <<>>, delta |-> <<>>,
           sum |-> 0, kinds |-> {}]

\* Nothing is reserved yet or a reservation holds a part of a shelf, and a
\* stocktake of some shelves may be open.
StockInit ==
  /\ \E n \in Stocked, k \in {0, ReservedQty}, S \in SUBSET Stocked :
       /\ k <= Opening
       /\ moved = [m \in Shelf |-> IF m = n THEN -k ELSE 0]
       /\ stock = [m \in Shelf |-> (IF m \in Stocked THEN Opening ELSE 0) + moved[m]]
       /\ resv = [is |-> IF k = 0 THEN "none" ELSE "reserved",
                  place |-> IF k = 0 THEN {} ELSE {n}, qty |-> k,
                  taken |-> k, back |-> 0, used |-> 0,
                  kinds |-> IF k = 0 THEN {} ELSE {"reserve"}]
       /\ count = IF S = {} THEN [is |-> "none", expected |-> <<>>, counted |-> <<>>]
                  ELSE [is |-> "open", expected |-> [m \in S |-> stock[m]],
                        counted |-> [m \in S |-> Uncounted]]
  /\ hasRow = Stocked
  /\ total = SumOf(stock)
  /\ rowLock = [n \in Shelf |-> Nobody]
  /\ partLock = Nobody
  /\ resLock = Nobody
  /\ call = [c \in Clerk |-> NoCall]
  /\ calls = 0

-----------------------------------------------------------------------------
(* A request takes its next statement, or ends and lets its locks go.      *)
Goes(c, r) == call' = [call EXCEPT ![c] = r]

LetGo(c) ==
  /\ rowLock' = [n \in Shelf |-> IF rowLock[n] = c THEN Nobody ELSE rowLock[n]]
  /\ partLock' = IF partLock = c THEN Nobody ELSE partLock
  /\ resLock' = IF resLock = c THEN Nobody ELSE resLock

EndCall(c) == LetGo(c) /\ Goes(c, NoCall)

Request(c, op, at, todo, qty) ==
  Goes(c, [NoCall EXCEPT !.op = op, !.at = at, !.todo = todo, !.qty = qty])

(* A request arrives: Book in its kinds (NoNegative is "guarded"), BookMany *)
(* with two positions, Reserve, ReturnReservation (0 is all of it), the    *)
(* two ways to consume, and a stocktake that is begun or booked.           *)
Order(c) ==
  /\ call[c].at = "idle" /\ calls < MaxCalls
  /\ calls' = calls + 1
  /\ UNCHANGED <<stockTables, stockLocks>>
  /\ \/ \E op \in {"in", "out", "guarded", "correct"}, n \in Shelf :
          Request(c, op, "check", <<n>>, 1)
     \/ \E m, n \in Shelf : m # n /\ Request(c, "many", "check", <<m, n>>, 1)
     \/ \E n \in Shelf :
          resv.is = "none" /\ Request(c, "reserve", "check", <<n>>, ReservedQty)
     \/ \E q \in {0, 1} : Request(c, "return", "find", <<>>, q)
     \/ Request(c, "consumeAll", "relabel", <<>>, 0)
     \/ Request(c, "consume", "flag", <<>>, 0)
     \/ \E S \in SUBSET Shelf \ {{}} :
          /\ count.is = "none"
          /\ Goes(c, [NoCall EXCEPT !.op = "list", !.at = "list",
                                    !.want = [n \in S |-> 0]])
     \/ Request(c, "inventory", "items", <<>>, 0)

(* The request breaks off: its transaction is rolled back.                 *)
BreakOff(c) ==
  /\ call[c].at # "idle"
  /\ EndCall(c)
  /\ UNCHANGED <<stockTables, calls>>

-----------------------------------------------------------------------------
(* Bookings: bookTx, and the trigger, which books the same way.            *)

(* IsLocationLocked: an open stocktake lists the shelf.  Book, BookMany    *)
(* and Reserve ask before their transaction begins.                        *)
IsLocationLocked(n) == count.is = "open" /\ n \in DOMAIN count.expected

CheckLocked(c) ==
  /\ call[c].at = "check"
  /\ IF \E i \in DOMAIN call[c].todo : IsLocationLocked(call[c].todo[i])
     THEN EndCall(c)
     ELSE Goes(c, [call[c] EXCEPT !.at = "read"]) /\ UNCHANGED stockLocks
  /\ UNCHANGED <<stockTables, calls>>

(* What a statement of the request sees on a shelf.                        *)
Seen(c, n) == IF n \in DOMAIN call[c].put THEN call[c].put[n] ELSE stock[n]

NewQty(c, n, cur) ==
  CASE call[c].op \in {"in", "many", "return"}     -> cur + call[c].qty
    [] call[c].op \in {"out", "guarded", "reserve"} -> cur - call[c].qty
    [] call[c].op = "correct"                       -> call[c].qty
    [] call[c].op = "inventory"                     -> call[c].want[n]

\* Mutant: one piece more than there is.
Refused_OffByOne(c, n, cur) == call[c].op = "reserve" /\ cur + 1 < call[c].qty

(* Reserve takes no more than is free; NoNegative does not let a booking   *)
(* take a shelf below zero.                                                *)
Refused(c, n, cur) ==
  \/ call[c].op = "reserve" /\ cur < call[c].qty
  \/ call[c].op = "guarded" /\ NewQty(c, n, cur) < 0

\* Mutant: SELECT without FOR UPDATE.
ReadRow_Unlocked(c) ==
  /\ call[c].at = "read"
  /\ LET n == Head(call[c].todo) cur == Seen(c, n) IN
     IF Refused(c, n, cur) THEN EndCall(c)
     ELSE Goes(c, [call[c] EXCEPT !.at = "write", !.old = cur]) /\ UNCHANGED stockLocks
  /\ UNCHANGED <<stockTables, calls>>

(* SELECT ... FOR UPDATE waits for the row and locks it.  A shelf without  *)
(* a row reads as zero, and nothing is locked.                             *)
ReadRow(c) ==
  /\ call[c].at = "read"
  /\ LET n == Head(call[c].todo) cur == Seen(c, n) IN
     /\ n \in hasRow => rowLock[n] \in {c, Nobody}
     /\ IF Refused(c, n, cur)
        THEN EndCall(c)
        ELSE /\ Goes(c, [call[c] EXCEPT !.at = "write", !.old = cur])
             /\ rowLock' = IF n \in hasRow THEN [rowLock EXCEPT ![n] = c] ELSE rowLock
             /\ UNCHANGED <<partLock, resLock>>
  /\ UNCHANGED <<stockTables, calls>>

(* INSERT ... ON CONFLICT DO UPDATE SET qty=$3 waits for a row someone     *)
(* else inserts or changes, then writes what follows from the quantity     *)
(* read before; and the movement with the difference.                      *)
With(f, n, v) == [m \in DOMAIN f \cup {n} |-> IF m = n THEN v ELSE f[m]]

WriteRow(c) ==
  /\ call[c].at = "write"
  /\ LET n == Head(call[c].todo) new == NewQty(c, n, call[c].old) IN
     /\ rowLock[n] \in {c, Nobody}
     /\ rowLock' = [rowLock EXCEPT ![n] = c]
     /\ Goes(c, [call[c] EXCEPT !.at = "sum",
                   !.put = With(@, n, new),
                   !.delta = With(@, n, new - call[c].old)])
  /\ UNCHANGED <<stockTables, partLock, resLock, calls>>

(* UPDATE spare_parts SET stock_qty = (SELECT SUM ...): the sum is what    *)
(* the statement sees when it starts, also if it then waits for the row.   *)
SumUp(c) ==
  /\ call[c].at = "sum"
  /\ Goes(c, [call[c] EXCEPT !.at = "total", !.sum = SumOf([n \in Shelf |-> Seen(c, n)])])
  /\ UNCHANGED <<stockTables, stockLocks, calls>>

WriteTotal(c) ==
  /\ call[c].at = "total"
  /\ partLock \in {c, Nobody}
  /\ partLock' = c
  /\ Goes(c, [call[c] EXCEPT
                !.todo = Tail(@),
                !.at = IF Len(call[c].todo) > 1 /\ call[c].op = "many" THEN "read" ELSE "commit"])
  /\ UNCHANGED <<stockTables, rowLock, resLock, calls>>

(* What the booking of a reservation commits besides the stock: the entry  *)
(* Reserve inserts, the part of it a return takes away.  Of two            *)
(* reservations made at once the first one is followed.                    *)
BookedFor(c) ==
  CASE call[c].op = "reserve" /\ resv.is = "none" ->
         [resv EXCEPT !.is = "reserved", !.place = DOMAIN call[c].put,
                      !.qty = call[c].qty, !.taken = @ + call[c].qty,
                      !.kinds = @ \cup {"reserve"}]
    [] call[c].op = "return" ->
         [resv EXCEPT !.is = IF call[c].qty = resv.qty THEN "gone" ELSE @,
                      !.qty = @ - call[c].qty, !.back = @ + call[c].qty,
                      !.kinds = @ \cup {"unreserve"}]
    [] OTHER -> resv

(* The commit.  A stocktake books each position in a transaction of its    *)
(* own and goes on with the next.                                          *)
CommitCall(c) ==
  /\ call[c].at = "commit"
  /\ stock' = [n \in Shelf |-> Seen(c, n)]
  /\ hasRow' = hasRow \cup DOMAIN call[c].put
  /\ moved' = [n \in Shelf |->
                 moved[n] + (IF n \in DOMAIN call[c].delta THEN call[c].delta[n] ELSE 0)]
  /\ total' = call[c].sum
  /\ resv' = BookedFor(c)
  /\ LetGo(c)
  /\ Goes(c, IF call[c].op = "inventory"
             THEN [call[c] EXCEPT !.at = IF call[c].todo = <<>>
                                         THEN "close" ELSE "read",
                                  !.put = <<>>, !.delta = <<>>]
             ELSE NoCall)
  /\ UNCHANGED <<count, calls>>

-----------------------------------------------------------------------------
(* Reservations.                                                           *)

\* Mutant: SELECT without FOR UPDATE.
ReturnReservation_Unlocked(c) ==
  /\ call[c].at = "find"
  /\ IF resv.is # "reserved"
     THEN EndCall(c)
     ELSE \E n \in resv.place :
            /\ Goes(c, [call[c] EXCEPT !.at = "read", !.todo = <<n>>,
                          !.qty = IF @ = 0 \/ @ >= resv.qty THEN resv.qty ELSE @])
            /\ UNCHANGED stockLocks
  /\ UNCHANGED <<stockTables, calls>>

(* ReturnReservation locks the entry, then changes or deletes it, and the  *)
(* trigger books the difference back to the shelf - also when a stocktake  *)
(* lists it.  Deleting the entry or the work item does the same with all   *)
(* of it.                                                                  *)
ReturnReservation(c) ==
  /\ call[c].at = "find"
  /\ resLock \in {c, Nobody}
  /\ IF resv.is # "reserved"
     THEN EndCall(c)
     ELSE /\ resLock' = c
          /\ \E n \in resv.place :
               Goes(c, [call[c] EXCEPT !.at = "read", !.todo = <<n>>,
                          !.qty = IF @ = 0 \/ @ >= resv.qty THEN resv.qty ELSE @])
          /\ UNCHANGED <<rowLock, partLock>>
  /\ UNCHANGED <<stockTables, calls>>

(* A reservation becomes consumption: its movements are relabelled and the *)
(* entry goes without the trigger.  ConsumeReservations (at the end of a   *)
(* work item) relabels first, ConsumeReservation flags the entry first.    *)
Relabel(c) ==
  /\ call[c].at = "relabel"
  /\ Goes(c, [call[c] EXCEPT !.at = IF call[c].op = "consume" THEN "consumed" ELSE "flag",
                             !.kinds = IF resv.is = "reserved" THEN resv.kinds ELSE {}])
  /\ UNCHANGED <<stockTables, stockLocks, calls>>

Flag(c) ==
  /\ call[c].at = "flag"
  /\ resLock \in {c, Nobody}
  /\ IF resv.is # "reserved"
     THEN IF call[c].op = "consume" THEN EndCall(c)
          ELSE Goes(c, [call[c] EXCEPT !.at = "consumed"]) /\ UNCHANGED stockLocks
     ELSE /\ resLock' = c
          /\ Goes(c, [call[c] EXCEPT !.at = IF call[c].op = "consume" THEN "relabel" ELSE "consumed"])
          /\ UNCHANGED <<rowLock, partLock>>
  /\ UNCHANGED <<stockTables, calls>>

Consumption(kinds) == {IF k = "reserve" THEN "out" ELSE IF k = "unreserve" THEN "in" ELSE k : k \in kinds}

Consumed(c) ==
  /\ call[c].at = "consumed"
  /\ resv' = [resv EXCEPT
                !.kinds = (@ \ call[c].kinds) \cup Consumption(call[c].kinds),
                !.is = IF resLock = c THEN "gone" ELSE @,
                !.used = IF resLock = c THEN @ + resv.qty ELSE @,
                !.qty = IF resLock = c THEN 0 ELSE @]
  /\ EndCall(c)
  /\ UNCHANGED <<stock, hasRow, total, moved, count, calls>>

-----------------------------------------------------------------------------
(* Stocktaking.                                                            *)

(* CreateStocktakeSession: no shelf of the range may be listed already     *)
(* (one stocktake in a behaviour); the expected quantities are read in the *)
(* transaction, which then commits.                                        *)
ListShelves(c) ==
  /\ call[c].at = "list"
  /\ Goes(c, [call[c] EXCEPT !.at = "open", !.want = [n \in DOMAIN @ |-> stock[n]]])
  /\ UNCHANGED <<stockTables, stockLocks, calls>>

OpenCount(c) ==
  /\ call[c].at = "open"
  /\ count' = IF count.is = "none"
              THEN [is |-> "open", expected |-> call[c].want,
                    counted |-> [n \in DOMAIN call[c].want |-> Uncounted]]
              ELSE count
  /\ EndCall(c)
  /\ UNCHANGED <<stock, hasRow, total, moved, resv, calls>>

(* SubmitCounts: a quantity for a position (each is counted once here).    *)
SubmitCounts ==
  /\ count.is # "none"
  /\ \E n \in DOMAIN count.counted, q \in 0..Opening :
       /\ count.counted[n] = Uncounted
       /\ count' = [count EXCEPT !.counted[n] = q]
  /\ UNCHANGED <<stock, hasRow, total, moved, resv, stockLocks, call, calls>>

(* BookStocktakeSession: the stocktake must be open and counted; every     *)
(* position that differs is booked to the count, and the session closes.   *)
Differs == {n \in DOMAIN count.counted : count.counted[n] # count.expected[n]}

BookStocktake(c) ==
  /\ call[c].at = "items"
  /\ IF count.is # "open" \/ \E n \in DOMAIN count.counted : count.counted[n] = Uncounted
     THEN EndCall(c)
     ELSE /\ \E order \in [1..Cardinality(Differs) -> Differs] :
               /\ \A i, j \in DOMAIN order : order[i] = order[j] => i = j
               /\ Goes(c, [call[c] EXCEPT !.at = IF Differs = {} THEN "close" ELSE "read",
                                          !.todo = order, !.want = count.counted])
          /\ UNCHANGED stockLocks
  /\ UNCHANGED <<stockTables, calls>>

CloseCount(c) ==
  /\ call[c].at = "close"
  /\ count' = [count EXCEPT !.is = "booked"]
  /\ EndCall(c)
  /\ UNCHANGED <<stock, hasRow, total, moved, resv, calls>>

(* CancelStocktakeSession                                                  *)
CancelStocktake ==
  /\ count.is = "open"
  /\ count' = [count EXCEPT !.is = "cancelled"]
  /\ UNCHANGED <<stock, hasRow, total, moved, resv, stockLocks, call, calls>>

-----------------------------------------------------------------------------
StockNext ==
  \/ \E c \in Clerk :
       \/ Order(c) \/ BreakOff(c)
       \/ CheckLocked(c) \/ ReadRow(c) \/ WriteRow(c) \/ SumUp(c) \/ WriteTotal(c) \/ CommitCall(c)
       \/ ReturnReservation(c) \/ Relabel(c) \/ Flag(c) \/ Consumed(c)
       \/ ListShelves(c) \/ OpenCount(c) \/ BookStocktake(c) \/ CloseCount(c)
  \/ SubmitCounts \/ CancelStocktake

StockSpec == StockInit /\ [][StockNext]_stockVars

-----------------------------------------------------------------------------
(* The kinds of the stock's state.                                         *)
StockTypeOK ==
  /\ stock \in [Shelf -> Int] /\ moved \in [Shelf -> Int] /\ total \in Int
  /\ hasRow \subseteq Shelf
  /\ resv.is \in {"none", "reserved", "gone"} /\ resv.qty \in Nat /\ resv.place \subseteq Shelf
  /\ resv.kinds \subseteq {"reserve", "unreserve", "out", "in"}
  /\ count.is \in {"none", "open", "booked", "cancelled"}
  /\ rowLock \in [Shelf -> Clerk \cup {Nobody}]
  /\ partLock \in Clerk \cup {Nobody} /\ resLock \in Clerk \cup {Nobody}
  /\ \A c \in Clerk : call[c].at \in {"idle", "check", "read", "write", "sum", "total", "commit",
       "find", "relabel", "flag", "consumed", "list", "open", "items", "close"}

(* Whatever bookings, reservations, returns and stocktakes run at once and *)
(* wherever they break off, the stock of a shelf that has its row is what  *)
(* it was plus all its movements (the row lock at the head of bookTx).     *)
LedgerAdds == \A n \in Stocked : stock[n] = Opening + moved[n]

(* No more of a reservation comes back to the shelf or is consumed than    *)
(* was taken, and all of it when it is gone, whoever returns, deletes and  *)
(* closes the work item at once (reservations.go, the trigger).            *)
PiecesAccounted ==
  /\ resv.back + resv.used <= resv.taken
  /\ resv.is = "gone" => resv.back + resv.used = resv.taken

(* A reservation or a guarded booking never takes a shelf below zero, not  *)
(* even together with the bookings beside it.                              *)
NeverOverdrawn ==
  [][\A c \in Clerk : CommitCall(c) /\ call[c].op \in {"reserve", "guarded"}
                        => \A n \in DOMAIN call[c].put \cap Stocked : stock'[n] >= 0]_stockVars

(* With nothing in flight the cached total is the sum of the shelves.      *)
TotalAgrees == (\A c \in Clerk : call[c].at = "idle") => total = SumOf(stock)

(* With nothing in flight the movements of a reservation are all           *)
(* reservation or all consumption.                                         *)
WhollyConsumed ==
  (\A c \in Clerk : call[c].at = "idle")
    => \/ resv.kinds \subseteq {"reserve", "unreserve"}
       \/ resv.kinds \subseteq {"out", "in"}
=============================================================================
