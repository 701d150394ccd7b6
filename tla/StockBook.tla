------------------------------ MODULE StockBook ------------------------------
(***************************************************************************)
(* What the inventory service promises its callers: one book of stock per  *)
(* dimension (stock item x location x lot), and commands that happen one   *)
(* at a time.  There are no locks, no sessions and no separate projection  *)
(* here; InventoryTx.tla, the model of the service's transactions, is      *)
(* shown to implement this module.                                         *)
(***************************************************************************)
EXTENDS Integers

CONSTANTS
  Dim,        \* dimension keys
  MoveId,     \* idempotency keys of inventory movements
  Resv,       \* reservation identities
  Xfer,       \* transfer identities
  MaxStock    \* largest quantity one dimension supports

Bucket == {"physical", "in_transit", "provider", "virtual"}
Column == Bucket \cup {"reserved"}
Outcome == {"released", "fulfilled", "cancelled"}

VARIABLES
  book,         \* quantities per dimension and column
  posted,       \* movement ids that have taken effect
  reservation,  \* per reservation: status, dimension and outstanding quantity
  transfer      \* per transfer: status, both dimensions and quantity

vars == <<book, posted, reservation, transfer>>

Empty == [c \in Column |-> 0]

\* Stock can be promised only while it is physically there.
Sound(b) ==
  /\ \A c \in Column : b[c] \in 0..MaxStock
  /\ b["reserved"] <= b["physical"]

Init ==
  /\ book = [d \in Dim |-> Empty]
  /\ posted = {}
  /\ reservation \in [Resv -> {[status |-> "absent", dim |-> d, left |-> 0] : d \in Dim}]
  /\ transfer \in [Xfer -> {[status |-> "absent", src |-> d, dst |-> d, qty |-> 0] : d \in Dim}]

-----------------------------------------------------------------------------

Add(d, c, n) == [book EXCEPT ![d][c] = @ + n]

\* A receipt, adjustment, return or unreserved consumption of n (n may be negative).
Post(d, c, n) ==
  /\ book' = Add(d, c, n)
  /\ Sound(book'[d])
  /\ UNCHANGED <<reservation, transfer>>

Reserve(r, d, n) ==
  /\ n > 0
  /\ reservation[r].status = "absent"
  /\ book[d]["physical"] - book[d]["reserved"] >= n
  /\ book' = Add(d, "reserved", n)
  /\ reservation' = [reservation EXCEPT ![r] = [status |-> "active", dim |-> d, left |-> n]]
  /\ UNCHANGED <<posted, transfer>>

\* Giving a reservation back returns exactly what is still outstanding of it.
Release(r, outcome) ==
  LET d == reservation[r].dim IN
  /\ reservation[r].status = "active"
  /\ book' = Add(d, "reserved", -reservation[r].left)
  /\ reservation' = [reservation EXCEPT ![r].status = outcome, ![r].left = 0]
  /\ UNCHANGED <<posted, transfer>>

\* Consumption takes the stock and the promise together.
Consume(r, n) ==
  LET d == reservation[r].dim IN
  /\ reservation[r].status = "active"
  /\ n \in 1..reservation[r].left
  /\ book' = [book EXCEPT ![d]["physical"] = @ - n, ![d]["reserved"] = @ - n]
  /\ Sound(book'[d])
  /\ reservation' = [reservation EXCEPT ![r].left = @ - n,
                       ![r].status = IF n = reservation[r].left THEN "fulfilled" ELSE "active"]
  /\ UNCHANGED transfer

\* One movement, under an id that has never been used.
Move(id) ==
  /\ posted' = posted \cup {id}
  /\ \/ \E d \in Dim, c \in Bucket, n \in -MaxStock..MaxStock : Post(d, c, n)
     \/ \E r \in Resv, n \in 1..MaxStock : Consume(r, n)

Plan(x, s, d, n) ==
  /\ s # d
  /\ n > 0
  /\ transfer[x].status = "absent"
  /\ transfer' = [transfer EXCEPT ![x] = [status |-> "draft", src |-> s, dst |-> d, qty |-> n]]
  /\ UNCHANGED <<book, posted, reservation>>

Cancel(x) ==
  /\ transfer[x].status = "draft"
  /\ transfer' = [transfer EXCEPT ![x].status = "cancelled"]
  /\ UNCHANGED <<book, posted, reservation>>

\* The two legs of a transfer step are posted together or not at all.
PostLegs ==
  \E debit, credit \in MoveId \ posted :
    debit # credit /\ posted' = posted \cup {debit, credit}

\* Goods leave the source and are in transit to the destination in one step.
Dispatch(x) ==
  LET t == transfer[x] IN
  /\ t.status = "draft"
  /\ transfer' = [transfer EXCEPT ![x].status = "in_transit"]
  /\ book' = [book EXCEPT ![t.src]["physical"] = @ - t.qty,
                          ![t.dst]["in_transit"] = @ + t.qty]
  /\ Sound(book'[t.src]) /\ Sound(book'[t.dst])
  /\ PostLegs
  /\ UNCHANGED reservation

Arrive(x) ==
  LET t == transfer[x] IN
  /\ t.status = "in_transit"
  /\ transfer' = [transfer EXCEPT ![x].status = "received"]
  /\ book' = [book EXCEPT ![t.dst]["in_transit"] = @ - t.qty, ![t.dst]["physical"] = @ + t.qty]
  /\ Sound(book'[t.dst])
  /\ PostLegs
  /\ UNCHANGED reservation

Next ==
  \/ \E id \in MoveId \ posted : Move(id)
  \/ \E r \in Resv, d \in Dim, n \in 1..MaxStock : Reserve(r, d, n)
  \/ \E r \in Resv, outcome \in Outcome : Release(r, outcome)
  \/ \E x \in Xfer, s, d \in Dim, n \in 1..MaxStock : Plan(x, s, d, n)
  \/ \E x \in Xfer : Cancel(x) \/ Dispatch(x) \/ Arrive(x)

Spec == Init /\ [][Next]_vars
=============================================================================
