---------------------------- MODULE MCInventoryTx ----------------------------
(***************************************************************************)
(* Small instances of InventoryTx for TLC, the sums that tie its aggregate *)
(* columns to their rows, and its refinement of StockBook.                 *)
(***************************************************************************)
EXTENDS InventoryTxInv, FiniteSetsExt, TLC

CONSTANTS L1, LotDims

\* The dimensions that carry the lot; the others carry none.
MCLotOf == [d \in Dim |-> IF d \in LotDims THEN L1 ELSE NoLot]

\* One withdrawal and one receipt that together cross zero and the limit.
MCDelta == {-1, 2}

\* Sessions, keys, reservations and transfers are interchangeable.
Interchange ==
  Permutations(Session) \cup Permutations(MoveKey) \cup Permutations(EventKey)
    \cup Permutations(Resv) \cup Permutations(Xfer)

-----------------------------------------------------------------------------
\* What is added up: the quantities of the movement rows, what is outstanding of the
\* reservations, and the quantities of the transfers.
Deltas == [m \in movements |-> m.delta]
Outstanding == [r \in Resv |-> Left(resv[r])]
Quantities == [x \in Xfer |-> xfer[x].qty]

RowsOf(d, b) == {m \in movements : m.dim = d /\ m.bucket = b}
ActiveOf(d) == {r \in Resv : resv[r].status = "active" /\ resv[r].dim = d}

\* The two aggregate columns are the sums a rebuild reads: of the movement rows of a
\* dimension and bucket, and of what is outstanding of its active reservations.
AggregatesAreSums ==
  \A d \in Dim :
    /\ \A b \in Bucket : ledger[d][b] = SumFunctionOnSet(Deltas, RowsOf(d, b))
    /\ claims[d] = SumFunctionOnSet(Outstanding, ActiveOf(d))

IsLeg(m) == m.id[2] # "command"
Legs == {m \in movements : IsLeg(m)}
OnTheRoad(d) == {x \in Xfer : xfer[x].status = "in_transit" /\ xfer[x].dst = d}

\* Goods on the road are neither lost nor doubled: what the transfer legs have put
\* into a dimension's in-transit bucket is exactly its dispatched and not yet
\* received transfers, and over all dimensions the legs cancel out otherwise.
TransfersConserveStock ==
  /\ \A d \in Dim :
       SumFunctionOnSet(Deltas, Legs \cap RowsOf(d, "in_transit"))
         = SumFunctionOnSet(Quantities, OnTheRoad(d))
  /\ SumFunctionOnSet(Deltas, Legs) = 0

-----------------------------------------------------------------------------
Book == INSTANCE StockBook WITH
  MoveId <- (MoveKey \cup EventKey) \X Leg,
  book <- balance,
  posted <- {m.id : m \in movements},
  reservation <- [r \in Resv |-> [status |-> resv[r].status, dim |-> resv[r].dim, left |-> Left(resv[r])]],
  transfer <- [x \in Xfer |-> [status |-> xfer[x].status, src |-> xfer[x].src,
                                dst |-> xfer[x].dst, qty |-> xfer[x].qty]]

\* Sessions, locks and rebuilds are invisible: the committed rows behave as one stock
\* book whose commands happen one at a time.
ImplementsBook == Book!Spec

=============================================================================
