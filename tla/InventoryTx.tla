----------------------------- MODULE InventoryTx -----------------------------
(***************************************************************************)
(* The inventory service (apps/api/src/inventory/inventory.service.ts) at  *)
(* the grain of its PostgreSQL transactions.  A session runs one command   *)
(* in one READ COMMITTED transaction: it waits for advisory locks, reads,  *)
(* and its writes become visible together when it commits, which is also   *)
(* when the locks drop.  Between any two of those steps the other sessions *)
(* run, and a session may be rolled back at any point.                     *)
(*                                                                         *)
(* One tenant: every lock key and every row carries the tenant.            *)
(***************************************************************************)
EXTENDS Integers, FiniteSets

CONSTANTS
  Session,        \* concurrent transactions
  Dim,            \* dimension keys, ordered as the sorted key strings are
  Lot, NoLot,     \* lots, and the dimension that has none
  LotOf,          \* the lot of each dimension
  MoveKey,        \* idempotency keys of movement, receipt, consumption and return commands
  EventKey,       \* idempotency keys of release, dispatch, receive and cancel commands
  RebuildKey,     \* idempotency keys of rebuild commands
  Resv, NoResv,   \* reservations, named by the idempotency key that creates them
  Xfer,           \* transfers, named likewise
  Qty,            \* quantities a command may name
  Delta,          \* signed quantities a recorded movement may name
  MaxStock,       \* maximumCommandAtoms of quantity.ts
  Ops,            \* operations the clients use
  Closable        \* dimensions whose location may be switched inactive

Bucket == {"physical", "in_transit", "provider", "virtual"}
Column == Bucket \cup {"reserved"}
Outcome == {"released", "fulfilled", "cancelled"}
Balance == [Column -> Int]
Empty == [c \in Column |-> 0]

ASSUME InventoryAssumption ==
  /\ Dim \subseteq Nat /\ Dim # {}
  /\ Closable \subseteq Dim
  /\ Qty \subseteq Nat \ {0} /\ \A n \in Qty : n <= MaxStock
  /\ Delta \subseteq Int \ {0}
  /\ MaxStock \in Nat
  /\ LotOf \in [Dim -> Lot \cup {NoLot}]
  /\ NoLot \notin Lot
  /\ NoResv \notin Resv

(***************************************************************************)
(* Commands, as the zod input schemas admit them.                          *)
(***************************************************************************)
MoveCmd    == [op: {"move"}, key: MoveKey, dim: Dim, bucket: Bucket, delta: Delta]
ReceiptCmd == [op: {"receipt"}, key: MoveKey, dim: {d \in Dim : LotOf[d] # NoLot}, qty: Qty]
StockCmd   == [op: {"consume"}, key: MoveKey, dim: Dim, qty: Qty, res: Resv \cup {NoResv}]
                \cup [op: {"return"}, key: MoveKey, dim: Dim, qty: Qty]
ReserveCmd == [op: {"reserve"}, res: Resv, dim: Dim, qty: Qty]
ReleaseCmd == [op: {"release"}, res: Resv, version: Nat, outcome: Outcome, key: EventKey]
PlanCmd    == {c \in [op: {"create_transfer"}, xfer: Xfer, src: Dim, dst: Dim, qty: Qty] : c.src # c.dst}
ShiftCmd   == [op: {"dispatch", "receive", "cancel"}, xfer: Xfer, version: Nat, key: EventKey]
LotCmd     == [op: {"create_lot"}, lot: Lot]
RebuildCmd == [op: {"rebuild"}, key: RebuildKey]
NoCmd      == [op |-> "none"]
Command    == MoveCmd \cup ReceiptCmd \cup StockCmd \cup ReserveCmd \cup ReleaseCmd
                \cup PlanCmd \cup ShiftCmd \cup LotCmd \cup RebuildCmd

VARIABLES
  \* committed rows
  movements,    \* inventory_movements: id, dimension, bucket and signed quantity
  ledger,       \* sum of the movement rows per dimension and bucket
  resv,         \* inventory_reservations with the events of each
  claims,       \* sum of the outstanding quantities of the active reservations per dimension
  xfer,         \* inventory_transfers with the events of each
  lots,         \* inventory_lots
  rebuilds,     \* keys of inventory_projection_rebuilds
  closed,       \* dimensions whose location or stock item is inactive
  balance,      \* inventory_balances; a missing row reads as Empty
  \* transactions
  pc, cmd,      \* where a session is, and the command it runs
  held,         \* advisory locks a session holds
  row,          \* the reservation or transfer row it has read
  seen          \* the balance rows it has read

db == <<movements, ledger, resv, claims, xfer, lots, rebuilds, closed, balance>>
session == <<pc, cmd, held, row, seen>>
vars == <<movements, ledger, resv, claims, xfer, lots, rebuilds, closed, balance,
          pc, cmd, held, row, seen>>

NoRow == [status |-> "unread"]
AnyDim == CHOOSE d \in Dim : TRUE

Init ==
  /\ movements = {}
  /\ ledger = [d \in Dim |-> Empty]
  /\ resv = [r \in Resv |-> [status |-> "absent", dim |-> AnyDim, qty |-> 0, used |-> 0,
                             version |-> 0, keys |-> {}]]
  /\ claims = [d \in Dim |-> 0]
  /\ xfer = [x \in Xfer |-> [status |-> "absent", src |-> AnyDim, dst |-> AnyDim, qty |-> 0,
                             version |-> 0, keys |-> {}]]
  /\ lots = {}
  /\ rebuilds = {}
  /\ closed = {}
  /\ balance = [d \in Dim |-> Empty]
  /\ pc = [p \in Session |-> "idle"]
  /\ cmd = [p \in Session |-> NoCmd]
  /\ held = [p \in Session |-> {}]
  /\ row = [p \in Session |-> NoRow]
  /\ seen = [p \in Session |-> [d \in Dim |-> Empty]]

(***************************************************************************)
(* Advisory locks.  Every writer of a balance shares the rebuild lock;     *)
(* a rebuild takes it exclusively.                                         *)
(***************************************************************************)
Shared == <<"inventory-projection-rebuild", "shared">>
Exclusive == <<"inventory-projection-rebuild", "exclusive">>
DimLock(d) == <<"inventory-dimension", d>>
ResvLock(r) == <<"inventory-reservation", r>>

\* Mutant of CanTake: the rebuild locks the tenant, but the writers do not share that lock.
CanTakeUnshared(p, l) == \A q \in Session \ {p} : l \notin held[q]

CanTake(p, l) ==
  \A q \in Session \ {p} :
    CASE l = Shared    -> Exclusive \notin held[q]
      [] l = Exclusive -> {Shared, Exclusive} \cap held[q] = {}
      [] OTHER         -> l \notin held[q]

\* Mutant of OwnLock: a command does not lock its own idempotency key.
OwnLockUnkeyed(c) ==
  CASE c.op = "release" -> ResvLock(c.res)
    [] c.op = "rebuild" -> Exclusive
    [] OTHER            -> Shared

\* The lock a handler takes before it looks at the row the command is about.
OwnLock(c) ==
  CASE c.op \in {"move", "consume", "return"}        -> <<"inventory-idempotency", c.key>>
    [] c.op = "reserve"                              -> <<"inventory-reservation-idempotency", c.res>>
    [] c.op = "release"                              -> ResvLock(c.res)
    [] c.op = "create_transfer"                      -> <<"inventory-transfer-idempotency", c.xfer>>
    [] c.op \in {"dispatch", "receive", "cancel"}    -> <<"inventory-transfer", c.xfer>>
    [] c.op = "receipt"                              -> <<"inventory-lot-code", LotOf[c.dim]>>
    [] c.op = "create_lot"                           -> <<"inventory-lot-code", c.lot>>
    [] c.op = "rebuild"                              -> Exclusive

-----------------------------------------------------------------------------
(***************************************************************************)
(* What the rows say about a command.                                      *)
(***************************************************************************)
OwnId(key) == <<key, "command">>
LegId(key, leg) == <<key, leg>>        \* childKey
Posted(id) == \E m \in movements : m.id = id
Movement(id, d, b, n) == [id |-> id, dim |-> d, bucket |-> b, delta |-> n]

Left(r) == IF r.status = "active" THEN r.qty - r.used ELSE 0   \* reservationRemainingQuantities

SameReservation(r, c) == r.dim = c.dim /\ r.qty = c.qty
SameTransfer(t, c) == t.src = c.src /\ t.dst = c.dst /\ t.qty = c.qty

\* requireDimension: an active location and item, and a lot that exists.
Usable(d) == d \notin closed /\ (LotOf[d] # NoLot => LotOf[d] \in lots)

\* The command finds its own evidence and answers without another effect.
Replayed(c) ==
  CASE c.op = "move"    -> Movement(OwnId(c.key), c.dim, c.bucket, c.delta) \in movements
    [] c.op = "reserve" -> resv[c.res].status # "absent" /\ SameReservation(resv[c.res], c)
    [] c.op = "release" -> c.key \in resv[c.res].keys
    [] c.op = "create_transfer" -> xfer[c.xfer].status # "absent" /\ SameTransfer(xfer[c.xfer], c)
    [] c.op \in {"dispatch", "receive", "cancel"} -> c.key \in xfer[c.xfer].keys
    [] c.op = "rebuild" -> c.key \in rebuilds
    [] OTHER -> FALSE

\* Mutant of FromStatus: receiving does not wait for the dispatch.
AlwaysFromDraft(op) == "draft"

FromStatus(op) == IF op = "receive" THEN "in_transit" ELSE "draft"

\* Mutant of Releasable: the version check stands for the status check.
ReleasableByVersion(r, c) == r.version = c.version

Releasable(r, c) == r.status = "active" /\ r.version = c.version

\* The checks made under the own lock, once it is not a replay.
Admissible(c) ==
  CASE c.op \in {"move", "consume", "return"} -> ~Posted(OwnId(c.key))
    [] c.op = "reserve" -> resv[c.res].status = "absent"
    [] c.op = "release" -> Releasable(resv[c.res], c)
    [] c.op = "create_transfer" -> xfer[c.xfer].status = "absent" /\ Usable(c.src) /\ Usable(c.dst)
    [] c.op \in {"dispatch", "receive", "cancel"} ->
         xfer[c.xfer].version = c.version /\ xfer[c.xfer].status = FromStatus(c.op)
    [] c.op = "receipt" -> c.dim \notin closed /\ LotOf[c.dim] \notin lots
    [] c.op = "create_lot" -> c.lot \notin lots
    [] c.op = "rebuild" -> TRUE

\* A consumption may draw only on an active reservation of its own dimension.
Drawable(r, c) == r.status = "active" /\ r.dim = c.dim /\ Left(r) >= c.qty

Reserved(c) == c.op = "consume" /\ c.res # NoResv

-----------------------------------------------------------------------------
(***************************************************************************)
(* What a command does to the stock, given the row it has read.            *)
(***************************************************************************)
\* The dimensions it locks, and those whose balance it writes.
DimsOf(p) ==
  LET c == cmd[p] IN
  CASE c.op \in {"move", "receipt", "reserve", "consume", "return"} -> {c.dim}
    [] c.op = "release" -> {row[p].dim}
    [] c.op \in {"dispatch", "receive"} -> {row[p].src, row[p].dst}
    [] OTHER -> {}

Touched(p) == IF cmd[p].op = "receive" THEN {row[p].dst} ELSE DimsOf(p)

\* The movement rows it inserts.
Posts(p) ==
  LET c == cmd[p]
      t == row[p]
  IN CASE c.op = "move" -> {Movement(OwnId(c.key), c.dim, c.bucket, c.delta)}
       [] c.op \in {"receipt", "return"} -> {Movement(OwnId(c.key), c.dim, "physical", c.qty)}
       [] c.op = "consume" -> {Movement(OwnId(c.key), c.dim, "physical", -c.qty)}
       [] c.op = "dispatch" ->
            {Movement(LegId(c.key, "source-debit"), t.src, "physical", -t.qty),
             Movement(LegId(c.key, "transit-credit"), t.dst, "in_transit", t.qty)}
       [] c.op = "receive" ->
            {Movement(LegId(c.key, "transit-debit"), t.dst, "in_transit", -t.qty),
             Movement(LegId(c.key, "destination-credit"), t.dst, "physical", t.qty)}
       [] OTHER -> {}

\* Mutants of HeldChange: a release gives back the whole quantity, whatever was
\* consumed of it; a consumption leaves its promise standing.
HeldChangeWhole(p) ==
  LET c == cmd[p] IN
  CASE c.op = "reserve" -> c.qty
    [] c.op = "release" -> -row[p].qty
    [] Reserved(c)      -> -c.qty
    [] OTHER            -> 0

HeldChangeKept(p) ==
  LET c == cmd[p] IN
  CASE c.op = "reserve" -> c.qty
    [] c.op = "release" -> -Left(row[p])
    [] OTHER            -> 0

\* The change it makes to the reserved quantity of its dimension.
HeldChange(p) ==
  LET c == cmd[p] IN
  CASE c.op = "reserve" -> c.qty
    [] c.op = "release" -> -Left(row[p])
    [] Reserved(c)      -> -c.qty
    [] OTHER            -> 0

Change(p, d, col) ==
  IF d \notin Touched(p) THEN 0
  ELSE IF col = "reserved" THEN HeldChange(p)
  ELSE IF \E m \in Posts(p) : m.dim = d /\ m.bucket = col
       THEN (CHOOSE m \in Posts(p) : m.dim = d /\ m.bucket = col).delta
       ELSE 0

\* A balance row after the command's change.
After(p, d, b) == [col \in Column |-> b[col] + Change(p, d, col)]

\* The supported range, no negative bucket, and stock behind every promise.
ValidBalance(b) ==
  /\ \A col \in Column : b[col] \in 0..MaxStock
  /\ b["reserved"] <= b["physical"]

\* Mutant of Available: stock already promised is promised again.
AvailablePhysical(b) == b["physical"]

Available(b) == b["physical"] - b["reserved"]

\* The check on the balance rows under the dimension locks.
Accepts(p) ==
  LET c == cmd[p] IN
  CASE c.op = "reserve" -> /\ Usable(c.dim)
                           /\ Available(balance[c.dim]) >= c.qty
    [] c.op = "release" -> balance[row[p].dim]["reserved"] >= Left(resv[c.res])
    [] c.op = "receipt" -> c.dim \notin closed /\ ValidBalance(After(p, c.dim, balance[c.dim]))
    [] OTHER -> \A d \in Touched(p) : Usable(d) /\ ValidBalance(After(p, d, balance[d]))

-----------------------------------------------------------------------------
(***************************************************************************)
(* The steps of a transaction.                                             *)
(***************************************************************************)
\* The transaction is over, committed or rolled back: its locks drop.
Finish(p) ==
  /\ pc' = [pc EXCEPT ![p] = "idle"]
  /\ cmd' = [cmd EXCEPT ![p] = NoCmd]
  /\ held' = [held EXCEPT ![p] = {}]
  /\ row' = [row EXCEPT ![p] = NoRow]
  /\ seen' = [seen EXCEPT ![p] = [d \in Dim |-> Empty]]

\* A client knows versions it has been shown: the current one or an older one.
Known(c) ==
  CASE c.op = "release" -> c.version \in 1..resv[c.res].version
    [] c.op \in {"dispatch", "receive", "cancel"} -> c.version \in 1..xfer[c.xfer].version
    [] OTHER -> TRUE

\* The commands a client can send now, enumerated for TLC.
Offered ==
  MoveCmd \cup ReceiptCmd \cup StockCmd \cup ReserveCmd \cup PlanCmd \cup LotCmd \cup RebuildCmd
    \cup (UNION {[op: {"release"}, res: {r}, version: 1..resv[r].version, outcome: Outcome,
                  key: EventKey] : r \in Resv})
    \cup (UNION {[op: {"dispatch", "receive", "cancel"}, xfer: {x}, version: 1..xfer[x].version,
                  key: EventKey] : x \in Xfer})

Begin(p) ==
  /\ pc[p] = "idle"
  /\ \E c \in Offered :
       /\ c.op \in Ops
       /\ Known(c)
       /\ cmd' = [cmd EXCEPT ![p] = c]
  /\ pc' = [pc EXCEPT ![p] = "own"]
  /\ UNCHANGED <<db, held, row, seen>>

Own(p) == pc[p] = "own" /\ CanTake(p, OwnLock(cmd[p]))

Replay(p) == Own(p) /\ Replayed(cmd[p]) /\ Finish(p) /\ UNCHANGED db

RefuseRow(p) ==
  /\ Own(p)
  /\ ~Replayed(cmd[p]) /\ ~Admissible(cmd[p])
  /\ Finish(p)
  /\ UNCHANGED db

\* Where the handler goes from the own lock.
AfterOwn(c) ==
  CASE c.op = "rebuild" -> "movements"
    [] Reserved(c) -> "reservation"
    [] c.op \in {"create_transfer", "cancel", "create_lot"} -> "write"
    [] OTHER -> "share"

RowOf(c) ==
  CASE c.op = "release" -> resv[c.res]
    [] c.op \in {"dispatch", "receive", "cancel"} -> xfer[c.xfer]
    [] OTHER -> NoRow

Admit(p) ==
  /\ Own(p)
  /\ ~Replayed(cmd[p]) /\ Admissible(cmd[p])
  /\ held' = [held EXCEPT ![p] = @ \cup {OwnLock(cmd[p])}]
  /\ row' = [row EXCEPT ![p] = RowOf(cmd[p])]
  /\ pc' = [pc EXCEPT ![p] = AfterOwn(cmd[p])]
  /\ UNCHANGED <<db, cmd, seen>>

\* productionMaterialStockInTransaction: the reservation a consumption draws on.
DrawReservation(p) ==
  LET r == cmd[p].res IN
  /\ pc[p] = "reservation"
  /\ CanTake(p, ResvLock(r))
  /\ Drawable(resv[r], cmd[p])
  /\ held' = [held EXCEPT ![p] = @ \cup {ResvLock(r)}]
  /\ row' = [row EXCEPT ![p] = resv[r]]
  /\ pc' = [pc EXCEPT ![p] = "share"]
  /\ UNCHANGED <<db, cmd, seen>>

RefuseReservation(p) ==
  /\ pc[p] = "reservation"
  /\ CanTake(p, ResvLock(cmd[p].res))
  /\ ~Drawable(resv[cmd[p].res], cmd[p])
  /\ Finish(p)
  /\ UNCHANGED db

Share(p) ==
  /\ pc[p] = "share"
  /\ CanTake(p, Shared)
  /\ held' = [held EXCEPT ![p] = @ \cup {Shared}]
  /\ pc' = [pc EXCEPT ![p] = "dimension"]
  /\ UNCHANGED <<db, cmd, row, seen>>

\* Mutant of Awaited: a dispatch locks only the dimension it takes from.
AwaitedSource(p) ==
  {d \in DimsOf(p) : DimLock(d) \notin held[p] /\ (cmd[p].op = "dispatch" => d = row[p].src)}

Awaited(p) == {d \in DimsOf(p) : DimLock(d) \notin held[p]}

\* Mutant of GoesFirst: the source before the destination, whatever their keys.
SourceFirst(p, d) ==
  cmd[p].op \in {"dispatch", "receive"} /\ row[p].src \in Awaited(p) => d = row[p].src

\* Dimension locks are taken in the order of the sorted keys.
GoesFirst(p, d) == \A e \in Awaited(p) : d <= e

LockDimension(p) ==
  /\ pc[p] = "dimension"
  /\ \E d \in Awaited(p) :
       /\ GoesFirst(p, d)
       /\ CanTake(p, DimLock(d))
       /\ held' = [held EXCEPT ![p] = @ \cup {DimLock(d)}]
       /\ pc' = [pc EXCEPT ![p] = IF Awaited(p) = {d} THEN "balance" ELSE "dimension"]
  /\ UNCHANGED <<db, cmd, row, seen>>

ReadBalance(p) ==
  /\ pc[p] = "balance"
  /\ Accepts(p)
  /\ seen' = [seen EXCEPT ![p] = [d \in Dim |-> IF d \in Touched(p) THEN balance[d] ELSE Empty]]
  /\ row' = [row EXCEPT ![p] = IF cmd[p].op = "release" THEN [@ EXCEPT !.used = resv[cmd[p].res].used] ELSE @]
  /\ pc' = [pc EXCEPT ![p] = "write"]
  /\ UNCHANGED <<db, cmd, held>>

RefuseBalance(p) == pc[p] = "balance" /\ ~Accepts(p) /\ Finish(p) /\ UNCHANGED db

\* rebuildProjection reads the movements, then the active reservations with what
\* is left of each, and gives up when they do not make a valid projection.
ReadMovements(p) ==
  /\ pc[p] = "movements"
  /\ seen' = [seen EXCEPT ![p] = ledger]
  /\ pc' = [pc EXCEPT ![p] = "claims"]
  /\ UNCHANGED <<db, cmd, held, row>>

Projection(p) == [d \in Dim |-> [seen[p][d] EXCEPT !["reserved"] = claims[d]]]

ReadClaims(p) ==
  /\ pc[p] = "claims"
  /\ IF \A d \in Dim : ValidBalance(Projection(p)[d])
     THEN /\ seen' = [seen EXCEPT ![p] = Projection(p)]
          /\ pc' = [pc EXCEPT ![p] = "replace"]
          /\ UNCHANGED <<cmd, held, row>>
     ELSE Finish(p)
  /\ UNCHANGED db

-----------------------------------------------------------------------------
(***************************************************************************)
(* Commits.                                                                *)
(***************************************************************************)
\* Mutant of Collides: no unique index.
NeverCollides(p) == FALSE

\* The unique index on movement ids.
Collides(p) == \E m \in Posts(p) : Posted(m.id)

ReservationAfter(p) ==
  LET c == cmd[p] IN
  CASE c.op = "reserve" ->
         [resv EXCEPT ![c.res] = [status |-> "active", dim |-> c.dim, qty |-> c.qty, used |-> 0,
                                  version |-> 1, keys |-> {}]]
    [] c.op = "release" ->
         [resv EXCEPT ![c.res].status = c.outcome, ![c.res].version = row[p].version + 1,
                      ![c.res].keys = @ \cup {c.key}]
    [] Reserved(c) ->
         [resv EXCEPT ![c.res].status = IF Left(row[p]) = c.qty THEN "fulfilled" ELSE "active",
                      ![c.res].used = @ + c.qty, ![c.res].version = row[p].version + 1,
                      ![c.res].keys = @ \cup {c.key}]
    [] OTHER -> resv

\* Mutant of ToStatus: the action's name is stored as the status.
ActionAsStatus == [dispatch |-> "dispatched", receive |-> "received", cancel |-> "cancelled"]

ToStatus == [dispatch |-> "in_transit", receive |-> "received", cancel |-> "cancelled"]

TransferAfter(p) ==
  LET c == cmd[p] IN
  CASE c.op = "create_transfer" ->
         [xfer EXCEPT ![c.xfer] = [status |-> "draft", src |-> c.src, dst |-> c.dst, qty |-> c.qty,
                                   version |-> 1, keys |-> {}]]
    [] c.op \in {"dispatch", "receive", "cancel"} ->
         [xfer EXCEPT ![c.xfer].status = ToStatus[c.op], ![c.xfer].version = row[p].version + 1,
                      ![c.xfer].keys = @ \cup {c.key}]
    [] OTHER -> xfer

LotsAfter(p) ==
  CASE cmd[p].op = "receipt" -> lots \cup {LotOf[cmd[p].dim]}
    [] cmd[p].op = "create_lot" -> lots \cup {cmd[p].lot}
    [] OTHER -> lots

Commit(p) ==
  /\ pc[p] = "write"
  /\ ~Collides(p)
  /\ movements' = movements \cup Posts(p)
  /\ ledger' = [d \in Dim |-> [col \in Column |->
                  ledger[d][col] + IF col = "reserved" THEN 0 ELSE Change(p, d, col)]]
  /\ resv' = ReservationAfter(p)
  /\ claims' = [d \in Dim |-> claims[d] + Change(p, d, "reserved")]
  /\ xfer' = TransferAfter(p)
  /\ lots' = LotsAfter(p)
  /\ balance' = [d \in Dim |-> IF d \in Touched(p) THEN After(p, d, seen[p][d]) ELSE balance[d]]
  /\ UNCHANGED <<rebuilds, closed>>
  /\ Finish(p)

Collide(p) == pc[p] = "write" /\ Collides(p) /\ Finish(p) /\ UNCHANGED db

\* The projection is deleted and inserted again from the evidence read.
CommitRebuild(p) ==
  /\ pc[p] = "replace"
  /\ balance' = seen[p]
  /\ rebuilds' = rebuilds \cup {cmd[p].key}
  /\ UNCHANGED <<movements, ledger, resv, claims, xfer, lots, closed>>
  /\ Finish(p)

\* An error, an expired reservation, a unique violation or a lost connection.
Abort(p) == pc[p] # "idle" /\ Finish(p) /\ UNCHANGED db

\* updateLocation and updateStockItem change the status without any of the locks.
SetStatus(d) ==
  /\ closed' = IF d \in closed THEN closed \ {d} ELSE closed \cup {d}
  /\ UNCHANGED <<movements, ledger, resv, claims, xfer, lots, rebuilds, balance, session>>

-----------------------------------------------------------------------------
\* Steps that wait for a lock, and steps that do not.
Acquire(p) ==
  \/ Replay(p) \/ RefuseRow(p) \/ Admit(p)
  \/ DrawReservation(p) \/ RefuseReservation(p)
  \/ Share(p) \/ LockDimension(p)

Run(p) ==
  \/ ReadBalance(p) \/ RefuseBalance(p)
  \/ ReadMovements(p) \/ ReadClaims(p)
  \/ Commit(p) \/ Collide(p) \/ CommitRebuild(p)

Next ==
  \/ \E p \in Session : Begin(p) \/ Acquire(p) \/ Run(p) \/ Abort(p)
  \/ \E d \in Closable : SetStatus(d)

\* The lock manager queues waiters, so a lock that keeps coming free is
\* granted; a statement that need not wait returns.
Fairness == \A p \in Session : SF_vars(Acquire(p)) /\ WF_vars(Run(p))

Spec == Init /\ [][Next]_vars
FairSpec == Spec /\ Fairness

-----------------------------------------------------------------------------
(***************************************************************************)
(* Properties.                                                             *)
(***************************************************************************)
Key == MoveKey \cup EventKey
Leg == {"command", "source-debit", "transit-credit", "transit-debit", "destination-credit"}
MovementRow == [id: Key \X Leg, dim: Dim, bucket: Bucket, delta: Int]
ResvRow == [status: {"absent", "active"} \cup Outcome, dim: Dim, qty: Nat, used: Nat,
            version: Nat, keys: SUBSET Key]
XferRow == [status: {"absent", "draft", "in_transit", "received", "cancelled"},
            src: Dim, dst: Dim, qty: Nat, version: Nat, keys: SUBSET Key]
Lock == ({"inventory-projection-rebuild"} \X {"shared", "exclusive"})
          \cup ({"inventory-dimension"} \X Dim)
          \cup ({"inventory-reservation", "inventory-reservation-idempotency"} \X Resv)
          \cup ({"inventory-transfer", "inventory-transfer-idempotency"} \X Xfer)
          \cup ({"inventory-idempotency"} \X MoveKey)
          \cup ({"inventory-lot-code"} \X Lot)
Place == {"idle", "own", "reservation", "share", "dimension", "balance", "write",
          "movements", "claims", "replace"}

\* Every table and every transaction variable stays within its type.
TypeOK ==
  /\ movements \subseteq MovementRow
  /\ ledger \in [Dim -> Balance]
  /\ resv \in [Resv -> ResvRow]
  /\ claims \in [Dim -> Int]
  /\ xfer \in [Xfer -> XferRow]
  /\ lots \subseteq Lot
  /\ rebuilds \subseteq RebuildKey
  /\ closed \subseteq Dim
  /\ balance \in [Dim -> Balance]
  /\ pc \in [Session -> Place]
  /\ cmd \in [Session -> Command \cup {NoCmd}]
  /\ held \in [Session -> SUBSET Lock]
  /\ row \in [Session -> ResvRow \cup XferRow \cup {NoRow}]
  /\ seen \in [Session -> [Dim -> Balance]]

\* The projection never drifts from its evidence: a balance row is the sum of the
\* movement rows and of the outstanding active reservations of its dimension,
\* whatever commands and rebuilds ran side by side (ADR-006).
BalanceIsEvidence ==
  \A d \in Dim : balance[d] = [ledger[d] EXCEPT !["reserved"] = claims[d]]

\* Concurrent reservations, consumptions and adjustments never promise stock that
\* is not there and never drive a bucket below zero or past the supported range.
NoOversell == \A d \in Dim : ValidBalance(balance[d])

\* A transaction about to write computes from rows nobody has changed since it read
\* them: the locks cover everything between the read and the commit.
ReadsAreFresh ==
  \A p \in Session : pc[p] = "write" =>
    /\ \A d \in Touched(p) : seen[p][d] = balance[d]
    /\ cmd[p].op = "release" \/ Reserved(cmd[p]) => row[p] = resv[cmd[p].res]
    /\ cmd[p].op \in {"dispatch", "receive", "cancel"} => row[p] = xfer[cmd[p].xfer]

\* A rebuild that commits beside running commands leaves every balance as it was.
RebuildChangesNothing == [][\A p \in Session : CommitRebuild(p) => balance' = balance]_vars

\* The rows already show the effect of a command.
Applied(c) ==
  CASE c.op = "move" -> Movement(OwnId(c.key), c.dim, c.bucket, c.delta) \in movements
    [] c.op = "consume" -> Movement(OwnId(c.key), c.dim, "physical", -c.qty) \in movements
    [] c.op \in {"receipt", "return"} -> Movement(OwnId(c.key), c.dim, "physical", c.qty) \in movements
    [] c.op = "reserve" -> resv[c.res].status # "absent" /\ SameReservation(resv[c.res], c)
    [] c.op = "release" -> resv[c.res].status = c.outcome /\ c.key \in resv[c.res].keys
    [] c.op = "create_transfer" -> xfer[c.xfer].status # "absent" /\ SameTransfer(xfer[c.xfer], c)
    [] c.op \in {"dispatch", "receive", "cancel"} ->
         xfer[c.xfer].status = ToStatus[c.op] /\ c.key \in xfer[c.xfer].keys
    [] c.op = "create_lot" -> c.lot \in lots
    [] c.op = "rebuild" -> c.key \in rebuilds

\* The commands that look their own evidence up and answer from it.  A consumption, a
\* return, a receipt and a new lot do not: their identical retry is refused with a
\* ConflictException, and their caller keeps a receipt of its own.
Answering == {"move", "reserve", "release", "create_transfer", "dispatch", "receive", "cancel", "rebuild"}

\* A client that lost the answer sends the identical command again, while the first is
\* still running or when it is over: once the effect is there, no delivery commits it a
\* second time, and those that look their evidence up are not told of a conflict or of
\* missing stock instead, however far the second one had come when the first committed.
RetryIsAnswered ==
  [][\A p \in Session : pc[p] # "idle" /\ Applied(cmd[p]) =>
       /\ ~Commit(p) /\ ~CommitRebuild(p)
       /\ cmd[p].op \in Answering => ~(RefuseRow(p) \/ RefuseBalance(p) \/ Collide(p))]_vars

\* A reservation keeps its terms, is drawn down monotonically and never past its
\* quantity, and once it is released, cancelled or used up nothing moves it again.
ReservationLife ==
  [][\A r \in Resv : resv[r].status # "absent" /\ resv'[r] # resv[r] =>
       /\ resv[r].status = "active"
       /\ resv'[r].status # "absent"
       /\ resv'[r].dim = resv[r].dim /\ resv'[r].qty = resv[r].qty
       /\ resv'[r].version = resv[r].version + 1
       /\ resv'[r].used \in resv[r].used..resv[r].qty
       /\ (resv'[r].used = resv[r].qty) => resv'[r].status # "active"]_vars

\* Every command ends: no set of sessions waits on one another's locks for ever.
CommandsEnd == \A p \in Session : pc[p] # "idle" ~> pc[p] = "idle"
=============================================================================
