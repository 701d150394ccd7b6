-------------------------- MODULE InventoryTxProofs --------------------------
(***************************************************************************)
(* For any number of sessions, dimensions, keys, reservations and          *)
(* transfers: the invariant of InventoryTxInv is inductive, and the        *)
(* properties of InventoryTx follow from it.                               *)
(***************************************************************************)
EXTENDS InventoryTxInv, TLAPS


\* What the assumption on the constants says of each of them.
LEMMA ConstantTypes ==
  /\ \A d \in Dim : d \in Nat
  /\ AnyDim \in Dim
  /\ \A n \in Qty : n \in Nat /\ n > 0 /\ n <= MaxStock
  /\ \A n \in Delta : n \in Int
  /\ \A d \in Dim : LotOf[d] # NoLot => LotOf[d] \in Lot
  BY InventoryAssumption DEF AnyDim

\* The fields of a command have the types its schema gives them.
LEMMA CommandFields ==
  ASSUME NEW c \in Command
  PROVE  /\ c.op \in {"move", "receipt", "consume", "return", "reserve", "release",
                       "create_transfer", "dispatch", "receive", "cancel", "create_lot", "rebuild"}
         /\ c.op \in {"move", "receipt", "consume", "return"} => c.key \in MoveKey
         /\ c.op \in {"move", "receipt", "consume", "return", "reserve"} => c.dim \in Dim
         /\ c.op = "move" => c.bucket \in Bucket /\ c.delta \in Int
         /\ c.op = "receipt" => LotOf[c.dim] \in Lot
         /\ c.op \in {"receipt", "consume", "return", "reserve", "create_transfer"} =>
              c.qty \in Nat /\ c.qty > 0 /\ c.qty <= MaxStock
         /\ c.op = "consume" => c.res \in Resv \cup {NoResv}
         /\ c.op \in {"reserve", "release"} => c.res \in Resv
         /\ c.op = "release" => c.outcome \in Outcome /\ c.key \in EventKey
         /\ c.op = "create_transfer" => c.src \in Dim /\ c.dst \in Dim /\ c.src # c.dst
         /\ c.op \in {"create_transfer", "dispatch", "receive", "cancel"} => c.xfer \in Xfer
         /\ c.op \in {"dispatch", "receive", "cancel"} => c.key \in EventKey
         /\ c.op = "create_lot" => c.lot \in Lot
         /\ c.op = "rebuild" => c.key \in RebuildKey
<1>1. CASE c \in MoveCmd
  <2>1. c.op = "move" /\ c.key \in MoveKey /\ c.dim \in Dim /\ c.bucket \in Bucket /\ c.delta \in Delta
    BY <1>1 DEF MoveCmd
  <2> QED
    BY <2>1, ConstantTypes
<1>2. CASE c \in ReceiptCmd
  <2>1. c.op = "receipt" /\ c.key \in MoveKey /\ c.dim \in Dim /\ LotOf[c.dim] # NoLot /\ c.qty \in Qty
    BY <1>2 DEF ReceiptCmd
  <2> QED
    BY <2>1, ConstantTypes
<1>3. CASE c \in StockCmd
  <2>1. /\ c.op \in {"consume", "return"} /\ c.key \in MoveKey /\ c.dim \in Dim /\ c.qty \in Qty
        /\ c.op = "consume" => c.res \in Resv \cup {NoResv}
    BY <1>3 DEF StockCmd
  <2> QED
    BY <2>1, ConstantTypes
<1>4. CASE c \in ReserveCmd
  <2>1. c.op = "reserve" /\ c.res \in Resv /\ c.dim \in Dim /\ c.qty \in Qty
    BY <1>4 DEF ReserveCmd
  <2> QED
    BY <2>1, ConstantTypes
<1>5. CASE c \in ReleaseCmd
  BY <1>5 DEF ReleaseCmd
<1>6. CASE c \in PlanCmd
  <2>1. c \in [op: {"create_transfer"}, xfer: Xfer, src: Dim, dst: Dim, qty: Qty]
    BY <1>6 DEF PlanCmd
  <2>2. c.op = "create_transfer" /\ c.xfer \in Xfer /\ c.src \in Dim /\ c.dst \in Dim /\ c.qty \in Qty
    BY <2>1
  <2>3. c.src # c.dst
    BY <1>6 DEF PlanCmd
  <2> QED
    BY <2>2, <2>3, ConstantTypes
<1>7. CASE c \in ShiftCmd
  BY <1>7 DEF ShiftCmd
<1>8. CASE c \in LotCmd
  BY <1>8 DEF LotCmd
<1>9. CASE c \in RebuildCmd
  BY <1>9 DEF RebuildCmd
<1> QED
  BY <1>1, <1>2, <1>3, <1>4, <1>5, <1>6, <1>7, <1>8, <1>9 DEF Command

\* Everything a client offers is a command.
LEMMA OfferedIsCommand ==
  ASSUME TypeOK
  PROVE  Offered \subseteq Command
<1>1. \A r \in Resv : resv[r].version \in Nat
  BY DEF TypeOK, ResvRow
<1>2. \A x \in Xfer : xfer[x].version \in Nat
  BY DEF TypeOK, XferRow
<1>3. ASSUME NEW r \in Resv
      PROVE  [op: {"release"}, res: {r}, version: 1..resv[r].version, outcome: Outcome,
              key: EventKey] \subseteq ReleaseCmd
  BY <1>1, <1>3 DEF ReleaseCmd
<1>4. ASSUME NEW x \in Xfer
      PROVE  [op: {"dispatch", "receive", "cancel"}, xfer: {x}, version: 1..xfer[x].version,
              key: EventKey] \subseteq ShiftCmd
  BY <1>2, <1>4 DEF ShiftCmd
<1> QED
  BY <1>3, <1>4 DEF Offered, Command

\* The lock a command starts with is a lock, and it is the shared one of no command.
LEMMA OwnLockType ==
  ASSUME NEW c \in Command
  PROVE  OwnLock(c) \in Lock /\ OwnLock(c) # Shared
         /\ (OwnLock(c) = Exclusive <=> c.op = "rebuild")
  BY CommandFields, SMTT(30) DEF OwnLock, Lock, Shared, Exclusive, ResvLock

LEMMA LockTypes ==
  /\ Shared \in Lock /\ Exclusive \in Lock /\ Shared # Exclusive
  /\ \A d \in Dim : DimLock(d) \in Lock /\ DimLock(d) # Shared /\ DimLock(d) # Exclusive
  /\ \A r \in Resv : ResvLock(r) \in Lock /\ ResvLock(r) # Shared /\ ResvLock(r) # Exclusive
  BY DEF Shared, Exclusive, DimLock, ResvLock, Lock

-----------------------------------------------------------------------------
(***************************************************************************)
(* Types of what a transaction computes.                                   *)
(***************************************************************************)
\* The row a working transaction has read is of the table its command is about.
LEMMA RowTypes ==
  ASSUME TypeOK, NEW p \in Session, SessionOK(p), pc[p] \in Working
  PROVE  /\ cmd[p] \in Command
         /\ cmd[p].op = "release" \/ Reserved(cmd[p]) => cmd[p].res \in Resv /\ row[p] \in ResvRow
         /\ cmd[p].op \in ShiftOp => cmd[p].xfer \in Xfer /\ row[p] \in XferRow
<1>1. cmd[p] \in Command
  BY DEF SessionOK, Placed, Working
<1>2. ReservationKept(p) /\ TransferKept(p)
  BY DEF SessionOK
<1>3. cmd[p].op = "release" \/ Reserved(cmd[p]) => cmd[p].res \in Resv
  BY <1>1, CommandFields DEF Reserved
<1>4. cmd[p].op \in ShiftOp => cmd[p].xfer \in Xfer
  BY <1>1, CommandFields DEF ShiftOp
<1> QED
  BY <1>1, <1>2, <1>3, <1>4 DEF TypeOK, ReservationKept, TransferKept

\* It locks and changes dimensions of the tenant only.
LEMMA DimsTypes ==
  ASSUME TypeOK, NEW p \in Session, SessionOK(p), pc[p] \in Working
  PROVE  /\ DimsOf(p) \subseteq Dim
         /\ Touched(p) \subseteq DimsOf(p)
         /\ cmd[p].op \notin StockOp => DimsOf(p) = {}
<1>1. cmd[p] \in Command
  BY RowTypes
<1>2. cmd[p].op = "release" => row[p].dim \in Dim
  BY RowTypes DEF ResvRow
<1>3. cmd[p].op \in {"dispatch", "receive"} => row[p].src \in Dim /\ row[p].dst \in Dim
  BY RowTypes DEF XferRow, ShiftOp
<1> QED
  BY <1>1, <1>2, <1>3, CommandFields DEF DimsOf, Touched, StockOp

\* The rows it posts are movement rows.
LEMMA PostsType ==
  ASSUME TypeOK, NEW p \in Session, SessionOK(p), pc[p] \in Working
  PROVE  /\ Posts(p) \subseteq MovementRow
         /\ cmd[p].op \notin StockOp => Posts(p) = {}
<1> DEFINE c == cmd[p]
           t == row[p]
<1>1. c \in Command
  BY RowTypes
<1>2. c.op \in {"dispatch", "receive"} => t.src \in Dim /\ t.dst \in Dim /\ t.qty \in Int /\ c.key \in Key
  BY <1>1, RowTypes, CommandFields DEF XferRow, ShiftOp, Key
<1>3. \A k \in Key, l \in Leg, d \in Dim, b \in Bucket, n \in Int :
        Movement(<<k, l>>, d, b, n) \in MovementRow
  BY DEF Movement, MovementRow
<1>4. "physical" \in Bucket /\ "in_transit" \in Bucket
  BY DEF Bucket
<1>5. CASE c.op = "move"
  <2>1. c.key \in Key /\ c.dim \in Dim /\ c.bucket \in Bucket /\ c.delta \in Int
    BY <1>1, <1>5, CommandFields DEF Key
  <2> QED
    BY <2>1, <1>3, <1>5 DEF Posts, OwnId, Leg, StockOp
<1>6. CASE c.op \in {"receipt", "return", "consume"}
  <2>1. c.key \in Key /\ c.dim \in Dim /\ c.qty \in Int /\ -c.qty \in Int
    BY <1>1, <1>6, CommandFields DEF Key
  <2> QED
    BY <2>1, <1>3, <1>4, <1>6, ZenonT(40) DEF Posts, OwnId, Leg, StockOp
<1>7. CASE c.op \in {"dispatch", "receive"}
  <2>1. -t.qty \in Int
    BY <1>2, <1>7
  <2>2. {"source-debit", "transit-credit", "transit-debit", "destination-credit"} \subseteq Leg
    BY DEF Leg
  <2> QED
    BY <2>1, <2>2, <1>2, <1>3, <1>4, <1>7 DEF Posts, LegId, StockOp
<1>8. CASE c.op \in {"reserve", "release"} \/ c.op \notin StockOp
  BY <1>8 DEF Posts, StockOp
<1> QED
  BY <1>1, <1>5, <1>6, <1>7, <1>8, CommandFields DEF StockOp

\* The change of every column is a number, and commands that lock no dimension change none.
LEMMA ChangeType ==
  ASSUME TypeOK, NEW p \in Session, SessionOK(p), pc[p] \in Working, NEW d \in Dim, NEW col \in Column
  PROVE  /\ Change(p, d, col) \in Int
         /\ d \notin Touched(p) => Change(p, d, col) = 0
<1>1. HeldChange(p) \in Int
  <2>1. cmd[p] \in Command
    BY RowTypes
  <2>2. cmd[p].op = "release" => Left(row[p]) \in Int
    BY RowTypes DEF ResvRow, Left
  <2> QED
    BY <2>1, <2>2, CommandFields DEF HeldChange, Reserved
<1>2. \A m \in Posts(p) : m.delta \in Int
  BY PostsType DEF MovementRow
<1>3. ASSUME \E m \in Posts(p) : m.dim = d /\ m.bucket = col
      PROVE  (CHOOSE m \in Posts(p) : m.dim = d /\ m.bucket = col).delta \in Int
  BY <1>2, <1>3
<1>4. CASE d \notin Touched(p)
  BY <1>4 DEF Change
<1>5. CASE d \in Touched(p) /\ col = "reserved"
  BY <1>1, <1>5 DEF Change
<1>6. CASE d \in Touched(p) /\ col # "reserved" /\ \E m \in Posts(p) : m.dim = d /\ m.bucket = col
  <2>1. Change(p, d, col) = (CHOOSE m \in Posts(p) : m.dim = d /\ m.bucket = col).delta
    BY <1>6 DEF Change
  <2> QED
    BY <2>1, <1>3, <1>6
<1>7. CASE d \in Touched(p) /\ col # "reserved" /\ ~\E m \in Posts(p) : m.dim = d /\ m.bucket = col
  BY <1>7 DEF Change
<1> QED
  BY <1>4, <1>5, <1>6, <1>7

LEMMA AfterType ==
  ASSUME TypeOK, NEW p \in Session, SessionOK(p), pc[p] \in Working, NEW d \in Dim, NEW b \in Balance
  PROVE  After(p, d, b) \in Balance
  BY ChangeType DEF After, Balance

-----------------------------------------------------------------------------
(***************************************************************************)
(* Steps that change one session and no table.                             *)
(***************************************************************************)
\* The other sessions do not notice such a step.
LEMMA TablesKept ==
  ASSUME NEW q \in Session, SessionOK(q), UNCHANGED <<ledger, resv, claims, xfer, balance>>,
         pc'[q] = pc[q], cmd'[q] = cmd[q], held'[q] = held[q], row'[q] = row[q], seen'[q] = seen[q]
  PROVE  SessionOK(q)'
<1>1. Placed(q)'
  BY DEF SessionOK, Placed, DimsOf
<1>2. pc'[q] \in Working => ReservationKept(q)' /\ TransferKept(q)'
  BY DEF SessionOK, ReservationKept, TransferKept
<1>3. Touched(q)' = Touched(q)
  BY DEF Touched, DimsOf
<1>4. \A d, b : After(q, d, b)' = After(q, d, b)
  BY <1>3 DEF After, Change, HeldChange, Posts
<1>5. BalancesKept(q)'
  BY <1>3, <1>4 DEF SessionOK, BalancesKept
<1>6. EvidenceKept(q)'
  BY DEF SessionOK, EvidenceKept, Evidence
<1> QED
  BY <1>1, <1>2, <1>5, <1>6 DEF SessionOK

\* So such a step keeps the invariant when its own session ends up in order.
LEMMA LocalStep ==
  ASSUME IInv, NEW p \in Session, UNCHANGED db,
         NEW a \in Place, NEW c \in Command \cup {NoCmd}, NEW h \in SUBSET Lock,
         NEW r \in ResvRow \cup XferRow \cup {NoRow}, NEW s \in [Dim -> Balance],
         pc' = [pc EXCEPT ![p] = a], cmd' = [cmd EXCEPT ![p] = c], held' = [held EXCEPT ![p] = h],
         row' = [row EXCEPT ![p] = r], seen' = [seen EXCEPT ![p] = s],
         LocksExclude', SessionOK(p)'
  PROVE  IInv'
<1>1. TypeOK'
  BY DEF IInv, TypeOK, db
<1>2. ASSUME NEW q \in Session PROVE SessionOK(q)'
  <2>1. CASE q = p
    BY <2>1
  <2>2. CASE q # p
    <3>1. /\ pc'[q] = pc[q] /\ cmd'[q] = cmd[q] /\ held'[q] = held[q]
          /\ row'[q] = row[q] /\ seen'[q] = seen[q]
      BY <2>2 DEF IInv, TypeOK
    <3> QED
      BY <3>1, TablesKept DEF IInv, db
  <2> QED
    BY <2>1, <2>2
<1>3. BalanceIsEvidence' /\ NoOversell' /\ UseBounded'
  BY DEF IInv, BalanceIsEvidence, NoOversell, UseBounded, ValidBalance, db
<1> QED
  BY <1>1, <1>2, <1>3 DEF IInv

\* Locks that are given back, and a lock that is granted, leave no two in conflict.
LEMMA DropLocks ==
  ASSUME IInv, NEW p \in Session, held' = [held EXCEPT ![p] = {}]
  PROVE  LocksExclude'
  BY DEF IInv, TypeOK, LocksExclude

LEMMA TakeLock ==
  ASSUME IInv, NEW p \in Session, NEW l \in Lock, CanTake(p, l),
         held' = [held EXCEPT ![p] = held[p] \cup {l}]
  PROVE  LocksExclude'
<1>1. \A q \in Session \ {p} :
        /\ l \in held[q] => l = Shared
        /\ l = Shared => Exclusive \notin held[q]
        /\ l = Exclusive => Shared \notin held[q]
  BY LockTypes DEF CanTake
<1>2. ASSUME NEW q \in Session, NEW o \in Session, q # o
      PROVE  /\ held'[q] \cap held'[o] \subseteq {Shared}
             /\ Exclusive \in held'[q] => Shared \notin held'[o]
  <2>1. CASE q = p
    BY <1>1, <1>2, <2>1, LockTypes DEF IInv, TypeOK, LocksExclude
  <2>2. CASE o = p
    BY <1>1, <1>2, <2>2, LockTypes DEF IInv, TypeOK, LocksExclude
  <2>3. CASE q # p /\ o # p
    BY <1>2, <2>3 DEF IInv, TypeOK, LocksExclude
  <2> QED
    BY <2>1, <2>2, <2>3
<1> QED
  BY <1>2 DEF LocksExclude

\* Replies, refusals and rollbacks.
LEMMA FinishStep ==
  ASSUME IInv, NEW p \in Session, Finish(p), UNCHANGED db
  PROVE  IInv'
<1>1. LocksExclude'
  BY DropLocks DEF Finish
<1>2. pc'[p] = "idle"
  BY DEF Finish, IInv, TypeOK
<1>3. SessionOK(p)'
  BY <1>2 DEF SessionOK, Placed, BalancesKept, EvidenceKept, Working, Rebuilding
<1>4. [d \in Dim |-> Empty] \in [Dim -> Balance] /\ "idle" \in Place
  BY DEF Empty, Balance, Place
<1> QED
  BY <1>1, <1>3, <1>4, LocalStep DEF Finish

LEMMA BeginStep ==
  ASSUME IInv, NEW p \in Session, Begin(p)
  PROVE  IInv'
<1>1. PICK c \in Command : cmd' = [cmd EXCEPT ![p] = c]
  BY OfferedIsCommand DEF Begin, IInv
<1>2. /\ pc' = [pc EXCEPT ![p] = "own"] /\ "own" \in Place
      /\ held' = [held EXCEPT ![p] = held[p]] /\ held[p] \in SUBSET Lock
      /\ row' = [row EXCEPT ![p] = row[p]] /\ row[p] \in ResvRow \cup XferRow \cup {NoRow}
      /\ seen' = [seen EXCEPT ![p] = seen[p]] /\ seen[p] \in [Dim -> Balance]
      /\ UNCHANGED db
  BY DEF Begin, IInv, TypeOK, Place
<1>3. LocksExclude'
  BY DEF Begin, IInv, LocksExclude
<1>4. pc'[p] = "own" /\ cmd'[p] = c
  BY <1>1, <1>2 DEF IInv, TypeOK
<1>5. SessionOK(p)'
  BY <1>4 DEF SessionOK, Placed, BalancesKept, EvidenceKept, Working, Rebuilding
<1> QED
  BY <1>1, <1>2, <1>3, <1>5, LocalStep

\* A command that is admitted holds its own lock on the row it has read.
LEMMA AdmitStep ==
  ASSUME IInv, NEW p \in Session, Admit(p)
  PROVE  IInv'
<1> DEFINE c == cmd[p]
           l == OwnLock(c)
<1>1. c \in Command /\ c \in Command \cup {NoCmd}
  BY DEF Admit, Own, IInv, SessionOK, Placed
<1>2. l \in Lock /\ l # Shared /\ (l = Exclusive <=> c.op = "rebuild")
  BY <1>1, OwnLockType
<1>3. /\ pc' = [pc EXCEPT ![p] = AfterOwn(c)]
      /\ cmd' = [cmd EXCEPT ![p] = c]
      /\ held' = [held EXCEPT ![p] = held[p] \cup {l}] /\ held[p] \cup {l} \in SUBSET Lock
      /\ row' = [row EXCEPT ![p] = RowOf(c)]
      /\ seen' = [seen EXCEPT ![p] = seen[p]] /\ seen[p] \in [Dim -> Balance]
      /\ UNCHANGED db
  BY <1>2 DEF Admit, IInv, TypeOK
<1>4. AfterOwn(c) \in Place
  BY DEF AfterOwn, Place
<1>5. RowOf(c) \in ResvRow \cup XferRow \cup {NoRow}
  BY <1>1, CommandFields DEF RowOf, IInv, TypeOK
<1>6. LocksExclude'
  BY <1>2, <1>3, TakeLock DEF Admit, Own
<1>7. pc'[p] = AfterOwn(c) /\ cmd'[p] = c /\ held'[p] = held[p] \cup {l} /\ row'[p] = RowOf(c)
  BY <1>3 DEF IInv, TypeOK
<1>8. Placed(p)'
  <2>1. c.op = "rebuild" => AfterOwn(c) = "movements" /\ l = Exclusive
    BY <1>2 DEF AfterOwn, Reserved
  <2>2. Reserved(c) => AfterOwn(c) = "reservation"
    BY DEF AfterOwn, Reserved
  <2>3. c.op \in {"create_transfer", "cancel", "create_lot"} => AfterOwn(c) = "write" /\ c.op \notin StockOp
    BY DEF AfterOwn, Reserved, StockOp
  <2>4. c.op # "rebuild" /\ ~Reserved(c) /\ c.op \notin {"create_transfer", "cancel", "create_lot"} =>
          AfterOwn(c) = "share" /\ c.op \in StockOp
    BY <1>1, CommandFields DEF AfterOwn, StockOp
  <2>5. c.op \in {"create_transfer", "cancel", "create_lot"} => DimsOf(p)' = {}
    BY <1>7 DEF DimsOf
  <2>6. Reserved(cmd[p])' <=> Reserved(c)
    BY <1>7 DEF Reserved
  <2> QED
    BY <1>1, <1>7, <2>1, <2>2, <2>3, <2>4, <2>5, <2>6 DEF Placed, Working, Rebuilding, Reserved
<1>9. ASSUME pc'[p] \in Working
      PROVE  ReservationKept(p)' /\ TransferKept(p)'
  <2>1. ~Reserved(c)
    BY <1>7, <1>9 DEF Working, AfterOwn, Reserved
  <2>2. Admissible(c) /\ UNCHANGED <<resv, xfer>>
    BY <1>3 DEF Admit, db
  <2>3. c.op = "reserve" => resv[c.res].status = "absent"
    BY <2>2 DEF Admissible
  <2>4. c.op = "release" => l = ResvLock(c.res) /\ resv[c.res].status = "active" /\ RowOf(c) = resv[c.res]
    BY <2>2 DEF Admissible, Releasable, RowOf, OwnLock
  <2>5. c.op = "create_transfer" => xfer[c.xfer].status = "absent"
    BY <2>2 DEF Admissible
  <2>6. c.op \in ShiftOp => RowOf(c) = xfer[c.xfer] /\ xfer[c.xfer].status # "absent"
    BY <2>2 DEF Admissible, FromStatus, RowOf, ShiftOp
  <2>7. ReservationKept(p)'
    BY <1>7, <2>1, <2>2, <2>3, <2>4 DEF ReservationKept, Reserved
  <2>8. TransferKept(p)'
    BY <1>7, <2>2, <2>5, <2>6 DEF TransferKept
  <2> QED
    BY <2>7, <2>8
<1>10. BalancesKept(p)'
  <2>1. pc'[p] = "write" => c.op \in {"create_transfer", "cancel", "create_lot"}
    BY <1>7 DEF AfterOwn
  <2>2. pc'[p] = "write" => Touched(p)' = {}
    BY <1>7, <2>1 DEF Touched, DimsOf
  <2> QED
    BY <2>2 DEF BalancesKept
<1>11. EvidenceKept(p)'
  BY <1>7 DEF EvidenceKept, AfterOwn
<1>12. SessionOK(p)'
  BY <1>8, <1>9, <1>10, <1>11 DEF SessionOK
<1> HIDE DEF c, l
<1> QED
  BY <1>1, <1>3, <1>4, <1>5, <1>6, <1>12, LocalStep

LEMMA DrawStep ==
  ASSUME IInv, NEW p \in Session, DrawReservation(p)
  PROVE  IInv'
<1> DEFINE c == cmd[p]
           l == ResvLock(c.res)
<1>1. c \in Command /\ c \in Command \cup {NoCmd} /\ Reserved(c) /\ c.res \in Resv
  <2>1. c \in Command /\ Reserved(c)
    BY DEF DrawReservation, IInv, SessionOK, Placed
  <2> QED
    BY <2>1, CommandFields DEF Reserved
<1>2. l \in Lock
  BY <1>1, LockTypes
<1>3. /\ pc' = [pc EXCEPT ![p] = "share"] /\ "share" \in Place
      /\ cmd' = [cmd EXCEPT ![p] = c]
      /\ held' = [held EXCEPT ![p] = held[p] \cup {l}] /\ held[p] \cup {l} \in SUBSET Lock
      /\ row' = [row EXCEPT ![p] = resv[c.res]] /\ resv[c.res] \in ResvRow \cup XferRow \cup {NoRow}
      /\ seen' = [seen EXCEPT ![p] = seen[p]] /\ seen[p] \in [Dim -> Balance]
      /\ UNCHANGED db
  BY <1>1, <1>2 DEF DrawReservation, IInv, TypeOK, Place
<1>4. LocksExclude'
  BY <1>2, <1>3, TakeLock DEF DrawReservation
<1>5. pc'[p] = "share" /\ cmd'[p] = c /\ held'[p] = held[p] \cup {l} /\ row'[p] = resv[c.res] /\ resv' = resv
  BY <1>3 DEF IInv, TypeOK, db
<1>6. resv[c.res].status = "active" /\ Left(resv[c.res]) >= c.qty
  BY DEF DrawReservation, Drawable
<1>7. Placed(p)'
  BY <1>1, <1>5 DEF Placed, Working, Rebuilding, Reserved, StockOp
<1>8. ReservationKept(p)' /\ TransferKept(p)'
  BY <1>1, <1>5, <1>6 DEF ReservationKept, TransferKept, Reserved, ShiftOp
<1>9. BalancesKept(p)' /\ EvidenceKept(p)'
  BY <1>5 DEF BalancesKept, EvidenceKept
<1>10. SessionOK(p)'
  BY <1>7, <1>8, <1>9 DEF SessionOK
<1> HIDE DEF c, l
<1> QED
  BY <1>1, <1>3, <1>4, <1>10, LocalStep

\* Taking one more lock on the way to the balance keeps what has been read.
LEMMA KeptOnTheWay ==
  ASSUME IInv, NEW p \in Session, UNCHANGED db, pc[p] \in Working,
         cmd' = cmd, row' = row, held[p] \subseteq held'[p]
  PROVE  ReservationKept(p)' /\ TransferKept(p)'
<1>1. ReservationKept(p) /\ TransferKept(p)
  BY DEF IInv, SessionOK
<1> QED
  BY <1>1 DEF ReservationKept, TransferKept, db

LEMMA ShareStep ==
  ASSUME IInv, NEW p \in Session, Share(p)
  PROVE  IInv'
<1>1. /\ pc' = [pc EXCEPT ![p] = "dimension"] /\ "dimension" \in Place
      /\ cmd' = [cmd EXCEPT ![p] = cmd[p]] /\ cmd[p] \in Command \cup {NoCmd}
      /\ held' = [held EXCEPT ![p] = held[p] \cup {Shared}] /\ held[p] \cup {Shared} \in SUBSET Lock
      /\ row' = [row EXCEPT ![p] = row[p]] /\ row[p] \in ResvRow \cup XferRow \cup {NoRow}
      /\ seen' = [seen EXCEPT ![p] = seen[p]] /\ seen[p] \in [Dim -> Balance]
      /\ UNCHANGED db
  BY LockTypes DEF Share, IInv, TypeOK, Place
<1>2. LocksExclude'
  BY <1>1, TakeLock, LockTypes DEF Share
<1>3. pc'[p] = "dimension" /\ cmd' = cmd /\ row' = row /\ held'[p] = held[p] \cup {Shared}
  BY <1>1 DEF Share, IInv, TypeOK
<1>4. Placed(p)'
  BY <1>3 DEF Share, IInv, SessionOK, Placed, Working, Rebuilding
<1>5. ReservationKept(p)' /\ TransferKept(p)'
  BY <1>1, <1>3, KeptOnTheWay DEF Share, Working
<1>6. BalancesKept(p)' /\ EvidenceKept(p)'
  BY <1>3 DEF BalancesKept, EvidenceKept
<1>7. SessionOK(p)'
  BY <1>4, <1>5, <1>6 DEF SessionOK
<1> QED
  BY <1>1, <1>2, <1>7, LocalStep

LEMMA LockDimensionStep ==
  ASSUME IInv, NEW p \in Session, LockDimension(p)
  PROVE  IInv'
<1>1. pc[p] = "dimension" /\ pc[p] \in Working /\ SessionOK(p) /\ TypeOK
  BY DEF LockDimension, Working, IInv
<1>2. PICK d \in Awaited(p) :
        /\ CanTake(p, DimLock(d))
        /\ held' = [held EXCEPT ![p] = @ \cup {DimLock(d)}]
        /\ pc' = [pc EXCEPT ![p] = IF Awaited(p) = {d} THEN "balance" ELSE "dimension"]
  BY DEF LockDimension
<1>3. d \in Dim /\ DimLock(d) \in Lock
  BY <1>1, DimsTypes, LockTypes DEF Awaited
<1> DEFINE a == IF Awaited(p) = {d} THEN "balance" ELSE "dimension"
           h == held[p] \cup {DimLock(d)}
<1>4. /\ pc' = [pc EXCEPT ![p] = a] /\ a \in Place
      /\ cmd' = [cmd EXCEPT ![p] = cmd[p]] /\ cmd[p] \in Command \cup {NoCmd}
      /\ held' = [held EXCEPT ![p] = h] /\ h \in SUBSET Lock
      /\ row' = [row EXCEPT ![p] = row[p]] /\ row[p] \in ResvRow \cup XferRow \cup {NoRow}
      /\ seen' = [seen EXCEPT ![p] = seen[p]] /\ seen[p] \in [Dim -> Balance]
      /\ UNCHANGED db
  BY <1>2, <1>3 DEF LockDimension, IInv, TypeOK, Place
<1>5. LocksExclude'
  BY <1>2, <1>3, <1>4, TakeLock
<1>6. pc'[p] = a /\ cmd' = cmd /\ row' = row /\ held'[p] = h
  BY <1>4 DEF LockDimension, IInv, TypeOK
<1>7. a = "balance" => \A e \in DimsOf(p) : DimLock(e) \in h
  BY DEF Awaited
<1>8. DimsOf(p)' = DimsOf(p)
  BY <1>6 DEF DimsOf
<1>9. Placed(p)'
  BY <1>1, <1>6, <1>7, <1>8 DEF SessionOK, Placed, Working, Rebuilding
<1>10. ReservationKept(p)' /\ TransferKept(p)'
  BY <1>1, <1>4, <1>6, KeptOnTheWay
<1>11. BalancesKept(p)' /\ EvidenceKept(p)'
  BY <1>6 DEF BalancesKept, EvidenceKept
<1>12. SessionOK(p)'
  BY <1>9, <1>10, <1>11 DEF SessionOK
<1> HIDE DEF a, h
<1> QED
  BY <1>4, <1>5, <1>12, LocalStep

\* The check on a balance is strong enough for the write it allows.
LEMMA AcceptedIsValid ==
  ASSUME IInv, NEW p \in Session, pc[p] = "balance", Accepts(p), NEW d \in Touched(p)
  PROVE  ValidBalance(After(p, d, balance[d]))
<1> DEFINE c == cmd[p]
<1>1. TypeOK /\ SessionOK(p) /\ pc[p] \in Working /\ c \in Command /\ c.op \in StockOp
  BY DEF IInv, SessionOK, Placed, Working
<1>2. d \in Dim /\ balance[d] \in Balance /\ ValidBalance(balance[d])
  BY <1>1, DimsTypes DEF TypeOK, IInv, NoOversell
<1>3. \A b \in Bucket : b # "reserved" /\ b \in Column
  BY DEF Bucket, Column
<1>9. /\ balance[d]["physical"] \in Int /\ balance[d]["reserved"] \in Int
      /\ balance[d]["reserved"] >= 0 /\ balance[d]["reserved"] <= balance[d]["physical"]
  BY <1>2, InventoryAssumption DEF ValidBalance, Column, Bucket
<1>10. ASSUME NEW a, \A b \in Bucket : a[b] = balance[d][b],
             a["reserved"] \in Int, a["reserved"] >= 0, a["reserved"] <= balance[d]["physical"]
      PROVE  ValidBalance(a)
  <2>1. \A col \in Column : balance[d][col] \in Int /\ 0 <= balance[d][col] /\ balance[d][col] <= MaxStock
    BY <1>2, InventoryAssumption DEF ValidBalance
  <2>2. "physical" \in Bucket /\ "physical" \in Column
    BY DEF Bucket, Column
  <2>3. a["reserved"] <= MaxStock
    BY <1>10, <2>1, <2>2, InventoryAssumption
  <2>4. \A b \in Bucket : a[b] \in 0..MaxStock
    BY <1>3, <1>10, <2>1
  <2>5. a["reserved"] \in 0..MaxStock
    BY <1>10, <2>3
  <2> QED
    BY <1>10, <2>2, <2>4, <2>5 DEF ValidBalance, Column
<1>4. CASE c.op = "reserve"
  <2>1. d = c.dim /\ c.qty \in Nat /\ c.qty > 0 /\ Available(balance[d]) >= c.qty
    BY <1>1, <1>4, CommandFields DEF Touched, DimsOf, Accepts
  <2>2. Change(p, d, "reserved") = c.qty
    BY <1>4 DEF Change, HeldChange, Reserved, Touched, DimsOf
  <2>3. \A b \in Bucket : Change(p, d, b) = 0
    BY <1>3, <1>4 DEF Change, Posts
  <2>4. After(p, d, balance[d])["reserved"] = balance[d]["reserved"] + c.qty
    BY <2>2 DEF After, Column
  <2>5. \A b \in Bucket : After(p, d, balance[d])[b] = balance[d][b]
    BY <1>2, <1>3, <2>3 DEF After, Balance
  <2>6. After(p, d, balance[d])["reserved"] \in Int /\ After(p, d, balance[d])["reserved"] >= 0
        /\ After(p, d, balance[d])["reserved"] <= balance[d]["physical"]
    BY <1>9, <2>1, <2>4 DEF Available
  <2> QED
    BY <1>10, <2>5, <2>6
<1>5. CASE c.op = "release"
  <2>1. /\ row[p] = resv[c.res] /\ row[p] \in ResvRow /\ d = row[p].dim /\ c.res \in Resv
        /\ row[p].used <= row[p].qty /\ row[p].status = "active"
    BY <1>1, <1>5, RowTypes DEF SessionOK, ReservationKept, IInv, UseBounded, Touched, DimsOf
  <2>2. Left(row[p]) \in Nat /\ balance[d]["reserved"] >= Left(row[p])
    BY <1>5, <2>1 DEF Accepts, Left, ResvRow
  <2>3. Change(p, d, "reserved") = -Left(row[p])
    BY <1>5 DEF Change, HeldChange, Reserved, Touched, DimsOf
  <2>4. \A b \in Bucket : Change(p, d, b) = 0
    BY <1>3, <1>5 DEF Change, Posts
  <2>5. After(p, d, balance[d])["reserved"] = balance[d]["reserved"] - Left(row[p])
    BY <1>2, <2>2, <2>3 DEF After, Column, Balance
  <2>6. \A b \in Bucket : After(p, d, balance[d])[b] = balance[d][b]
    BY <1>2, <1>3, <2>4 DEF After, Balance
  <2>7. After(p, d, balance[d])["reserved"] \in Int /\ After(p, d, balance[d])["reserved"] >= 0
        /\ After(p, d, balance[d])["reserved"] <= balance[d]["physical"]
    BY <1>9, <2>2, <2>5
  <2> QED
    BY <1>10, <2>6, <2>7
<1>6. CASE c.op = "receipt"
  BY <1>6 DEF Accepts, Touched, DimsOf
<1>7. CASE c.op \notin {"reserve", "release", "receipt"}
  BY <1>7 DEF Accepts
<1> QED
  BY <1>4, <1>5, <1>6, <1>7

LEMMA ReadBalanceStep ==
  ASSUME IInv, NEW p \in Session, ReadBalance(p)
  PROVE  IInv'
<1> DEFINE s == [d \in Dim |-> IF d \in Touched(p) THEN balance[d] ELSE Empty]
<1>1. /\ TypeOK /\ SessionOK(p) /\ pc[p] \in Working /\ pc[p] = "balance" /\ UNCHANGED <<db, cmd, held>>
      /\ ReservationKept(p)
  BY DEF ReadBalance, IInv, SessionOK, Working
<1>2. row' = row
  <2>1. cmd[p].op = "release" =>
          /\ row[p] \in ResvRow /\ row[p] = resv[cmd[p].res]
          /\ row' = [row EXCEPT ![p] = [row[p] EXCEPT !.used = resv[cmd[p].res].used]]
    BY <1>1, RowTypes DEF ReadBalance, ReservationKept
  <2>2. cmd[p].op # "release" => row' = [row EXCEPT ![p] = row[p]]
    BY DEF ReadBalance
  <2>3. cmd[p].op = "release" => [row[p] EXCEPT !.used = row[p].used] = row[p]
    BY <2>1 DEF ResvRow
  <2>4. row' = [row EXCEPT ![p] = row[p]]
    BY <2>1, <2>2, <2>3
  <2> QED
    BY <1>1, <2>4 DEF TypeOK
<1>3. s \in [Dim -> Balance]
  BY <1>1 DEF TypeOK, Empty, Balance
<1>4. /\ pc' = [pc EXCEPT ![p] = "write"] /\ "write" \in Place
      /\ cmd' = [cmd EXCEPT ![p] = cmd[p]] /\ cmd[p] \in Command \cup {NoCmd}
      /\ held' = [held EXCEPT ![p] = held[p]] /\ held[p] \in SUBSET Lock
      /\ row' = [row EXCEPT ![p] = row[p]] /\ row[p] \in ResvRow \cup XferRow \cup {NoRow}
      /\ seen' = [seen EXCEPT ![p] = s]
      /\ UNCHANGED db
  BY <1>1, <1>2 DEF ReadBalance, TypeOK, Place
<1>5. LocksExclude'
  BY <1>1 DEF IInv, LocksExclude
<1>6. pc'[p] = "write" /\ seen'[p] = s
  BY <1>1, <1>4 DEF TypeOK
<1>7. /\ DimsOf(p)' = DimsOf(p) /\ Touched(p)' = Touched(p)
      /\ \A d, b : After(p, d, b)' = After(p, d, b)
  BY <1>1, <1>2 DEF After, Change, HeldChange, Posts, Touched, DimsOf
<1>8. Placed(p)'
  BY <1>1, <1>6, <1>7 DEF SessionOK, Placed, Working, Rebuilding, StockOp
<1>9. ReservationKept(p)' /\ TransferKept(p)'
  BY <1>1, <1>2, KeptOnTheWay
<1>10. BalancesKept(p)'
  <2>1. ASSUME NEW d \in Touched(p)
        PROVE  s[d] = balance[d] /\ ValidBalance(After(p, d, balance[d]))
    BY <1>1, <2>1, DimsTypes, AcceptedIsValid DEF ReadBalance
  <2>2. balance' = balance /\ \A b : ValidBalance(b)' = ValidBalance(b)
    BY <1>1 DEF db, ValidBalance
  <2> QED
    BY <1>6, <1>7, <2>1, <2>2 DEF BalancesKept, ValidBalance
<1>11. EvidenceKept(p)'
  BY <1>6 DEF EvidenceKept
<1>12. SessionOK(p)'
  BY <1>8, <1>9, <1>10, <1>11 DEF SessionOK
<1> HIDE DEF s
<1> QED
  BY <1>3, <1>4, <1>5, <1>12, LocalStep

LEMMA EvidenceType ==
  ASSUME TypeOK
  PROVE  Evidence \in [Dim -> Balance]
  BY DEF TypeOK, Evidence, Balance, Column

LEMMA ReadMovementsStep ==
  ASSUME IInv, NEW p \in Session, ReadMovements(p)
  PROVE  IInv'
<1>1. /\ pc' = [pc EXCEPT ![p] = "claims"] /\ "claims" \in Place
      /\ cmd' = [cmd EXCEPT ![p] = cmd[p]] /\ cmd[p] \in Command \cup {NoCmd}
      /\ held' = [held EXCEPT ![p] = held[p]] /\ held[p] \in SUBSET Lock
      /\ row' = [row EXCEPT ![p] = row[p]] /\ row[p] \in ResvRow \cup XferRow \cup {NoRow}
      /\ seen' = [seen EXCEPT ![p] = ledger] /\ ledger \in [Dim -> Balance]
      /\ UNCHANGED db
  BY DEF ReadMovements, IInv, TypeOK, Place
<1>2. LocksExclude'
  BY DEF ReadMovements, IInv, LocksExclude
<1>3. pc'[p] = "claims" /\ seen'[p] = ledger /\ ledger' = ledger
  BY <1>1 DEF IInv, TypeOK, db
<1>4. Placed(p)'
  BY <1>3 DEF ReadMovements, IInv, SessionOK, Placed, Working, Rebuilding
<1>5. SessionOK(p)'
  BY <1>3, <1>4 DEF SessionOK, BalancesKept, EvidenceKept, Working
<1> QED
  BY <1>1, <1>2, <1>5, LocalStep

\* A rebuild that goes on has read the evidence of one instant.
LEMMA ReadClaimsStep ==
  ASSUME IInv, NEW p \in Session, ReadClaims(p)
  PROVE  IInv'
<1>1. CASE Finish(p) /\ UNCHANGED db
  BY <1>1, FinishStep
<1>2. CASE /\ seen' = [seen EXCEPT ![p] = Projection(p)]
           /\ pc' = [pc EXCEPT ![p] = "replace"]
           /\ UNCHANGED <<db, cmd, held, row>>
  <2>1. Projection(p) = Evidence
    BY DEF ReadClaims, Projection, Evidence, IInv, SessionOK, EvidenceKept
  <2>2. /\ pc' = [pc EXCEPT ![p] = "replace"] /\ "replace" \in Place
        /\ cmd' = [cmd EXCEPT ![p] = cmd[p]] /\ cmd[p] \in Command \cup {NoCmd}
        /\ held' = [held EXCEPT ![p] = held[p]] /\ held[p] \in SUBSET Lock
        /\ row' = [row EXCEPT ![p] = row[p]] /\ row[p] \in ResvRow \cup XferRow \cup {NoRow}
        /\ seen' = [seen EXCEPT ![p] = Evidence] /\ Evidence \in [Dim -> Balance]
        /\ UNCHANGED db
    BY <1>2, <2>1, EvidenceType DEF IInv, TypeOK, Place
  <2>3. LocksExclude'
    BY <1>2 DEF IInv, LocksExclude
  <2>4. pc'[p] = "replace" /\ seen'[p] = Evidence /\ Evidence' = Evidence
    BY <2>2 DEF IInv, TypeOK, db, Evidence
  <2>5. Placed(p)'
    BY <1>2, <2>4 DEF ReadClaims, IInv, SessionOK, Placed, Working, Rebuilding
  <2>6. SessionOK(p)'
    BY <2>4, <2>5 DEF SessionOK, BalancesKept, EvidenceKept, Working
  <2> QED
    BY <2>2, <2>3, <2>6, LocalStep
<1> QED
  BY <1>1, <1>2 DEF ReadClaims

-----------------------------------------------------------------------------
(***************************************************************************)
(* Commits.                                                                *)
(***************************************************************************)
\* Writing one sound reservation row, or one transfer row.
LEMMA WriteReservation ==
  ASSUME TypeOK, UseBounded, NEW r \in Resv, NEW f \in ResvRow, f.used <= f.qty
  PROVE  /\ [resv EXCEPT ![r] = f] \in [Resv -> ResvRow]
         /\ \A s \in Resv : [resv EXCEPT ![r] = f][s].used <= [resv EXCEPT ![r] = f][s].qty
<1>1. resv \in [Resv -> ResvRow] /\ \A s \in Resv : resv[s].used <= resv[s].qty
  BY DEF TypeOK, UseBounded
<1>2. ASSUME NEW s \in Resv
      PROVE  [resv EXCEPT ![r] = f][s].used <= [resv EXCEPT ![r] = f][s].qty
  <2>1. CASE s = r
    BY <1>1, <2>1
  <2>2. CASE s # r
    BY <1>1, <2>2
  <2> QED
    BY <2>1, <2>2
<1> QED
  BY <1>1, <1>2

LEMMA WriteTransfer ==
  ASSUME TypeOK, NEW x \in Xfer, NEW f \in XferRow
  PROVE  [xfer EXCEPT ![x] = f] \in [Xfer -> XferRow]
  BY DEF TypeOK

\* What a commit writes into the reservations: one sound row, or nothing.
LEMMA ReservationWritten ==
  ASSUME IInv, NEW p \in Session, pc[p] = "write"
  PROVE  /\ ReservationAfter(p) \in [Resv -> ResvRow]
         /\ \A r \in Resv : ReservationAfter(p)[r].used <= ReservationAfter(p)[r].qty
<1> DEFINE c == cmd[p]
           sound(f) == /\ f \in [Resv -> ResvRow]
                       /\ \A r \in Resv : f[r].used <= f[r].qty
<1>1. /\ TypeOK /\ SessionOK(p) /\ pc[p] \in Working /\ c \in Command
      /\ ReservationKept(p) /\ UseBounded /\ resv \in [Resv -> ResvRow]
  BY DEF IInv, SessionOK, Placed, Working, TypeOK
<1>2. Key = MoveKey \cup EventKey
  BY DEF Key
<1>3. CASE c.op = "reserve"
  <2> DEFINE f == [status |-> "active", dim |-> c.dim, qty |-> c.qty, used |-> 0,
                   version |-> 1, keys |-> {}]
  <2>1. c.res \in Resv /\ c.dim \in Dim /\ c.qty \in Nat
    BY <1>1, <1>3, CommandFields
  <2>2. f \in ResvRow /\ f.used <= f.qty
    BY <2>1 DEF ResvRow
  <2>3. ReservationAfter(p) = [resv EXCEPT ![c.res] = f]
    BY <1>3 DEF ReservationAfter, Reserved
  <2> QED
    BY <1>1, <2>1, <2>2, <2>3, WriteReservation
<1>4. CASE c.op = "release"
  <2> DEFINE f == [resv[c.res] EXCEPT !.status = c.outcome, !.version = row[p].version + 1,
                                      !.keys = @ \cup {c.key}]
  <2>1. /\ c.res \in Resv /\ c.outcome \in Outcome /\ c.key \in Key
        /\ resv[c.res] \in ResvRow /\ row[p].version \in Nat
    BY <1>1, <1>2, <1>4, CommandFields, RowTypes DEF ResvRow
  <2>2. f \in ResvRow /\ f.used <= f.qty
    <3>1. resv[c.res].used <= resv[c.res].qty
      BY <1>1, <2>1 DEF UseBounded
    <3>2. resv[c.res].keys \cup {c.key} \subseteq Key /\ row[p].version + 1 \in Nat
      BY <2>1 DEF ResvRow
    <3> QED
      BY <2>1, <3>1, <3>2 DEF ResvRow
  <2>3. ReservationAfter(p) = [resv EXCEPT ![c.res] = f]
    BY <1>1, <1>4, <2>1 DEF ReservationAfter, Reserved
  <2> HIDE DEF f
  <2> QED
    BY <1>1, <2>1, <2>2, <2>3, WriteReservation
<1>5. CASE Reserved(c)
  <2> DEFINE f == [resv[c.res] EXCEPT !.status = IF Left(row[p]) = c.qty THEN "fulfilled" ELSE "active",
                                      !.used = @ + c.qty, !.version = row[p].version + 1,
                                      !.keys = @ \cup {c.key}]
  <2>1. /\ c.res \in Resv /\ c.key \in Key /\ c.qty \in Nat
        /\ resv[c.res] \in ResvRow /\ row[p].version \in Nat
        /\ row[p] = resv[c.res] /\ row[p].status = "active" /\ Left(row[p]) >= c.qty
    BY <1>1, <1>2, <1>5, CommandFields, RowTypes DEF ResvRow, Reserved, ReservationKept
  <2>2. f \in ResvRow /\ f.used <= f.qty
    <3>1. resv[c.res].used + c.qty <= resv[c.res].qty
      BY <1>1, <2>1 DEF Left, ResvRow
    <3>2. /\ resv[c.res].keys \cup {c.key} \subseteq Key /\ row[p].version + 1 \in Nat
          /\ resv[c.res].used + c.qty \in Nat
      BY <2>1 DEF ResvRow
    <3>3. "fulfilled" \in {"absent", "active"} \cup Outcome /\ "active" \in {"absent", "active"} \cup Outcome
      BY DEF Outcome
    <3> QED
      BY <2>1, <3>1, <3>2, <3>3 DEF ResvRow
  <2>3. ReservationAfter(p) = [resv EXCEPT ![c.res] = f]
    BY <1>1, <1>5, <2>1 DEF ReservationAfter, Reserved
  <2> HIDE DEF f
  <2> QED
    BY <1>1, <2>1, <2>2, <2>3, WriteReservation
<1>6. CASE c.op \notin {"reserve", "release"} /\ ~Reserved(c)
  <2>1. ReservationAfter(p) = resv
    BY <1>6 DEF ReservationAfter
  <2> QED
    BY <1>1, <2>1 DEF UseBounded
<1> QED
  BY <1>3, <1>4, <1>5, <1>6

\* What it writes into the transfers.
LEMMA TransferWritten ==
  ASSUME IInv, NEW p \in Session, pc[p] = "write"
  PROVE  TransferAfter(p) \in [Xfer -> XferRow]
<1> DEFINE c == cmd[p]
<1>1. /\ TypeOK /\ SessionOK(p) /\ pc[p] \in Working /\ c \in Command
      /\ TransferKept(p) /\ xfer \in [Xfer -> XferRow]
  BY DEF IInv, SessionOK, Placed, Working, TypeOK
<1>2. Key = MoveKey \cup EventKey
  BY DEF Key
<1>3. CASE c.op = "create_transfer"
  <2> DEFINE f == [status |-> "draft", src |-> c.src, dst |-> c.dst, qty |-> c.qty,
                   version |-> 1, keys |-> {}]
  <2>1. c.xfer \in Xfer /\ c.src \in Dim /\ c.dst \in Dim /\ c.qty \in Nat
    BY <1>1, <1>3, CommandFields
  <2>2. f \in XferRow
    BY <2>1 DEF XferRow
  <2>3. TransferAfter(p) = [xfer EXCEPT ![c.xfer] = f]
    BY <1>3 DEF TransferAfter
  <2> QED
    BY <1>1, <2>1, <2>2, <2>3, WriteTransfer
<1>4. CASE c.op \in ShiftOp
  <2> DEFINE f == [xfer[c.xfer] EXCEPT !.status = ToStatus[c.op], !.version = row[p].version + 1,
                                       !.keys = @ \cup {c.key}]
  <2>1. /\ c.xfer \in Xfer /\ c.key \in Key /\ xfer[c.xfer] \in XferRow /\ row[p].version \in Nat
    BY <1>1, <1>2, <1>4, CommandFields, RowTypes DEF XferRow, ShiftOp
  <2>2. f \in XferRow
    <3>1. ToStatus[c.op] \in {"absent", "draft", "in_transit", "received", "cancelled"}
      BY <1>4 DEF ToStatus, ShiftOp
    <3>2. xfer[c.xfer].keys \cup {c.key} \subseteq Key /\ row[p].version + 1 \in Nat
      BY <2>1 DEF XferRow
    <3> QED
      BY <2>1, <3>1, <3>2 DEF XferRow
  <2>3. TransferAfter(p) = [xfer EXCEPT ![c.xfer] = f]
    BY <1>1, <1>4, <2>1 DEF TransferAfter, ShiftOp
  <2> HIDE DEF f
  <2> QED
    BY <1>1, <2>1, <2>2, <2>3, WriteTransfer
<1>5. CASE c.op # "create_transfer" /\ c.op \notin ShiftOp
  <2>1. TransferAfter(p) = xfer
    BY <1>5 DEF TransferAfter, ShiftOp
  <2> QED
    BY <1>1, <2>1
<1> QED
  BY <1>3, <1>4, <1>5

\* A commit moves the projection and its evidence by the same amounts.
LEMMA CommitBalances ==
  ASSUME IInv, NEW p \in Session, Commit(p)
  PROVE  /\ ledger' \in [Dim -> Balance] /\ claims' \in [Dim -> Int] /\ balance' \in [Dim -> Balance]
         /\ BalanceIsEvidence' /\ NoOversell'
         /\ \A d \in Dim : d \notin Touched(p) => balance'[d] = balance[d]
         /\ cmd[p].op \notin StockOp => ledger' = ledger /\ claims' = claims
<1>1. /\ TypeOK /\ SessionOK(p) /\ pc[p] \in Working /\ pc[p] = "write"
      /\ ledger \in [Dim -> Balance] /\ claims \in [Dim -> Int] /\ balance \in [Dim -> Balance]
      /\ seen[p] \in [Dim -> Balance]
  BY DEF Commit, IInv, Working, TypeOK
<1>2. \A d \in Dim, col \in Column : Change(p, d, col) \in Int
  BY <1>1, ChangeType
<1>3. ledger' \in [Dim -> Balance]
  BY <1>1, <1>2 DEF Commit, Balance
<1>4. claims' \in [Dim -> Int]
  BY <1>1, <1>2 DEF Commit, Column
<1>5. balance' \in [Dim -> Balance]
  BY <1>1, AfterType DEF Commit
<1>6. \A d \in Dim : d \notin Touched(p) => balance'[d] = balance[d]
  BY DEF Commit
<1>7. ASSUME NEW d \in Dim, NEW col \in Column
      PROVE  balance'[d][col] = balance[d][col] + Change(p, d, col)
  <2>1. CASE d \in Touched(p)
    <3>1. balance'[d] = After(p, d, balance[d])
      BY <1>1, <2>1 DEF Commit, SessionOK, BalancesKept
    <3> QED
      BY <3>1 DEF After
  <2>2. CASE d \notin Touched(p)
    BY <1>1, <1>6, <2>2, ChangeType DEF Balance
  <2> QED
    BY <2>1, <2>2
<1>8. ASSUME NEW d \in Dim
      PROVE  balance'[d] = [ledger'[d] EXCEPT !["reserved"] = claims'[d]]
  <2>1. balance[d] = [ledger[d] EXCEPT !["reserved"] = claims[d]]
    BY DEF IInv, BalanceIsEvidence
  <2>2. "reserved" \in Column
    BY DEF Column
  <2>3. claims'[d] = claims[d] + Change(p, d, "reserved")
    BY DEF Commit
  <2>4. \A col \in Column : col # "reserved" => ledger'[d][col] = ledger[d][col] + Change(p, d, col)
    BY DEF Commit
  <2>5. ASSUME NEW col \in Column
        PROVE  balance'[d][col] = [ledger'[d] EXCEPT !["reserved"] = claims'[d]][col]
    <3>1. ledger[d] \in Balance /\ ledger'[d] \in Balance
      BY <1>1, <1>3
    <3>2. CASE col = "reserved"
      BY <1>7, <2>1, <2>3, <3>1, <3>2 DEF Balance
    <3>3. CASE col # "reserved"
      BY <1>7, <2>1, <2>4, <3>1, <3>3 DEF Balance
    <3> QED
      BY <3>2, <3>3
  <2> QED
    BY <1>3, <1>5, <2>5 DEF Balance
<1>9. NoOversell'
  <2>1. ASSUME NEW d \in Dim PROVE ValidBalance(balance'[d])
    <3>1. CASE d \in Touched(p)
      BY <1>1, <3>1 DEF Commit, SessionOK, BalancesKept
    <3>2. CASE d \notin Touched(p)
      BY <1>6, <3>2 DEF IInv, NoOversell
    <3> QED
      BY <3>1, <3>2
  <2>2. \A b : ValidBalance(b)' = ValidBalance(b)
    BY DEF ValidBalance
  <2> QED
    BY <2>1, <2>2 DEF NoOversell
<1>10. ASSUME cmd[p].op \notin StockOp
       PROVE  ledger' = ledger /\ claims' = claims
  <2>1. \A d \in Dim : d \notin Touched(p)
    BY <1>1, <1>10, DimsTypes
  <2>2. \A d \in Dim, col \in Column : Change(p, d, col) = 0
    BY <1>1, <2>1, ChangeType
  <2>3. \A d \in Dim : ledger'[d] = [col \in Column |-> ledger[d][col] + 0]
    BY <2>2 DEF Commit
  <2>4. ASSUME NEW d \in Dim PROVE ledger'[d] = ledger[d]
    <3>1. ledger[d] \in Balance /\ ledger'[d] = [col \in Column |-> ledger[d][col] + 0]
      BY <1>1, <2>3
    <3>2. \A col \in Column : ledger[d][col] + 0 = ledger[d][col]
      BY <3>1 DEF Balance
    <3>3. ledger'[d] = [col \in Column |-> ledger[d][col]]
      BY <3>1, <3>2
    <3> QED
      BY <3>1, <3>3 DEF Balance
  <2>5. \A d \in Dim : claims'[d] = claims[d]
    BY <1>1, <2>2 DEF Commit, Column
  <2> QED
    BY <1>1, <1>3, <1>4, <2>4, <2>5
<1> QED
  BY <1>3, <1>4, <1>5, <1>6, <1>8, <1>9, <1>10 DEF BalanceIsEvidence

\* The end of a transaction, whatever it did to the tables.
LEMMA FinishSessions ==
  ASSUME IInv, NEW p \in Session, Finish(p)
  PROVE  /\ pc' \in [Session -> Place] /\ cmd' \in [Session -> Command \cup {NoCmd}]
         /\ held' \in [Session -> SUBSET Lock] /\ row' \in [Session -> ResvRow \cup XferRow \cup {NoRow}]
         /\ seen' \in [Session -> [Dim -> Balance]]
         /\ LocksExclude'
         /\ SessionOK(p)'
         /\ \A q \in Session : q # p =>
              /\ pc'[q] = pc[q] /\ cmd'[q] = cmd[q] /\ held'[q] = held[q]
              /\ row'[q] = row[q] /\ seen'[q] = seen[q]
<1>1. LocksExclude'
  BY DropLocks DEF Finish
<1>2. pc'[p] = "idle"
  BY DEF Finish, IInv, TypeOK
<1>3. SessionOK(p)'
  BY <1>2 DEF SessionOK, Placed, BalancesKept, EvidenceKept, Working, Rebuilding
<1>4. [d \in Dim |-> Empty] \in [Dim -> Balance] /\ "idle" \in Place
  BY DEF Empty, Balance, Place
<1> QED
  BY <1>1, <1>3, <1>4 DEF Finish, IInv, TypeOK

\* A commit leaves the reservation another transaction works on as that one read it.
LEMMA OtherReservationKept ==
  ASSUME IInv, NEW p \in Session, Commit(p), NEW q \in Session, q # p, pc[q] \in Working,
         cmd[q].op \in {"reserve", "release"} \/ Reserved(cmd[q])
  PROVE  cmd[q].res \in Resv /\ resv'[cmd[q].res] = resv[cmd[q].res]
<1> DEFINE r == cmd[q].res
           s == cmd[p].res
<1>1. /\ TypeOK /\ LocksExclude /\ SessionOK(p) /\ SessionOK(q)
      /\ pc[p] \in Working /\ cmd[p] \in Command /\ cmd[q] \in Command
      /\ ReservationKept(p) /\ ReservationKept(q) /\ resv' = ReservationAfter(p)
  BY DEF Commit, IInv, SessionOK, Placed, Working
<1>2. r \in Resv
  BY <1>1, CommandFields, RowTypes
<1>3. CASE cmd[p].op \notin {"reserve", "release"} /\ ~Reserved(cmd[p])
  BY <1>1, <1>2, <1>3 DEF ReservationAfter
<1>4. CASE cmd[p].op \in {"reserve", "release"} \/ Reserved(cmd[p])
  <2>1. s \in Resv
    BY <1>1, <1>4, CommandFields, RowTypes
  <2>2. \A t \in Resv : t # s => resv'[t] = resv[t]
    BY <1>1, <1>4, <2>1 DEF ReservationAfter, TypeOK, Reserved
  <2>3. ASSUME r = s PROVE FALSE
    <3>1. CASE cmd[p].op = "reserve" /\ cmd[q].op = "reserve"
      <4>1. OwnLock(cmd[p]) = OwnLock(cmd[q])
        BY <2>3, <3>1 DEF OwnLock
      <4> QED
        BY <1>1, <3>1, <4>1, OwnLockType DEF ReservationKept, LocksExclude
    <3>2. CASE cmd[p].op = "reserve" /\ cmd[q].op # "reserve"
      BY <1>1, <2>3, <3>2 DEF ReservationKept
    <3>3. CASE cmd[p].op # "reserve" /\ cmd[q].op = "reserve"
      BY <1>1, <1>4, <2>3, <3>3 DEF ReservationKept
    <3>4. CASE cmd[p].op # "reserve" /\ cmd[q].op # "reserve"
      <4>1. ResvLock(r) \in held[p] \cap held[q]
        BY <1>1, <1>4, <2>3, <3>4 DEF ReservationKept
      <4> QED
        BY <1>1, <1>2, <4>1, LockTypes DEF LocksExclude
    <3> QED
      BY <3>1, <3>2, <3>3, <3>4
  <2> QED
    BY <1>2, <2>2, <2>3
<1> QED
  BY <1>2, <1>3, <1>4

\* And the transfer.
LEMMA OtherTransferKept ==
  ASSUME IInv, NEW p \in Session, Commit(p), NEW q \in Session, q # p, pc[q] \in Working,
         cmd[q].op = "create_transfer" \/ cmd[q].op \in ShiftOp
  PROVE  cmd[q].xfer \in Xfer /\ xfer'[cmd[q].xfer] = xfer[cmd[q].xfer]
<1> DEFINE x == cmd[q].xfer
           y == cmd[p].xfer
<1>1. /\ TypeOK /\ LocksExclude /\ SessionOK(p) /\ SessionOK(q)
      /\ pc[p] \in Working /\ cmd[p] \in Command /\ cmd[q] \in Command
      /\ TransferKept(p) /\ TransferKept(q) /\ xfer' = TransferAfter(p)
  BY DEF Commit, IInv, SessionOK, Placed, Working
<1>2. x \in Xfer
  BY <1>1, CommandFields DEF ShiftOp
<1>3. CASE cmd[p].op # "create_transfer" /\ cmd[p].op \notin ShiftOp
  BY <1>1, <1>2, <1>3 DEF TransferAfter, ShiftOp
<1>4. CASE cmd[p].op = "create_transfer" \/ cmd[p].op \in ShiftOp
  <2>1. y \in Xfer
    BY <1>1, <1>4, CommandFields DEF ShiftOp
  <2>2. \A t \in Xfer : t # y => xfer'[t] = xfer[t]
    BY <1>1, <1>4, <2>1 DEF TransferAfter, TypeOK, ShiftOp
  <2>3. ASSUME x = y PROVE FALSE
    <3>1. CASE cmd[p].op = "create_transfer" /\ cmd[q].op = "create_transfer"
      <4>1. OwnLock(cmd[p]) = OwnLock(cmd[q])
        BY <2>3, <3>1 DEF OwnLock
      <4> QED
        BY <1>1, <3>1, <4>1, OwnLockType DEF TransferKept, LocksExclude
    <3>2. CASE cmd[p].op = "create_transfer" /\ cmd[q].op \in ShiftOp
      BY <1>1, <2>3, <3>2 DEF TransferKept
    <3>3. CASE cmd[p].op \in ShiftOp /\ cmd[q].op = "create_transfer"
      BY <1>1, <2>3, <3>3 DEF TransferKept
    <3>4. CASE cmd[p].op \in ShiftOp /\ cmd[q].op \in ShiftOp
      <4>1. OwnLock(cmd[p]) = OwnLock(cmd[q])
        BY <2>3, <3>4 DEF OwnLock, ShiftOp
      <4> QED
        BY <1>1, <3>4, <4>1, OwnLockType DEF TransferKept, LocksExclude
    <3> QED
      BY <1>4, <3>1, <3>2, <3>3, <3>4
  <2> QED
    BY <1>2, <2>2, <2>3
<1> QED
  BY <1>2, <1>3, <1>4

\* Nor does it touch the balances and the evidence others have read.
LEMMA OtherSessionOK ==
  ASSUME IInv, NEW p \in Session, Commit(p), NEW q \in Session, q # p
  PROVE  SessionOK(q)'
<1>1. /\ TypeOK /\ LocksExclude /\ SessionOK(p) /\ SessionOK(q)
      /\ pc[p] = "write" /\ pc[p] \in Working /\ cmd[p] \in Command
  BY DEF Commit, IInv, SessionOK, Placed, Working
<1>2. /\ pc'[q] = pc[q] /\ cmd'[q] = cmd[q] /\ held'[q] = held[q]
      /\ row'[q] = row[q] /\ seen'[q] = seen[q]
  BY FinishSessions DEF Commit
<1>3. Placed(q)'
  BY <1>1, <1>2 DEF SessionOK, Placed, DimsOf
<1>4. pc'[q] \in Working => ReservationKept(q)'
  BY <1>1, <1>2, OtherReservationKept DEF SessionOK, ReservationKept
<1>5. pc'[q] \in Working => TransferKept(q)'
  BY <1>1, <1>2, OtherTransferKept DEF SessionOK, TransferKept
<1>6. /\ Touched(q)' = Touched(q)
      /\ \A d, b : After(q, d, b)' = After(q, d, b)
      /\ \A b : ValidBalance(b)' = ValidBalance(b)
  BY <1>2 DEF Touched, DimsOf, After, Change, HeldChange, Posts, ValidBalance
<1>7. BalancesKept(q)'
  <2>1. SUFFICES ASSUME pc[q] = "write", NEW d \in Touched(q)
                 PROVE  seen[q][d] = balance'[d] /\ ValidBalance(After(q, d, seen[q][d]))
    BY <1>2, <1>6 DEF BalancesKept
  <2>2. pc[q] \in Working /\ d \in Dim /\ d \in DimsOf(q)
    BY <1>1, <2>1, DimsTypes DEF Working
  <2>3. d \notin Touched(p)
    <3>1. SUFFICES ASSUME d \in Touched(p) PROVE FALSE
      OBVIOUS
    <3>2. DimLock(d) \in held[q] /\ DimLock(d) \in held[p]
      BY <1>1, <2>1, <2>2, <3>1, DimsTypes DEF SessionOK, Placed
    <3> QED
      BY <1>1, <2>2, <3>2, LockTypes DEF LocksExclude
  <2>4. balance'[d] = balance[d]
    BY <2>2, <2>3, CommitBalances
  <2> QED
    BY <1>1, <2>1, <2>4 DEF SessionOK, BalancesKept
<1>8. EvidenceKept(q)'
  <2>1. CASE pc[q] \in {"claims", "replace"}
    <3>1. Exclusive \in held[q]
      BY <1>1, <2>1 DEF SessionOK, Placed, Rebuilding
    <3>2. cmd[p].op \notin StockOp
      BY <1>1, <3>1 DEF SessionOK, Placed, LocksExclude, Working
    <3>3. Evidence' = Evidence /\ ledger' = ledger
      BY <3>2, CommitBalances DEF Evidence
    <3> QED
      BY <1>1, <1>2, <3>3 DEF SessionOK, EvidenceKept
  <2>2. CASE pc[q] \notin {"claims", "replace"}
    BY <1>2, <2>2 DEF EvidenceKept
  <2> QED
    BY <2>1, <2>2
<1> QED
  BY <1>3, <1>4, <1>5, <1>7, <1>8 DEF SessionOK

LEMMA CommitStep ==
  ASSUME IInv, NEW p \in Session, Commit(p)
  PROVE  IInv'
<1>1. /\ TypeOK /\ SessionOK(p) /\ pc[p] = "write" /\ pc[p] \in Working /\ cmd[p] \in Command
  BY DEF Commit, IInv, SessionOK, Placed, Working
<1>2. movements' \subseteq MovementRow
  BY <1>1, PostsType DEF Commit, TypeOK
<1>3. /\ resv' \in [Resv -> ResvRow] /\ xfer' \in [Xfer -> XferRow] /\ UseBounded'
  BY <1>1, ReservationWritten, TransferWritten DEF Commit, UseBounded
<1>4. lots' \subseteq Lot
  BY <1>1, CommandFields DEF Commit, LotsAfter, TypeOK
<1>5. rebuilds' \subseteq RebuildKey /\ closed' \subseteq Dim
  BY <1>1 DEF Commit, TypeOK
<1>6. TypeOK'
  BY <1>2, <1>3, <1>4, <1>5, FinishSessions, CommitBalances DEF Commit, TypeOK
<1>7. LocksExclude' /\ SessionOK(p)'
  BY FinishSessions DEF Commit
<1>8. \A q \in Session : SessionOK(q)'
  BY <1>7, OtherSessionOK
<1> QED
  BY <1>3, <1>6, <1>7, <1>8, CommitBalances DEF IInv

\* A rebuild writes what is there already.
LEMMA RebuildIsSilent ==
  ASSUME IInv, NEW p \in Session, CommitRebuild(p)
  PROVE  balance' = balance
<1>1. balance' = Evidence
  BY DEF CommitRebuild, IInv, SessionOK, EvidenceKept
<1>2. balance \in [Dim -> Balance] /\ Evidence \in [Dim -> Balance]
  BY EvidenceType DEF IInv, TypeOK
<1>3. \A d \in Dim : Evidence[d] = balance[d]
  BY DEF IInv, BalanceIsEvidence, Evidence
<1> QED
  BY <1>1, <1>2, <1>3

LEMMA CommitRebuildStep ==
  ASSUME IInv, NEW p \in Session, CommitRebuild(p)
  PROVE  IInv'
<1>1. UNCHANGED <<movements, ledger, resv, claims, xfer, lots, closed, balance>>
  BY RebuildIsSilent DEF CommitRebuild
<1>2. cmd[p] \in Command /\ cmd[p].op = "rebuild"
  BY DEF CommitRebuild, IInv, SessionOK, Placed, Rebuilding
<1>3. rebuilds' \subseteq RebuildKey
  BY <1>2, CommandFields DEF CommitRebuild, IInv, TypeOK
<1>4. TypeOK'
  BY <1>1, <1>3, FinishSessions DEF CommitRebuild, IInv, TypeOK
<1>5. LocksExclude' /\ SessionOK(p)'
  BY FinishSessions DEF CommitRebuild
<1>6. ASSUME NEW q \in Session, q # p PROVE SessionOK(q)'
  <2>1. /\ pc'[q] = pc[q] /\ cmd'[q] = cmd[q] /\ held'[q] = held[q]
        /\ row'[q] = row[q] /\ seen'[q] = seen[q]
    BY <1>6, FinishSessions DEF CommitRebuild
  <2> QED
    BY <1>1, <2>1, TablesKept DEF IInv
<1>7. BalanceIsEvidence' /\ NoOversell' /\ UseBounded'
  BY <1>1 DEF IInv, BalanceIsEvidence, NoOversell, UseBounded, ValidBalance
<1> QED
  BY <1>4, <1>5, <1>6, <1>7 DEF IInv

\* Switching a location changes nothing a transaction relies on.
LEMMA SetStatusStep ==
  ASSUME IInv, NEW d \in Closable, SetStatus(d)
  PROVE  IInv'
<1>1. /\ UNCHANGED <<movements, ledger, resv, claims, xfer, lots, rebuilds, balance>>
      /\ UNCHANGED <<pc, cmd, held, row, seen>>
  BY DEF SetStatus, session
<1>2. closed' \subseteq Dim
  BY InventoryAssumption DEF SetStatus, IInv, TypeOK
<1>3. TypeOK' /\ LocksExclude'
  BY <1>1, <1>2 DEF IInv, TypeOK, LocksExclude
<1>4. \A q \in Session : SessionOK(q)'
  BY <1>1, TablesKept DEF IInv
<1>5. BalanceIsEvidence' /\ NoOversell' /\ UseBounded'
  BY <1>1 DEF IInv, BalanceIsEvidence, NoOversell, UseBounded, ValidBalance
<1> QED
  BY <1>3, <1>4, <1>5 DEF IInv

-----------------------------------------------------------------------------
(***************************************************************************)
(* The invariant is inductive.                                             *)
(***************************************************************************)
LEMMA InitHolds ==
  ASSUME Init
  PROVE  IInv
<1>1. TypeOK
  BY ConstantTypes DEF Init, TypeOK, Balance, Empty, Column, ResvRow, XferRow, Place, NoRow
<1>2. LocksExclude
  BY DEF Init, LocksExclude
<1>3. \A p \in Session : SessionOK(p)
  BY DEF Init, SessionOK, Placed, BalancesKept, EvidenceKept, Working, Rebuilding
<1>4. BalanceIsEvidence
  BY DEF Init, BalanceIsEvidence, Empty, Column
<1>5. NoOversell
  BY InventoryAssumption DEF Init, NoOversell, ValidBalance, Empty, Column, Bucket
<1>6. UseBounded
  BY DEF Init, UseBounded
<1> QED
  BY <1>1, <1>2, <1>3, <1>4, <1>5, <1>6 DEF IInv

LEMMA StutterStep ==
  ASSUME IInv, UNCHANGED vars
  PROVE  IInv'
<1>1. /\ UNCHANGED <<movements, ledger, resv, claims, xfer, lots, rebuilds, closed, balance>>
      /\ UNCHANGED <<pc, cmd, held, row, seen>>
  BY DEF vars
<1>2. TypeOK' /\ LocksExclude'
  BY <1>1 DEF IInv, TypeOK, LocksExclude
<1>3. \A q \in Session : SessionOK(q)'
  BY <1>1, TablesKept DEF IInv
<1>4. BalanceIsEvidence' /\ NoOversell' /\ UseBounded'
  BY <1>1 DEF IInv, BalanceIsEvidence, NoOversell, UseBounded, ValidBalance
<1> QED
  BY <1>2, <1>3, <1>4 DEF IInv

LEMMA StepHolds ==
  ASSUME IInv, [Next]_vars
  PROVE  IInv'
<1>1. ASSUME NEW p \in Session, Begin(p) PROVE IInv'
  BY <1>1, BeginStep
<1>2. ASSUME NEW p \in Session, Acquire(p) PROVE IInv'
  <2>1. CASE Replay(p) \/ RefuseRow(p) \/ RefuseReservation(p)
    BY <2>1, FinishStep DEF Replay, RefuseRow, RefuseReservation
  <2>2. CASE Admit(p)
    BY <2>2, AdmitStep
  <2>3. CASE DrawReservation(p)
    BY <2>3, DrawStep
  <2>4. CASE Share(p)
    BY <2>4, ShareStep
  <2>5. CASE LockDimension(p)
    BY <2>5, LockDimensionStep
  <2> QED
    BY <1>2, <2>1, <2>2, <2>3, <2>4, <2>5 DEF Acquire
<1>3. ASSUME NEW p \in Session, Run(p) PROVE IInv'
  <2>1. CASE RefuseBalance(p) \/ Collide(p)
    BY <2>1, FinishStep DEF RefuseBalance, Collide
  <2>2. CASE ReadBalance(p)
    BY <2>2, ReadBalanceStep
  <2>3. CASE ReadMovements(p)
    BY <2>3, ReadMovementsStep
  <2>4. CASE ReadClaims(p)
    BY <2>4, ReadClaimsStep
  <2>5. CASE Commit(p)
    BY <2>5, CommitStep
  <2>6. CASE CommitRebuild(p)
    BY <2>6, CommitRebuildStep
  <2> QED
    BY <1>3, <2>1, <2>2, <2>3, <2>4, <2>5, <2>6 DEF Run
<1>4. ASSUME NEW p \in Session, Abort(p) PROVE IInv'
  BY <1>4, FinishStep DEF Abort
<1>5. ASSUME NEW d \in Closable, SetStatus(d) PROVE IInv'
  BY <1>5, SetStatusStep
<1>6. CASE UNCHANGED vars
  BY <1>6, StutterStep
<1> QED
  BY <1>1, <1>2, <1>3, <1>4, <1>5, <1>6 DEF Next

\* Every reachable state satisfies the inductive invariant.
THEOREM Invariance == Spec => []IInv
<1>1. Init => IInv
  BY InitHolds
<1>2. IInv /\ [Next]_vars => IInv'
  BY StepHolds
<1> QED
  BY <1>1, <1>2, PTL DEF Spec

-----------------------------------------------------------------------------
(***************************************************************************)
(* What it gives.                                                          *)
(***************************************************************************)
\* The tables and the transactions keep their types, for any number of sessions,
\* dimensions, reservations and transfers.
THEOREM TypeCorrect == Spec => []TypeOK
<1>1. IInv => TypeOK
  BY DEF IInv
<1> QED
  BY <1>1, Invariance, PTL

\* A balance row is always the sum of its evidence, whatever runs beside what.
THEOREM ProjectionNeverDrifts == Spec => []BalanceIsEvidence
<1>1. IInv => BalanceIsEvidence
  BY DEF IInv
<1> QED
  BY <1>1, Invariance, PTL

\* No bucket is ever negative or out of range, and no promise without stock.
THEOREM NeverOversold == Spec => []NoOversell
<1>1. IInv => NoOversell
  BY DEF IInv
<1> QED
  BY <1>1, Invariance, PTL

\* What a transaction has read under its locks still stands when it commits.
THEOREM ReadsStayFresh == Spec => []ReadsAreFresh
<1>1. IInv => ReadsAreFresh
  <2>1. SUFFICES ASSUME IInv, NEW p \in Session, pc[p] = "write"
                 PROVE  /\ \A d \in Touched(p) : seen[p][d] = balance[d]
                        /\ cmd[p].op = "release" \/ Reserved(cmd[p]) => row[p] = resv[cmd[p].res]
                        /\ cmd[p].op \in {"dispatch", "receive", "cancel"} => row[p] = xfer[cmd[p].xfer]
    BY DEF ReadsAreFresh
  <2>2. BalancesKept(p) /\ ReservationKept(p) /\ TransferKept(p)
    BY <2>1 DEF IInv, SessionOK, Working
  <2> QED
    BY <2>1, <2>2 DEF BalancesKept, ReservationKept, TransferKept, ShiftOp
<1> QED
  BY <1>1, Invariance, PTL

\* A rebuild beside running commands never changes a balance.
THEOREM RebuildNeverChanges == Spec => RebuildChangesNothing
<1>1. IInv /\ [Next]_vars => [\A p \in Session : CommitRebuild(p) => balance' = balance]_vars
  BY RebuildIsSilent
<1> QED
  BY <1>1, Invariance, PTL DEF Spec, RebuildChangesNothing
=============================================================================
