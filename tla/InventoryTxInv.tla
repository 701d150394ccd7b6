---------------------------- MODULE InventoryTxInv ----------------------------
(***************************************************************************)
(* The inductive invariant of InventoryTx: why its advisory locks make the *)
(* properties true.  TLC checks it on small instances, InventoryTxProofs   *)
(* proves it for every value of the constants.                             *)
(***************************************************************************)
EXTENDS InventoryTx

StockOp == {"move", "receipt", "consume", "return", "reserve", "release", "dispatch", "receive"}
ShiftOp == {"dispatch", "receive", "cancel"}
Working == {"share", "dimension", "balance", "write"}
Rebuilding == {"movements", "claims", "replace"}

\* Two transactions hold one lock only when both share the rebuild lock.
LocksExclude ==
  \A p, q \in Session : p # q =>
    /\ held[p] \cap held[q] \subseteq {Shared}
    /\ Exclusive \in held[p] => Shared \notin held[q]

\* What runs where, and the locks it has taken on the way there.
Placed(p) ==
  /\ pc[p] # "idle" => cmd[p] \in Command
  /\ pc[p] \in Rebuilding => cmd[p].op = "rebuild" /\ Exclusive \in held[p]
  /\ pc[p] = "reservation" => Reserved(cmd[p])
  /\ pc[p] \in Working \ {"write"} => cmd[p].op \in StockOp
  /\ pc[p] = "write" => cmd[p].op # "rebuild"
  /\ pc[p] \in Working \ {"share"} /\ cmd[p].op \in StockOp => Shared \in held[p]
  /\ pc[p] \in {"balance", "write"} => \A d \in DimsOf(p) : DimLock(d) \in held[p]

\* A reservation that is read stays as it was read until the transaction ends.
ReservationKept(p) ==
  /\ cmd[p].op = "reserve" =>
       OwnLock(cmd[p]) \in held[p] /\ resv[cmd[p].res].status = "absent"
  /\ cmd[p].op = "release" \/ Reserved(cmd[p]) =>
       /\ ResvLock(cmd[p].res) \in held[p]
       /\ row[p] = resv[cmd[p].res]
       /\ row[p].status = "active"
  /\ Reserved(cmd[p]) => Left(row[p]) >= cmd[p].qty

\* So does a transfer.
TransferKept(p) ==
  /\ cmd[p].op = "create_transfer" =>
       OwnLock(cmd[p]) \in held[p] /\ xfer[cmd[p].xfer].status = "absent"
  /\ cmd[p].op \in ShiftOp =>
       /\ OwnLock(cmd[p]) \in held[p]
       /\ row[p] = xfer[cmd[p].xfer]
       /\ row[p].status # "absent"

\* So do the balances it is about to change, and the change is still sound.
BalancesKept(p) ==
  pc[p] = "write" =>
    \A d \in Touched(p) : seen[p][d] = balance[d] /\ ValidBalance(After(p, d, seen[p][d]))

Evidence == [d \in Dim |-> [ledger[d] EXCEPT !["reserved"] = claims[d]]]

\* And so does the evidence a rebuild has read so far.
EvidenceKept(p) ==
  /\ pc[p] = "claims" => seen[p] = ledger
  /\ pc[p] = "replace" => seen[p] = Evidence

SessionOK(p) ==
  /\ Placed(p)
  /\ pc[p] \in Working => ReservationKept(p) /\ TransferKept(p)
  /\ BalancesKept(p)
  /\ EvidenceKept(p)

UseBounded == \A r \in Resv : resv[r].used <= resv[r].qty

\* Each part by name: what the locks exclude, what a transaction may rely on between
\* its reads and its commit, and the promises that follow (inventory.service.ts, lock).
IInv ==
  /\ TypeOK
  /\ LocksExclude
  /\ \A p \in Session : SessionOK(p)
  /\ BalanceIsEvidence
  /\ NoOversell
  /\ UseBounded
=============================================================================
