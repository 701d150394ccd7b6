------------------------- MODULE InventoryBookProofs -------------------------
(***************************************************************************)
(* What the inventory service promises its callers, for any number of      *)
(* sessions, dimensions, keys, reservations and transfers: its rows behave *)
(* as one stock book whose commands happen one at a time (ImplementsBook), *)
(* a reservation lives the life its contract allows (ReservationLife), and *)
(* a command that is sent again is not carried out twice, nor refused when *)
(* it is one that answers from its evidence (RetryIsAnswered).             *)
(***************************************************************************)
EXTENDS InventoryTxProofs, MCInventoryTx

Keyed == {"move", "consume", "return"}

\* A transfer is where the command that was admitted wants it, and a reservation that is
\* drawn on is of the command's own dimension.
Entitled(p) ==
  pc[p] \in Working =>
    /\ cmd[p].op \in ShiftOp => row[p].status = FromStatus(cmd[p].op)
    /\ Reserved(cmd[p]) => row[p].dim = cmd[p].dim

\* The movement of an admitted command has not been posted by another one.  A receipt is
\* posted under the lock of its lot and not of its key: where there are receipts the
\* lock of the key does not say so much.
Unposted(p) ==
  pc[p] \in Working \cup {"reservation"} /\ cmd[p].op \in Keyed =>
    OwnLock(cmd[p]) \in held[p] /\ ~Posted(OwnId(cmd[p].key))

\* Nor has the lot been made, or the rebuild been recorded.
Unrecorded(p) ==
  /\ pc[p] \in Working /\ cmd[p].op = "create_lot" => OwnLock(cmd[p]) \in held[p] /\ cmd[p].lot \notin lots
  /\ pc[p] \in Rebuilding => cmd[p].key \notin rebuilds

Sent(p) == pc[p] # "idle" => cmd[p].op \in Ops

Admissions == \A p \in Session : Entitled(p)
Postings == \A p \in Session : Sent(p) /\ Unposted(p) /\ Unrecorded(p)
-----------------------------------------------------------------------------
(***************************************************************************)
(* The life of a reservation.                                              *)
(***************************************************************************)
LEMMA ReservationsWrittenByCommits ==
  ASSUME [Next]_vars, resv' # resv PROVE \E p \in Session : Commit(p)
BY DEF Next, vars, db, session, Begin, Acquire, Run, Replay, RefuseRow, Admit, DrawReservation, RefuseReservation,
       Share, LockDimension, ReadBalance, RefuseBalance, ReadMovements, ReadClaims, Collide, CommitRebuild, Abort, SetStatus

\* A commit that rewrites a reservation is a release of it or a consumption from it.
LEMMA Rewritten ==
  ASSUME IInv, NEW p \in Session, Commit(p), NEW r \in Resv, resv[r].status # "absent", resv'[r] # resv[r]
  PROVE  /\ cmd[p] \in Command
         /\ cmd[p].op = "release" \/ Reserved(cmd[p])
         /\ cmd[p].res = r /\ row[p] = resv[r] /\ row[p].status = "active"
         /\ Reserved(cmd[p]) => Left(row[p]) >= cmd[p].qty
<1>1. /\ pc[p] = "write" /\ pc[p] \in Working /\ SessionOK(p) /\ ReservationKept(p) /\ cmd[p] \in Command
      /\ resv' = ReservationAfter(p) /\ resv \in [Resv -> ResvRow]
  BY DEF Commit, Working, IInv, SessionOK, Placed, TypeOK
<1>2. CASE cmd[p].op = "reserve"
  BY <1>1, <1>2, CommandFields DEF ReservationKept, ReservationAfter, Reserved
<1>3. CASE cmd[p].op = "release" \/ Reserved(cmd[p])
  BY <1>1, <1>3, CommandFields DEF ReservationKept, ReservationAfter, Reserved
<1>4. CASE cmd[p].op \notin {"reserve", "release"} /\ ~Reserved(cmd[p])
  BY <1>1, <1>4 DEF ReservationAfter, Reserved
<1> QED BY <1>2, <1>3, <1>4

\* What such a commit leaves of the reservation.
LEMMA Remains ==
  ASSUME IInv, NEW p \in Session, Commit(p), NEW r \in Resv, resv[r].status # "absent", resv'[r] # resv[r]
  PROVE  /\ resv'[r].dim = resv[r].dim /\ resv'[r].qty = resv[r].qty
         /\ resv'[r].version = resv[r].version + 1
         /\ cmd[p].op = "release" => resv'[r].status = cmd[p].outcome /\ resv'[r].used = resv[r].used
         /\ Reserved(cmd[p]) =>
              /\ resv'[r].status = IF Left(resv[r]) = cmd[p].qty THEN "fulfilled" ELSE "active"
              /\ resv'[r].used = resv[r].used + cmd[p].qty
<1>1. /\ cmd[p].op = "release" \/ Reserved(cmd[p])
      /\ cmd[p].res = r /\ row[p] = resv[r] /\ resv' = ReservationAfter(p)
      /\ resv \in [Resv -> ResvRow] /\ resv[r] \in ResvRow
  BY Rewritten DEF Commit, IInv, TypeOK
<1>2. CASE cmd[p].op = "release"
  <2>1. resv'[r] = [resv[r] EXCEPT !.status = cmd[p].outcome, !.version = row[p].version + 1, !.keys = @ \cup {cmd[p].key}]
    BY <1>1, <1>2 DEF ReservationAfter, Reserved
  <2> QED BY <1>1, <1>2, <2>1 DEF ResvRow, Reserved
<1>3. CASE Reserved(cmd[p])
  <2>1. resv'[r] = [resv[r] EXCEPT !.status = IF Left(row[p]) = cmd[p].qty THEN "fulfilled" ELSE "active",
                      !.used = @ + cmd[p].qty, !.version = row[p].version + 1, !.keys = @ \cup {cmd[p].key}]
    BY <1>1, <1>3 DEF ReservationAfter, Reserved
  <2> QED BY <1>1, <1>3, <2>1 DEF ResvRow, Reserved
<1> QED BY <1>1, <1>2, <1>3

LEMMA LifeStep ==
  ASSUME IInv, [Next]_vars, NEW r \in Resv, resv[r].status # "absent", resv'[r] # resv[r]
  PROVE  /\ resv[r].status = "active"
         /\ resv'[r].status # "absent"
         /\ resv'[r].dim = resv[r].dim /\ resv'[r].qty = resv[r].qty
         /\ resv'[r].version = resv[r].version + 1
         /\ resv'[r].used \in resv[r].used..resv[r].qty
         /\ (resv'[r].used = resv[r].qty) => resv'[r].status # "active"
<1>1. PICK p \in Session : Commit(p)
  BY ReservationsWrittenByCommits
<1>2. /\ resv[r].used \in Nat /\ resv[r].qty \in Nat /\ resv[r].used <= resv[r].qty
  BY DEF IInv, TypeOK, UseBounded, ResvRow
<1>3. CASE cmd[p].op = "release"
  <2>1. cmd[p].outcome \in Outcome
    BY <1>1, <1>3, Rewritten, CommandFields
  <2> QED BY <1>1, <1>2, <1>3, <2>1, Rewritten, Remains DEF Outcome
<1>4. CASE Reserved(cmd[p])
  <2>1. cmd[p].qty \in Nat /\ cmd[p].qty > 0
    BY <1>1, <1>4, Rewritten, CommandFields DEF Reserved
  <2>2. Left(resv[r]) = resv[r].qty - resv[r].used /\ Left(resv[r]) >= cmd[p].qty
    BY <1>1, <1>4, Rewritten DEF Left
  <2> QED BY <1>1, <1>2, <1>4, <2>1, <2>2, Rewritten, Remains
<1> QED BY <1>1, <1>3, <1>4, Rewritten

\* A reservation keeps its terms, is drawn down and never past its quantity, and stays
\* released, cancelled or fulfilled, whatever commands run beside one another.
THEOREM ReservationsLive == Spec => ReservationLife
<1>1. IInv /\ [Next]_vars =>
        [\A r \in Resv : resv[r].status # "absent" /\ resv'[r] # resv[r] =>
           /\ resv[r].status = "active"
           /\ resv'[r].status # "absent"
           /\ resv'[r].dim = resv[r].dim /\ resv'[r].qty = resv[r].qty
           /\ resv'[r].version = resv[r].version + 1
           /\ resv'[r].used \in resv[r].used..resv[r].qty
           /\ (resv'[r].used = resv[r].qty) => resv'[r].status # "active"]_vars
  BY LifeStep
<1> QED BY <1>1, Invariance, PTL DEF Spec, ReservationLife
-----------------------------------------------------------------------------
(***************************************************************************)
(* What the admission of a command found still stands when it is refused   *)
(* or committed.                                                           *)
(***************************************************************************)
\* A session is left alone by the steps of the others, ends, starts a command, is
\* admitted, draws on a reservation, or goes on with the row it has read.
LEMMA SessionMoves ==
  ASSUME IInv, [Next]_vars, NEW q \in Session
  PROVE  \/ pc'[q] = pc[q] /\ cmd'[q] = cmd[q] /\ held'[q] = held[q] /\ row'[q] = row[q]
         \/ pc'[q] = "idle"
         \/ pc'[q] = "own" /\ cmd'[q].op \in Ops
         \/ Admit(q) \/ DrawReservation(q)
         \/ /\ pc[q] \in Working /\ pc'[q] \in Working /\ cmd'[q] = cmd[q]
            /\ held[q] \subseteq held'[q] /\ (cmd[q].op # "release" => row'[q] = row[q])
         \/ pc[q] \in Rebuilding /\ pc'[q] \in Rebuilding /\ cmd'[q] = cmd[q]
<1> DEFINE Same == pc'[q] = pc[q] /\ cmd'[q] = cmd[q] /\ held'[q] = held[q] /\ row'[q] = row[q]
           On == /\ pc[q] \in Working /\ pc'[q] \in Working /\ cmd'[q] = cmd[q]
                 /\ held[q] \subseteq held'[q] /\ (cmd[q].op # "release" => row'[q] = row[q])
           Reads == pc[q] \in Rebuilding /\ pc'[q] \in Rebuilding /\ cmd'[q] = cmd[q]
           Starts == pc'[q] = "own" /\ cmd'[q].op \in Ops
<1>1. /\ pc \in [Session -> Place] /\ cmd \in [Session -> Command \cup {NoCmd}]
      /\ held \in [Session -> SUBSET Lock] /\ row \in [Session -> ResvRow \cup XferRow \cup {NoRow}]
      /\ seen \in [Session -> [Dim -> Balance]]
  BY DEF IInv, TypeOK
<1>2. ASSUME NEW p \in Session, Begin(p) PROVE Same \/ Starts
  BY <1>1, <1>2 DEF Begin
<1>3. ASSUME NEW p \in Session, Finish(p) PROVE Same \/ pc'[q] = "idle"
  BY <1>1, <1>3 DEF Finish
<1>4. ASSUME NEW p \in Session, Acquire(p) PROVE Same \/ pc'[q] = "idle" \/ Admit(q) \/ DrawReservation(q) \/ On
  <2>1. CASE Replay(p) \/ RefuseRow(p) \/ RefuseReservation(p)
    BY <2>1, <1>3 DEF Replay, RefuseRow, RefuseReservation
  <2>2. CASE Admit(p)
    BY <1>1, <2>2 DEF Admit
  <2>3. CASE DrawReservation(p)
    BY <1>1, <2>3 DEF DrawReservation
  <2>4. CASE Share(p)
    BY <1>1, <2>4 DEF Share, Working
  <2>5. CASE LockDimension(p)
    BY <1>1, <2>5 DEF LockDimension, Working
  <2> QED BY <1>4, <2>1, <2>2, <2>3, <2>4, <2>5 DEF Acquire
<1>5. ASSUME NEW p \in Session, Run(p) PROVE Same \/ pc'[q] = "idle" \/ On \/ Reads
  <2>1. CASE ReadBalance(p)
    BY <1>1, <2>1 DEF ReadBalance, Working
  <2>2. CASE RefuseBalance(p) \/ Collide(p) \/ Commit(p) \/ CommitRebuild(p)
    BY <2>2, <1>3 DEF RefuseBalance, Collide, Commit, CommitRebuild
  <2>3. CASE ReadMovements(p)
    BY <1>1, <2>3 DEF ReadMovements, Rebuilding
  <2>4. CASE ReadClaims(p)
    <3>1. CASE Finish(p)
      BY <3>1, <1>3
    <3>2. CASE ~Finish(p)
      BY <1>1, <2>4, <3>2 DEF ReadClaims, Rebuilding
    <3> QED BY <3>1, <3>2
  <2> QED BY <1>5, <2>1, <2>2, <2>3, <2>4 DEF Run
<1>6. ASSUME NEW p \in Session, Abort(p) PROVE Same \/ pc'[q] = "idle"
  BY <1>6, <1>3 DEF Abort
<1>7. CASE UNCHANGED vars \/ \E d \in Closable : SetStatus(d)
  BY <1>7 DEF vars, SetStatus, session
<1> QED BY <1>2, <1>4, <1>5, <1>6, <1>7 DEF Next

LEMMA AdmissionsStep == ASSUME IInv, Admissions, [Next]_vars PROVE Admissions'
<1>1. ASSUME NEW q \in Session, Admit(q), cmd[q].op \in ShiftOp PROVE row'[q].status = FromStatus(cmd[q].op)
  <2>1. xfer[cmd[q].xfer].status = FromStatus(cmd[q].op)
    BY <1>1 DEF Admit, Admissible, ShiftOp
  <2>2. row'[q] = xfer[cmd[q].xfer]
    BY <1>1 DEF Admit, RowOf, ShiftOp, IInv, TypeOK
  <2> QED BY <2>1, <2>2
<1>2. ASSUME NEW q \in Session, DrawReservation(q)
      PROVE  row'[q].dim = cmd[q].dim /\ cmd'[q] = cmd[q] /\ cmd[q].op \notin ShiftOp
  BY <1>2 DEF DrawReservation, Drawable, IInv, TypeOK, SessionOK, Placed, Reserved, ShiftOp
<1>3. ASSUME NEW q \in Session PROVE Entitled(q)'
  <2>1. CASE Admit(q)
    <3>1. pc'[q] = AfterOwn(cmd[q]) /\ cmd'[q] = cmd[q]
      BY <2>1 DEF Admit, IInv, TypeOK
    <3>2. Reserved(cmd[q]) => pc'[q] \notin Working
      BY <3>1 DEF AfterOwn, Reserved, Working
    <3> QED BY <1>1, <2>1, <3>1, <3>2 DEF Entitled, FromStatus, Reserved
  <2>2. CASE DrawReservation(q)
    BY <1>2, <2>2 DEF Entitled
  <2>3. CASE ~Admit(q) /\ ~DrawReservation(q)
    BY <2>3, SessionMoves DEF Admissions, Entitled, Working, Rebuilding, ShiftOp, Reserved, FromStatus
  <2> QED BY <2>1, <2>2, <2>3
<1> QED BY <1>3 DEF Admissions

LEMMA AdmissionsStand == Spec => [](IInv /\ Admissions)
<1>1. Init => Admissions
  BY DEF Init, Admissions, Entitled, Working
<1>2. IInv /\ Admissions /\ [Next]_vars => Admissions'
  BY AdmissionsStep
<1> QED BY <1>1, <1>2, Invariance, PTL DEF Spec

\* Only a command about the key posts the movement of the key.
LEMMA OwnPostings ==
  ASSUME IInv, NEW p \in Session, pc[p] \in Working, NEW k, NEW m \in Posts(p), m.id = OwnId(k)
  PROVE  cmd[p].op \in Keyed \cup {"receipt"} /\ cmd[p].key = k
<1>1. cmd[p] \in Command
  BY RowTypes DEF IInv
<1>2. CASE cmd[p].op \in {"move", "receipt", "return", "consume"}
  BY <1>2 DEF Posts, Movement, OwnId, Keyed
<1>3. CASE cmd[p].op \in {"dispatch", "receive"}
  BY <1>3 DEF Posts, Movement, OwnId, LegId
<1>4. CASE cmd[p].op \notin {"move", "receipt", "return", "consume", "dispatch", "receive"}
  BY <1>4 DEF Posts
<1> QED BY <1>2, <1>3, <1>4

LEMMA MovementsPosted ==
  ASSUME [Next]_vars, movements' # movements
  PROVE  \E p \in Session : Commit(p)
BY DEF Next, vars, db, session, Begin, Acquire, Run, Replay, RefuseRow, Admit, DrawReservation, RefuseReservation,
       Share, LockDimension, ReadBalance, RefuseBalance, ReadMovements, ReadClaims, Collide, CommitRebuild, Abort, SetStatus

LEMMA PostingsKept ==
  ASSUME "receipt" \notin Ops, IInv, Postings, [Next]_vars
  PROVE  \A q \in Session : (Sent(q) /\ Unposted(q))'
<1>1. ASSUME NEW q \in Session PROVE Sent(q)'
  BY <1>1, SessionMoves DEF Sent, Postings, Working, Rebuilding, Admit, Own, DrawReservation
<1>2. ASSUME NEW q \in Session, pc'[q] \in Working \cup {"reservation"}, cmd'[q].op \in Keyed
      PROVE  /\ cmd'[q] = cmd[q] /\ OwnLock(cmd[q]) \in held'[q] /\ ~Posted(OwnId(cmd[q].key))
             /\ ~Admit(q) => pc[q] \in Working \cup {"reservation"} /\ OwnLock(cmd[q]) \in held[q]
  <2>1. CASE Admit(q)
    BY <1>2, <2>1 DEF Admit, Own, Admissible, Keyed, IInv, TypeOK
  <2>2. CASE DrawReservation(q)
    <3>1. cmd'[q] = cmd[q] /\ held[q] \subseteq held'[q] /\ pc[q] = "reservation"
      BY <2>2 DEF DrawReservation, IInv, TypeOK
    <3> QED BY <1>2, <3>1 DEF Postings, Unposted
  <2>3. CASE ~Admit(q) /\ ~DrawReservation(q)
    <3>1. cmd'[q] = cmd[q] /\ pc[q] \in Working \cup {"reservation"} /\ held[q] \subseteq held'[q]
      BY <1>2, <2>3, SessionMoves DEF Working, Rebuilding
    <3> QED BY <1>2, <2>3, <3>1 DEF Postings, Unposted
  <2> QED BY <2>1, <2>2, <2>3
<1>3. ASSUME NEW q \in Session, pc'[q] \in Working \cup {"reservation"}, cmd'[q].op \in Keyed,
             NEW m \in movements', m.id = OwnId(cmd[q].key)
      PROVE  FALSE
  <2>1. m \notin movements
    BY <1>2, <1>3 DEF Posted
  <2>2. PICK p \in Session : Commit(p)
    BY <1>3, <2>1, MovementsPosted
  <2>3. m \in Posts(p) /\ pc[p] = "write" /\ pc[p] \in Working /\ cmd[p].op # "receipt"
    BY <1>3, <2>1, <2>2 DEF Commit, Working, Postings, Sent
  <2>4. cmd[p].op \in Keyed /\ cmd[p].key = cmd[q].key /\ cmd[q].op \in Keyed
    BY <1>2, <1>3, <2>3, OwnPostings
  <2>5. OwnLock(cmd[p]) = OwnLock(cmd[q]) /\ OwnLock(cmd[q]) # Shared
    BY <2>4 DEF OwnLock, Keyed, Shared
  <2>6. OwnLock(cmd[p]) \in held[p]
    BY <2>3, <2>4 DEF Postings, Unposted
  <2>7. p # q /\ ~Admit(q)
    <3>1. pc'[p] = "idle"
      BY <2>2 DEF Commit, Finish, IInv, TypeOK
    <3>2. Admit(q) => pc'[q] # pc[q] /\ movements' = movements
      BY DEF Admit, Own, AfterOwn, db, IInv, TypeOK
    <3> QED BY <1>3, <2>1, <3>1, <3>2 DEF Working
  <2> QED BY <1>2, <1>3, <2>5, <2>6, <2>7 DEF IInv, LocksExclude
<1> QED BY <1>1, <1>2, <1>3 DEF Unposted, Posted, OwnLock, OwnId, ResvLock, Exclusive

LEMMA LotsMade == ASSUME [Next]_vars, lots' # lots PROVE \E p \in Session : Commit(p)
BY DEF Next, vars, db, session, Begin, Acquire, Run, Replay, RefuseRow, Admit, DrawReservation, RefuseReservation,
       Share, LockDimension, ReadBalance, RefuseBalance, ReadMovements, ReadClaims, Collide, CommitRebuild, Abort, SetStatus

LEMMA RebuildsRecorded == ASSUME [Next]_vars, rebuilds' # rebuilds PROVE \E p \in Session : CommitRebuild(p)
BY DEF Next, vars, db, session, Begin, Acquire, Run, Replay, RefuseRow, Admit, DrawReservation, RefuseReservation,
       Share, LockDimension, ReadBalance, RefuseBalance, ReadMovements, ReadClaims, Collide, Commit, Abort, SetStatus

\* The lock of the code keeps a lot from being made twice.
LEMMA LotsStep ==
  ASSUME "receipt" \notin Ops, IInv, Postings, [Next]_vars,
         NEW q \in Session, pc'[q] \in Working, cmd'[q].op = "create_lot"
  PROVE  OwnLock(cmd'[q]) \in held'[q] /\ cmd'[q].lot \notin lots'
<1>1. /\ cmd'[q] = cmd[q] /\ OwnLock(cmd[q]) \in held'[q] /\ cmd[q].lot \notin lots
      /\ ~Admit(q) => pc[q] \in Working /\ OwnLock(cmd[q]) \in held[q]
  <2>1. CASE Admit(q)
    BY <2>1 DEF Admit, Own, Admissible, IInv, TypeOK
  <2>2. CASE DrawReservation(q)
    BY <2>2 DEF DrawReservation, IInv, TypeOK, SessionOK, Placed, Reserved
  <2>3. CASE ~Admit(q) /\ ~DrawReservation(q)
    <3>1. cmd'[q] = cmd[q] /\ pc[q] \in Working /\ held[q] \subseteq held'[q]
      BY <2>3, SessionMoves DEF Working, Rebuilding
    <3> QED BY <2>3, <3>1 DEF Postings, Unrecorded
  <2> QED BY <2>1, <2>2, <2>3
<1>2. ASSUME cmd[q].lot \in lots' PROVE FALSE
  <2>1. PICK p \in Session : Commit(p)
    BY <1>1, <1>2, LotsMade
  <2>2. pc[p] = "write" /\ pc[p] \in Working /\ cmd[p].op # "receipt" /\ lots' = LotsAfter(p)
    BY <2>1 DEF Commit, Working, Postings, Sent
  <2>3. cmd[p].op = "create_lot" /\ cmd[p].lot = cmd[q].lot
    BY <1>1, <1>2, <2>2 DEF LotsAfter
  <2>4. OwnLock(cmd[p]) = OwnLock(cmd[q]) /\ OwnLock(cmd[q]) # Shared
    BY <1>1, <2>3 DEF OwnLock, Shared
  <2>5. OwnLock(cmd[p]) \in held[p]
    BY <2>2, <2>3 DEF Postings, Unrecorded
  <2>6. p # q /\ ~Admit(q)
    <3>1. pc'[p] = "idle"
      BY <2>1 DEF Commit, Finish, IInv, TypeOK
    <3>2. Admit(q) => lots' = lots
      BY DEF Admit, db
    <3> QED BY <1>1, <1>2, <3>1, <3>2 DEF Working
  <2> QED BY <1>1, <2>4, <2>5, <2>6 DEF IInv, LocksExclude
<1> QED BY <1>1, <1>2

\* The exclusive lock keeps a rebuild from being recorded twice.
LEMMA RebuildsStep ==
  ASSUME IInv, Postings, [Next]_vars, NEW q \in Session, pc'[q] \in Rebuilding
  PROVE  cmd'[q].key \notin rebuilds'
<1>1. CASE Admit(q)
  <2>1. cmd'[q] = cmd[q] /\ rebuilds' = rebuilds /\ pc'[q] = AfterOwn(cmd[q]) /\ ~Replayed(cmd[q])
    BY <1>1 DEF Admit, db, IInv, TypeOK
  <2>2. cmd[q].op = "rebuild"
    BY <2>1 DEF AfterOwn, Rebuilding
  <2> QED BY <2>1, <2>2 DEF Replayed
<1>2. CASE ~Admit(q)
  <2>1. cmd'[q] = cmd[q] /\ pc[q] \in Rebuilding
    BY <1>2, SessionMoves DEF Working, Rebuilding, DrawReservation, IInv, TypeOK
  <2>2. ASSUME rebuilds' # rebuilds PROVE FALSE
    <3>1. PICK p \in Session : CommitRebuild(p)
      BY <2>2, RebuildsRecorded
    <3>2. p # q
      BY <3>1 DEF CommitRebuild, Finish, Rebuilding, IInv, TypeOK
    <3>3. Exclusive \in held[p] /\ Exclusive \in held[q]
      BY <2>1, <3>1 DEF CommitRebuild, Rebuilding, IInv, SessionOK, Placed
    <3> QED BY <3>2, <3>3 DEF IInv, LocksExclude, Exclusive, Shared
  <2> QED BY <2>1, <2>2 DEF Postings, Unrecorded
<1> QED BY <1>1, <1>2

LEMMA PostingsStep == ASSUME "receipt" \notin Ops, IInv, Postings, [Next]_vars PROVE Postings'
<1>1. ASSUME NEW q \in Session PROVE Unrecorded(q)'
  <2>1. (pc'[q] \in Working /\ cmd'[q].op = "create_lot") => OwnLock(cmd'[q]) \in held'[q] /\ cmd'[q].lot \notin lots'
    BY <1>1, LotsStep
  <2>2. pc'[q] \in Rebuilding => cmd'[q].key \notin rebuilds'
    BY <1>1, RebuildsStep
  <2> QED BY <2>1, <2>2 DEF Unrecorded, OwnLock, Exclusive, ResvLock
<1> QED BY <1>1, PostingsKept DEF Postings

\* A command that was admitted has had no effect yet.
LEMMA Unapplied ==
  ASSUME "receipt" \notin Ops, IInv, Admissions, Postings, NEW p \in Session, pc[p] \in Working \cup Rebuilding
  PROVE  ~Applied(cmd[p])
<1>1. CASE pc[p] \in Rebuilding
  BY <1>1 DEF Applied, Postings, Unrecorded, IInv, SessionOK, Placed
<1>2. CASE pc[p] \in Working
  <2>1. /\ cmd[p] \in Command /\ SessionOK(p) /\ ReservationKept(p) /\ TransferKept(p)
        /\ Entitled(p) /\ Unposted(p) /\ Unrecorded(p) /\ cmd[p].op \in Ops
        /\ cmd[p].op # "rebuild"
    BY <1>2 DEF Working, IInv, SessionOK, Placed, Admissions, Postings, Sent, StockOp
  <2>2. CASE cmd[p].op \in Keyed
    BY <1>2, <2>1, <2>2 DEF Unposted, Posted, Applied, Movement, Keyed
  <2>3. CASE cmd[p].op = "reserve"
    BY <2>1, <2>3 DEF ReservationKept, Applied
  <2>4. CASE cmd[p].op = "release"
    BY <2>1, <2>4, CommandFields DEF ReservationKept, Applied, Outcome
  <2>5. CASE cmd[p].op \in ShiftOp
    <3>1. Applied(cmd[p]) => xfer[cmd[p].xfer].status = ToStatus[cmd[p].op]
      BY <2>5 DEF Applied, ShiftOp
    <3>2. xfer[cmd[p].xfer].status = FromStatus(cmd[p].op)
      BY <1>2, <2>1, <2>5 DEF TransferKept, Entitled
    <3>3. FromStatus(cmd[p].op) # ToStatus[cmd[p].op]
      BY <2>5 DEF ShiftOp, FromStatus, ToStatus
    <3> QED BY <3>1, <3>2, <3>3
  <2>6. CASE cmd[p].op = "create_transfer"
    BY <2>1, <2>6 DEF TransferKept, Applied
  <2>7. CASE cmd[p].op = "create_lot"
    BY <1>2, <2>1, <2>7 DEF Unrecorded, Applied
  <2>8. cmd[p].op \in Keyed \cup {"reserve", "release", "create_transfer", "create_lot"} \cup ShiftOp
    BY <2>1, CommandFields DEF Keyed, ShiftOp
  <2> QED BY <2>2, <2>3, <2>4, <2>5, <2>6, <2>7, <2>8
<1> QED BY <1>1, <1>2

LEMMA Answered ==
  ASSUME "receipt" \notin Ops, IInv, Admissions, Postings, NEW p \in Session, Applied(cmd[p])
  PROVE  /\ ~Commit(p) /\ ~CommitRebuild(p)
         /\ cmd[p].op \in Answering => ~(RefuseRow(p) \/ RefuseBalance(p) \/ Collide(p))
<1>1. pc[p] \notin Working \cup Rebuilding
  BY Unapplied
<1>2. RefuseRow(p) => cmd[p].op \notin Answering
  BY DEF RefuseRow, Applied, Replayed, Answering
<1> QED BY <1>1, <1>2 DEF Commit, CommitRebuild, RefuseBalance, Collide, Working, Rebuilding

\* Where movements are keyed by their own commands alone, a command sent again is not carried
\* out a second time, however the two deliveries interleave, and one that looks its evidence
\* up is answered from what the first has written.
THEOREM RetriesAnswered == "receipt" \notin Ops /\ Spec => RetryIsAnswered
<1>1. Init => Postings
  BY DEF Init, Postings, Sent, Unposted, Unrecorded, Working, Rebuilding
<1>2. "receipt" \notin Ops /\ IInv /\ Postings /\ [Next]_vars => Postings'
  BY PostingsStep
<1>3. "receipt" \notin Ops /\ IInv /\ Admissions /\ Postings /\ [Next]_vars =>
        [\A p \in Session : pc[p] # "idle" /\ Applied(cmd[p]) =>
           /\ ~Commit(p) /\ ~CommitRebuild(p)
           /\ cmd[p].op \in Answering => ~(RefuseRow(p) \/ RefuseBalance(p) \/ Collide(p))]_vars
  BY Answered
<1>4. "receipt" \notin Ops => ("receipt" \notin Ops)'
  OBVIOUS
<1> QED BY <1>1, <1>2, <1>3, <1>4, AdmissionsStand, PTL DEF Spec, RetryIsAnswered
-----------------------------------------------------------------------------
(***************************************************************************)
(* What a commit does to the rows the stock book is made of.               *)
(***************************************************************************)
Ids == {m.id : m \in movements}

\* A column moves by the movement row posted to it, and stays without one.
LEMMA ColumnPosted ==
  ASSUME NEW p \in Session, NEW d \in Touched(p), NEW b, b # "reserved", NEW m \in Posts(p), m.dim = d, m.bucket = b,
         \A o \in Posts(p) : o.dim = d /\ o.bucket = b => o = m
  PROVE  Change(p, d, b) = m.delta
<1>1. m = CHOOSE o \in Posts(p) : o.dim = d /\ o.bucket = b
  OBVIOUS
<1> QED BY <1>1 DEF Change

LEMMA ColumnKept ==
  ASSUME NEW p \in Session, NEW d, NEW b, b # "reserved", \A o \in Posts(p) : ~(o.dim = d /\ o.bucket = b)
  PROVE  Change(p, d, b) = 0
BY DEF Change

LEMMA Committed ==
  ASSUME IInv, NEW p \in Session, Commit(p)
  PROVE  /\ cmd[p] \in Command /\ pc[p] \in Working /\ SessionOK(p)
         /\ balance \in [Dim -> Balance] /\ balance' \in [Dim -> Balance]
         /\ \A d \in Dim : ValidBalance(balance[d]) /\ ValidBalance(balance'[d])
         /\ \A d \in Dim, b \in Column : balance'[d][b] = balance[d][b] + Change(p, d, b)
         /\ Ids' = Ids \cup {m.id : m \in Posts(p)}
         /\ \A m \in Posts(p) : m.id \notin Ids /\ m.id \in (MoveKey \cup EventKey) \X Leg
         /\ resv' = ReservationAfter(p) /\ xfer' = TransferAfter(p)
<1>1. /\ cmd[p] \in Command /\ pc[p] \in Working /\ SessionOK(p) /\ pc[p] = "write" /\ TypeOK /\ TypeOK'
  BY CommitStep DEF Commit, Working, IInv, SessionOK, Placed
<1>2. balance \in [Dim -> Balance] /\ balance' \in [Dim -> Balance]
  BY <1>1 DEF TypeOK
<1>3. \A d \in Dim : ValidBalance(balance[d]) /\ ValidBalance(balance'[d])
  BY CommitStep DEF IInv, NoOversell, ValidBalance
<1>4. ASSUME NEW d \in Dim, NEW b \in Column PROVE balance'[d][b] = balance[d][b] + Change(p, d, b)
  <2>1. CASE d \in Touched(p)
    <3>1. balance'[d] = After(p, d, balance[d])
      BY <1>1, <2>1 DEF Commit, SessionOK, BalancesKept
    <3> QED BY <3>1 DEF After
  <2>2. CASE d \notin Touched(p)
    <3>1. balance'[d] = balance[d] /\ balance[d][b] \in Int /\ Change(p, d, b) = 0
      BY <1>2, <2>2 DEF Commit, Balance, Change
    <3> QED BY <3>1
  <2> QED BY <2>1, <2>2
<1>5. Ids' = Ids \cup {m.id : m \in Posts(p)}
  BY DEF Commit, Ids
<1>6. \A m \in Posts(p) : m.id \notin Ids
  BY DEF Commit, Collides, Posted, Ids
<1>7. \A m \in Posts(p) : m.id \in (MoveKey \cup EventKey) \X Leg
  BY <1>1, PostsType DEF MovementRow, Key
<1> QED BY <1>1, <1>2, <1>3, <1>4, <1>5, <1>6, <1>7 DEF Commit

\* Adding to one column, and writing one row.
LEMMA ColumnAdded ==
  ASSUME NEW f \in [Dim -> Balance], NEW g \in [Dim -> Balance], NEW d \in Dim, NEW b \in Column, NEW n \in Int,
         g[d][b] = f[d][b] + n, \A e \in Dim, a \in Column : e # d \/ a # b => g[e][a] = f[e][a]
  PROVE  g = [f EXCEPT ![d][b] = @ + n]
<1> DEFINE h == [f EXCEPT ![d][b] = @ + n]
<1>1. h \in [Dim -> Balance]
  BY DEF Balance
<1>2. \A e \in Dim, a \in Column : h[e][a] = g[e][a]
  BY DEF Balance
<1>3. \A e \in Dim : h[e] = g[e]
  BY <1>1, <1>2 DEF Balance
<1> QED BY <1>1, <1>3

\* The stock book's view of a reservation and of a transfer.
Promise(r) == [status |-> resv[r].status, dim |-> resv[r].dim, left |-> Left(resv[r])]
Route(x) == [status |-> xfer[x].status, src |-> xfer[x].src, dst |-> xfer[x].dst, qty |-> xfer[x].qty]
Promises == [r \in Resv |-> Promise(r)]
Routes == [x \in Xfer |-> Route(x)]

LEMMA PromiseWritten ==
  ASSUME NEW r \in Resv, NEW f, Promise(r)' = f, \A s \in Resv : s # r => resv'[s] = resv[s]
  PROVE  Promises' = [Promises EXCEPT ![r] = f]
BY DEF Promises, Promise, Left

LEMMA RouteWritten ==
  ASSUME NEW x \in Xfer, NEW f, Route(x)' = f, \A y \in Xfer : y # x => xfer'[y] = xfer[y]
  PROVE  Routes' = [Routes EXCEPT ![x] = f]
BY DEF Routes, Route

LEMMA ViewsKept ==
  /\ resv' = resv => Promises' = Promises
  /\ xfer' = xfer => Routes' = Routes
BY DEF Promises, Promise, Left, Routes, Route
-----------------------------------------------------------------------------
(***************************************************************************)
(* Each commit is a command of the stock book.                             *)
(***************************************************************************)
OneRow == {"move", "receipt", "return", "consume"}

\* A command with one movement row moves one bucket of its dimension, and what is reserved there.
LEMMA RowPosted ==
  ASSUME IInv, NEW p \in Session, Commit(p), cmd[p].op \in OneRow
  PROVE  \E b \in Bucket, n \in -MaxStock..MaxStock :
           /\ cmd[p].dim \in Dim
           /\ OwnId(cmd[p].key) \in ((MoveKey \cup EventKey) \X Leg) \ Ids /\ Ids' = Ids \cup {OwnId(cmd[p].key)}
           /\ balance'[cmd[p].dim][b] = balance[cmd[p].dim][b] + n
           /\ balance'[cmd[p].dim]["reserved"] = balance[cmd[p].dim]["reserved"] + HeldChange(p)
           /\ \A e \in Dim, a \in Column :
                e # cmd[p].dim \/ a \notin {b, "reserved"} => balance'[e][a] = balance[e][a]
           /\ cmd[p].op = "consume" => b = "physical" /\ n = -cmd[p].qty
<1> DEFINE c == cmd[p]
<1>1. c \in Command /\ c.dim \in Dim /\ Touched(p) = {c.dim}
  BY Committed, CommandFields DEF OneRow, Touched, DimsOf
<1>2. PICK b \in Bucket, n \in Int :
        /\ Posts(p) = {Movement(OwnId(c.key), c.dim, b, n)}
        /\ c.op = "consume" => b = "physical" /\ n = -c.qty
  <2>1. CASE c.op = "move"
    BY <1>1, <2>1, CommandFields DEF Posts
  <2>2. CASE c.op \in {"receipt", "return", "consume"}
    BY <1>1, <2>2, CommandFields DEF Posts, Bucket
  <2> QED BY <2>1, <2>2 DEF OneRow
<1> DEFINE m == Movement(OwnId(c.key), c.dim, b, n)
<1>3. m \in Posts(p) /\ m.id = OwnId(c.key) /\ m.dim = c.dim /\ m.bucket = b /\ m.delta = n /\ \A o \in Posts(p) : o = m
  BY <1>2 DEF Movement
<1> HIDE DEF m
<1>4. b # "reserved" /\ Bucket \subseteq Column /\ "reserved" \in Column
  BY DEF Bucket, Column
<1>5. Change(p, c.dim, b) = n /\ Change(p, c.dim, "reserved") = HeldChange(p)
  <2>1. Change(p, c.dim, b) = m.delta
    BY <1>1, <1>3, <1>4, ColumnPosted
  <2> QED BY <1>1, <1>3, <2>1 DEF Change
<1>6. \A e \in Dim, a \in Column : e # c.dim \/ a \notin {b, "reserved"} => Change(p, e, a) = 0
  BY <1>1, <1>3 DEF Change
<1>7. \A e \in Dim, a \in Column : balance[e][a] \in Int
  BY Committed DEF Balance
<1>8. balance'[c.dim][b] = balance[c.dim][b] + n /\ n \in -MaxStock..MaxStock
  <2>1. balance[c.dim][b] \in 0..MaxStock /\ balance'[c.dim][b] \in 0..MaxStock
    BY <1>1, <1>4, Committed DEF ValidBalance
  <2> QED BY <1>1, <1>4, <1>5, <2>1, Committed, InventoryAssumption
<1>9. balance'[c.dim]["reserved"] = balance[c.dim]["reserved"] + HeldChange(p)
  BY <1>1, <1>4, <1>5, Committed
<1>10. \A e \in Dim, a \in Column : e # c.dim \/ a \notin {b, "reserved"} => balance'[e][a] = balance[e][a]
  BY <1>6, <1>7, Committed
<1>11. OwnId(c.key) \in ((MoveKey \cup EventKey) \X Leg) \ Ids /\ Ids' = Ids \cup {OwnId(c.key)}
  <2>1. {o.id : o \in Posts(p)} = {OwnId(c.key)}
    BY <1>3
  <2>2. Ids' = Ids \cup {o.id : o \in Posts(p)} /\ m.id \notin Ids /\ m.id \in (MoveKey \cup EventKey) \X Leg
    BY <1>3, Committed
  <2> QED BY <1>3, <2>1, <2>2
<1> QED BY <1>1, <1>2, <1>8, <1>9, <1>10, <1>11

\* The state of the stock book and what a commit makes of it.
LEMMA BookVars ==
  /\ Book!vars = <<balance, Ids, Promises, Routes>>
  /\ Book!Column = Column /\ Book!Bucket = Bucket
  /\ \A b : Book!Sound(b) <=> ValidBalance(b)
BY DEF Book!vars, Ids, Promises, Promise, Routes, Route, Book!Column, Book!Bucket, Column, Bucket, Book!Sound, ValidBalance

LEMMA Moves == ASSUME NEW id \in ((MoveKey \cup EventKey) \X Leg) \ Ids, Book!Move(id) PROVE Book!Next
BY DEF Book!Next, Ids

LEMMA PostsOne ==
  ASSUME IInv, NEW p \in Session, Commit(p), cmd[p].op \in OneRow, ~Reserved(cmd[p])
  PROVE  Book!Next
<1>0. PICK d \in Dim, id \in ((MoveKey \cup EventKey) \X Leg) \ Ids : d = cmd[p].dim /\ id = OwnId(cmd[p].key)
  BY RowPosted
<1>1. PICK b \in Bucket, n \in -MaxStock..MaxStock :
           /\ Ids' = Ids \cup {id}
           /\ balance'[d][b] = balance[d][b] + n
           /\ balance'[d]["reserved"] = balance[d]["reserved"] + HeldChange(p)
           /\ \A e \in Dim, a \in Column : e # d \/ a \notin {b, "reserved"} => balance'[e][a] = balance[e][a]
  BY <1>0, RowPosted
<1>2. HeldChange(p) = 0 /\ resv' = resv /\ xfer' = xfer
  <2>1. HeldChange(p) = 0 /\ ReservationAfter(p) = resv
    BY DEF HeldChange, ReservationAfter, OneRow
  <2>2. TransferAfter(p) = xfer
    BY DEF TransferAfter, OneRow
  <2> QED BY <2>1, <2>2, Committed
<1>3. /\ balance \in [Dim -> Balance] /\ balance' \in [Dim -> Balance] /\ ValidBalance(balance'[d])
      /\ b \in Column /\ "reserved" \in Column /\ b # "reserved" /\ n \in Int
  <2>1. b \in Column /\ "reserved" \in Column /\ b # "reserved" /\ n \in Int
    BY InventoryAssumption DEF Column, Bucket
  <2> QED BY <1>1, <2>1, Committed
<1>4. \A e \in Dim, a \in Column : e # d \/ a # b => balance'[e][a] = balance[e][a]
  <2>1. balance[d]["reserved"] \in Int
    BY <1>1, <1>3 DEF Balance
  <2> QED BY <1>1, <1>2, <2>1
<1>5. balance' = [balance EXCEPT ![d][b] = @ + n]
  BY <1>1, <1>3, <1>4, ColumnAdded
<1>6. Book!Post(d, b, n)
  BY <1>2, <1>3, <1>5, ViewsKept, BookVars DEF Book!Post, Book!Add, Promises, Promise, Routes, Route
<1>7. Book!Move(id)
  BY <1>1, <1>6, BookVars DEF Book!Move, Ids
<1> QED BY <1>1, <1>7, Moves

LEMMA SameBook ==
  ASSUME NEW f \in [Dim -> Balance], NEW g \in [Dim -> Balance], \A e \in Dim, a \in Column : g[e][a] = f[e][a]
  PROVE  g = f
<1>1. \A e \in Dim : g[e] = f[e]
  BY DEF Balance
<1> QED BY <1>1

\* Two columns written, of one dimension or of two.
LEMMA ColumnsWritten ==
  ASSUME balance \in [Dim -> Balance], balance' \in [Dim -> Balance],
         NEW d \in Dim, NEW a \in Column, NEW e \in Dim, NEW b \in Column, a # b, NEW m, NEW n,
         balance'[d][a] = m, balance'[e][b] = n,
         \A i \in Dim, c \in Column : (i # d \/ c # a) /\ (i # e \/ c # b) => balance'[i][c] = balance[i][c]
  PROVE  /\ balance' = [balance EXCEPT ![d][a] = m, ![e][b] = n]
         /\ [balance EXCEPT ![d][a] = m][e][b] = balance[e][b]
<1> DEFINE f == [balance EXCEPT ![d][a] = m]
           h == [f EXCEPT ![e][b] = n]
<1>1. m \in Int /\ n \in Int
  BY DEF Balance
<1>2. f \in [Dim -> Balance] /\ \A i \in Dim, c \in Column : f[i][c] = IF i = d /\ c = a THEN m ELSE balance[i][c]
  BY <1>1 DEF Balance
<1> HIDE DEF f
<1>3. h \in [Dim -> Balance] /\ \A i \in Dim, c \in Column : h[i][c] = IF i = e /\ c = b THEN n ELSE f[i][c]
  BY <1>1, <1>2 DEF Balance
<1> HIDE DEF h
<1>4. \A i \in Dim, c \in Column : h[i][c] = balance'[i][c]
  BY <1>2, <1>3
<1>5. h = balance'
  BY <1>3, <1>4, SameBook
<1>6. f[e][b] = balance[e][b]
  BY <1>2
<1> QED BY <1>5, <1>6 DEF h, f

LEMMA PromiseDrawn ==
  ASSUME NEW d, NEW k, NEW l, NEW s
  PROVE  [[[status |-> "active", dim |-> d, left |-> k] EXCEPT !.left = l] EXCEPT !.status = s]
           = [status |-> s, dim |-> d, left |-> l]
<1>1. [[status |-> "active", dim |-> d, left |-> k] EXCEPT !.left = l] = [status |-> "active", dim |-> d, left |-> l]
  OBVIOUS
<1>2. [[status |-> "active", dim |-> d, left |-> l] EXCEPT !.status = s] = [status |-> s, dim |-> d, left |-> l]
  OBVIOUS
<1> QED BY <1>1, <1>2

LEMMA Consumes == ASSUME IInv, Admissions, NEW p \in Session, Commit(p), Reserved(cmd[p]) PROVE Book!Next
<1>0. PICK d \in Dim, id \in ((MoveKey \cup EventKey) \X Leg) \ Ids, r \in Resv, k \in Nat \ {0} :
        /\ d = cmd[p].dim /\ id = OwnId(cmd[p].key) /\ r = cmd[p].res /\ k = cmd[p].qty
        /\ cmd[p].op = "consume"
  <2>1. cmd[p] \in Command /\ cmd[p].op \in OneRow /\ cmd[p].op = "consume"
    BY Committed DEF Reserved, OneRow
  <2> QED BY <2>1, RowPosted, CommandFields DEF Reserved
<1>1. /\ Ids' = Ids \cup {id}
      /\ balance'[d]["physical"] = balance[d]["physical"] + (-k)
      /\ balance'[d]["reserved"] = balance[d]["reserved"] + HeldChange(p)
      /\ \A e \in Dim, a \in Column : e # d \/ a \notin {"physical", "reserved"} => balance'[e][a] = balance[e][a]
  BY <1>0, RowPosted DEF OneRow
<1>2. HeldChange(p) = -k
  BY <1>0 DEF HeldChange
<1>3. /\ balance \in [Dim -> Balance] /\ balance' \in [Dim -> Balance] /\ ValidBalance(balance'[d])
      /\ "physical" \in Column /\ "reserved" \in Column
  <2>1. "physical" \in Column /\ "reserved" \in Column
    BY DEF Column, Bucket
  <2> QED BY <2>1, Committed
<1>4. balance' = [balance EXCEPT ![d]["physical"] = @ - k, ![d]["reserved"] = @ - k]
  <2>1. balance[d]["physical"] \in Int /\ balance[d]["reserved"] \in Int
    BY <1>3 DEF Balance
  <2>2. balance'[d]["physical"] = balance[d]["physical"] - k /\ balance'[d]["reserved"] = balance[d]["reserved"] - k
    BY <1>1, <1>2, <2>1
  <2>3. PICK m \in Int, n \in Int : m = balance'[d]["physical"] /\ n = balance'[d]["reserved"]
    BY <1>3 DEF Balance
  <2>4. \A i \in Dim, c \in Column :
          (i # d \/ c # "physical") /\ (i # d \/ c # "reserved") => balance'[i][c] = balance[i][c]
    BY <1>1
  <2>5. /\ balance' = [balance EXCEPT ![d]["physical"] = m, ![d]["reserved"] = n]
        /\ [balance EXCEPT ![d]["physical"] = m][d]["reserved"] = balance[d]["reserved"]
    BY <1>3, <2>3, <2>4, ColumnsWritten
  <2> QED BY <2>2, <2>3, <2>5
<1>5. /\ resv[r] \in ResvRow /\ resv[r].status = "active" /\ resv[r].dim = d
      /\ Left(resv[r]) >= k /\ Left(resv[r]) = resv[r].qty - resv[r].used /\ row[p] = resv[r]
  <2>1. /\ row[p] = resv[r] /\ row[p].status = "active" /\ Left(row[p]) >= k /\ row[p].dim = d
    BY <1>0 DEF Commit, Working, IInv, SessionOK, ReservationKept, Admissions, Entitled
  <2> QED BY <2>1 DEF IInv, TypeOK, Left
<1>6. /\ xfer' = xfer /\ resv' = ReservationAfter(p) /\ resv \in [Resv -> ResvRow]
  <2>1. TransferAfter(p) = xfer
    BY <1>0 DEF TransferAfter
  <2> QED BY <2>1, Committed DEF IInv, TypeOK
<1>7. /\ \A s \in Resv : s # r => resv'[s] = resv[s]
      /\ resv'[r] = [resv[r] EXCEPT !.status = IF Left(resv[r]) = k THEN "fulfilled" ELSE "active",
                       !.used = @ + k, !.version = resv[r].version + 1, !.keys = @ \cup {cmd[p].key}]
  BY <1>0, <1>5, <1>6 DEF ReservationAfter
<1>8. /\ resv'[r].status = IF Left(resv[r]) = k THEN "fulfilled" ELSE "active"
      /\ resv'[r].dim = d /\ resv'[r].qty = resv[r].qty /\ resv'[r].used = resv[r].used + k
  BY <1>5, <1>7 DEF ResvRow
<1>9. Left(resv[r])' = Left(resv[r]) - k
  BY <1>5, <1>8 DEF Left, ResvRow
<1>10. Promise(r)' = [status |-> IF k = Left(resv[r]) THEN "fulfilled" ELSE "active", dim |-> d, left |-> Left(resv[r]) - k]
  BY <1>8, <1>9 DEF Promise
<1>11. Promises' = [Promises EXCEPT ![r].left = @ - k, ![r].status = IF k = Promises[r].left THEN "fulfilled" ELSE "active"]
  <2> DEFINE f == [status |-> IF k = Left(resv[r]) THEN "fulfilled" ELSE "active", dim |-> d, left |-> Left(resv[r]) - k]
  <2>1. Promises' = [Promises EXCEPT ![r] = f]
    BY <1>7, <1>10, PromiseWritten
  <2>2. Promises[r] = [status |-> "active", dim |-> d, left |-> Left(resv[r])] /\ Promises \in [Resv -> {Promise(s) : s \in Resv}]
    BY <1>5 DEF Promises, Promise
  <2>3. [[Promises[r] EXCEPT !.left = Left(resv[r]) - k] EXCEPT
            !.status = IF k = Left(resv[r]) THEN "fulfilled" ELSE "active"] = f
    <3>1. PICK o : o = IF k = Left(resv[r]) THEN "fulfilled" ELSE "active"
      OBVIOUS
    <3>2. PICK i, j : i = Left(resv[r]) /\ j = Left(resv[r]) - k
      OBVIOUS
    <3>3. Promises[r] = [status |-> "active", dim |-> d, left |-> i]
      BY <2>2, <3>2
    <3>4. [[Promises[r] EXCEPT !.left = j] EXCEPT !.status = o] = [status |-> o, dim |-> d, left |-> j]
      <4>1. [[[status |-> "active", dim |-> d, left |-> i] EXCEPT !.left = j] EXCEPT !.status = o]
              = [status |-> o, dim |-> d, left |-> j]
        BY PromiseDrawn, Zenon
      <4> QED BY <3>3, <4>1
    <3> QED BY <3>1, <3>2, <3>4
  <2>4. Promises[r].left = Left(resv[r])
    BY <2>2
  <2> HIDE DEF f
  <2> QED BY <2>1, <2>2, <2>3, <2>4
<1>12. Book!Consume(r, k)
  <2>1. k \in 1..Left(resv[r])
    BY <1>5, <1>6 DEF ResvRow
  <2>2. Promises[r].status = "active" /\ Promises[r].dim = d /\ Promises[r].left = Left(resv[r])
    BY <1>5 DEF Promises, Promise
  <2>3. Routes' = Routes
    BY <1>6, ViewsKept
  <2> QED BY <1>3, <1>4, <1>11, <2>1, <2>2, <2>3, BookVars DEF Book!Consume, Promises, Promise, Routes, Route
<1>13. k \in 1..MaxStock
  <2>1. balance[d]["physical"] \in 0..MaxStock /\ balance'[d]["physical"] \in 0..MaxStock
    BY <1>3, Committed DEF ValidBalance
  <2> QED BY <1>1, <2>1, InventoryAssumption
<1>14. Book!Move(id)
  BY <1>1, <1>12, <1>13 DEF Book!Move, Ids
<1> QED BY <1>14, Moves

\* A command that posts no movement changes at most what is reserved in its dimension.
LEMMA NothingPosted ==
  ASSUME IInv, NEW p \in Session, Commit(p), Posts(p) = {}
  PROVE  /\ Ids' = Ids
         /\ \A d \in Dim, b \in Column : d \notin Touched(p) \/ b # "reserved" => balance'[d][b] = balance[d][b]
         /\ \A d \in Dim : d \in Touched(p) => balance'[d]["reserved"] = balance[d]["reserved"] + HeldChange(p)
<1>1. Ids' = Ids
  <2>1. Ids' = Ids \cup {m.id : m \in Posts(p)}
    BY Committed, Zenon
  <2>2. {m.id : m \in Posts(p)} = {}
    OBVIOUS
  <2> QED BY <2>1, <2>2
<1>2. \A d \in Dim, b \in Column : balance[d][b] \in Int /\ balance'[d][b] = balance[d][b] + Change(p, d, b)
  BY Committed DEF Balance
<1>3. \A d \in Dim, b \in Column : d \notin Touched(p) \/ b # "reserved" => Change(p, d, b) = 0
  BY DEF Change
<1>4. \A d \in Dim : d \in Touched(p) => Change(p, d, "reserved") = HeldChange(p)
  BY DEF Change
<1> QED BY <1>1, <1>2, <1>3, <1>4 DEF Column

LEMMA ReservedMoved ==
  ASSUME IInv, NEW p \in Session, Commit(p), Posts(p) = {}, NEW d \in Dim, Touched(p) = {d}, NEW n \in Int, HeldChange(p) = n
  PROVE  balance' = [balance EXCEPT ![d]["reserved"] = @ + n] /\ Ids' = Ids /\ ValidBalance(balance'[d])
<1>1. balance \in [Dim -> Balance] /\ balance' \in [Dim -> Balance] /\ "reserved" \in Column
  BY Committed DEF Column
<1> QED BY <1>1, NothingPosted, ColumnAdded, Committed

LEMMA Reserves == ASSUME IInv, NEW p \in Session, Commit(p), cmd[p].op = "reserve" PROVE Book!Next
<1>0. PICK d \in Dim, r \in Resv, k \in 1..MaxStock : d = cmd[p].dim /\ r = cmd[p].res /\ k = cmd[p].qty
  <2>1. cmd[p] \in Command
    BY Committed
  <2>2. cmd[p].dim \in Dim /\ cmd[p].res \in Resv /\ cmd[p].qty \in Nat /\ cmd[p].qty > 0 /\ cmd[p].qty <= MaxStock
    BY <2>1, CommandFields
  <2>3. cmd[p].qty \in 1..MaxStock
    BY <2>2, InventoryAssumption
  <2> QED BY <2>2, <2>3
<1>1. k \in Nat /\ k > 0
  BY InventoryAssumption
<1>2. Posts(p) = {} /\ Touched(p) = {d} /\ HeldChange(p) = k
  <2>1. Posts(p) = {}
    BY DEF Posts
  <2>2. Touched(p) = {d}
    BY <1>0 DEF Touched, DimsOf
  <2>3. HeldChange(p) = IF cmd[p].op = "reserve" THEN cmd[p].qty ELSE -Left(row[p])
    BY DEF HeldChange, Reserved
  <2> QED BY <1>0, <2>1, <2>2, <2>3
<1>3. balance' = [balance EXCEPT ![d]["reserved"] = @ + k] /\ Ids' = Ids /\ ValidBalance(balance'[d])
  BY <1>1, <1>2, ReservedMoved
<1>4. balance[d]["physical"] - balance[d]["reserved"] >= k
  <2>1. /\ balance'[d]["physical"] = balance[d]["physical"] /\ balance'[d]["reserved"] = balance[d]["reserved"] + k
        /\ balance[d]["physical"] \in Int /\ balance[d]["reserved"] \in Int
    BY <1>2, NothingPosted, Committed DEF Balance, Column, Bucket
  <2> QED BY <1>1, <1>3, <2>1 DEF ValidBalance
<1>5. resv[r].status = "absent"
  BY <1>0 DEF Commit, Working, IInv, SessionOK, ReservationKept
<1>6. Routes' = Routes
  <2>1. TransferAfter(p) = xfer
    BY <1>0 DEF TransferAfter
  <2> QED BY <2>1, Committed, ViewsKept
<1>7. Promises' = [Promises EXCEPT ![r] = [status |-> "active", dim |-> d, left |-> k]]
  <2>1. resv' = [resv EXCEPT ![r] = [status |-> "active", dim |-> d, qty |-> k, used |-> 0, version |-> 1, keys |-> {}]]
    BY <1>0, Committed DEF ReservationAfter, Reserved
  <2>2. resv'[r] = [status |-> "active", dim |-> d, qty |-> k, used |-> 0, version |-> 1, keys |-> {}]
    BY <2>1 DEF IInv, TypeOK
  <2>3. Promise(r)' = [status |-> "active", dim |-> d, left |-> k]
    BY <1>1, <2>2 DEF Promise, Left
  <2>4. \A s \in Resv : s # r => resv'[s] = resv[s]
    BY <2>1 DEF IInv, TypeOK
  <2> QED BY <2>3, <2>4, PromiseWritten
<1>8. Book!Reserve(r, d, k)
  <2>1. Promises[r].status = "absent"
    BY <1>5 DEF Promises, Promise
  <2> QED BY <1>1, <1>3, <1>4, <1>6, <1>7, <2>1 DEF Book!Reserve, Book!Add, Ids, Promises, Promise, Routes, Route
<1> QED BY <1>1, <1>8 DEF Book!Next

LEMMA Releases == ASSUME IInv, NEW p \in Session, Commit(p), cmd[p].op = "release" PROVE Book!Next
<1>0. PICK r \in Resv, o \in Outcome, d \in Dim, k \in Int :
        /\ o = cmd[p].outcome /\ r = cmd[p].res /\ row[p] = resv[r] /\ d = resv[r].dim /\ k = Left(resv[r])
        /\ resv[r].status = "active" /\ resv[r] \in ResvRow
  <2>1. cmd[p].res \in Resv /\ cmd[p].outcome \in Outcome
    BY Committed, CommandFields
  <2>2. row[p] = resv[cmd[p].res] /\ row[p].status = "active" /\ row[p] \in ResvRow
    BY <2>1 DEF Commit, Working, IInv, SessionOK, ReservationKept, TypeOK
  <2>3. row[p].dim \in Dim /\ Left(row[p]) \in Int
    BY <2>2 DEF ResvRow, Left
  <2> QED BY <2>1, <2>2, <2>3
<1>1. -k \in Int
  OBVIOUS
<1>2. Posts(p) = {} /\ Touched(p) = {d} /\ HeldChange(p) = -k
  <2>1. Posts(p) = {}
    BY DEF Posts
  <2>2. Touched(p) = {d}
    BY <1>0 DEF Touched, DimsOf
  <2>3. HeldChange(p) = IF cmd[p].op = "reserve" THEN cmd[p].qty ELSE -Left(row[p])
    BY DEF HeldChange, Reserved
  <2> QED BY <1>0, <2>1, <2>2, <2>3
<1>3. balance' = [balance EXCEPT ![d]["reserved"] = @ + (-k)] /\ Ids' = Ids
  BY <1>1, <1>2, ReservedMoved
<1>4. Routes' = Routes
  <2>1. TransferAfter(p) = xfer
    BY <1>0 DEF TransferAfter
  <2> QED BY <2>1, Committed, ViewsKept
<1>5. /\ \A s \in Resv : s # r => resv'[s] = resv[s]
      /\ resv'[r] = [resv[r] EXCEPT !.status = o, !.version = resv[r].version + 1, !.keys = @ \cup {cmd[p].key}]
  <2>1. resv' = ReservationAfter(p) /\ resv \in [Resv -> ResvRow]
    BY Committed DEF IInv, TypeOK
  <2> QED BY <1>0, <2>1 DEF ReservationAfter, Reserved
<1>6. Promise(r)' = [status |-> o, dim |-> d, left |-> 0]
  <2>1. resv'[r].status = o /\ resv'[r].dim = d
    BY <1>0, <1>5 DEF ResvRow
  <2> QED BY <2>1 DEF Promise, Left, Outcome
<1>7. Promises[r] = [status |-> "active", dim |-> d, left |-> k]
  BY <1>0 DEF Promises, Promise
<1>8. Promises' = [Promises EXCEPT ![r].status = o, ![r].left = 0]
  <2>1. Promises' = [Promises EXCEPT ![r] = [status |-> o, dim |-> d, left |-> 0]]
    BY <1>5, <1>6, PromiseWritten
  <2>2. [[[status |-> "active", dim |-> d, left |-> k] EXCEPT !.status = o] EXCEPT !.left = 0] = [status |-> o, dim |-> d, left |-> 0]
    <3>1. [[status |-> "active", dim |-> d, left |-> k] EXCEPT !.status = o] = [status |-> o, dim |-> d, left |-> k]
      OBVIOUS
    <3>2. [[status |-> o, dim |-> d, left |-> k] EXCEPT !.left = 0] = [status |-> o, dim |-> d, left |-> 0]
      OBVIOUS
    <3> QED BY <3>1, <3>2
  <2>3. [[Promises[r] EXCEPT !.status = o] EXCEPT !.left = 0] = [status |-> o, dim |-> d, left |-> 0]
    BY <1>7, <2>2
  <2>4. [Promises EXCEPT ![r].status = o][r] = [Promises[r] EXCEPT !.status = o]
    BY DEF Promises
  <2>5. [[Promises EXCEPT ![r].status = o] EXCEPT ![r] = [status |-> o, dim |-> d, left |-> 0]]
          = [Promises EXCEPT ![r] = [status |-> o, dim |-> d, left |-> 0]]
    BY DEF Promises
  <2> QED BY <2>1, <2>3, <2>4, <2>5
<1>9. Book!Release(r, o)
  <2>1. Promises[r].status = "active" /\ Promises[r].dim = d /\ Promises[r].left = k
    BY <1>7
  <2> QED BY <1>3, <1>4, <1>8, <2>1 DEF Book!Release, Book!Add, Ids, Promises, Promise, Routes, Route
<1> QED BY <1>9 DEF Book!Next, Book!Outcome, Outcome

LEMMA Plans == ASSUME IInv, NEW p \in Session, Commit(p), cmd[p].op = "create_transfer" PROVE Book!Next
<1>0. PICK x \in Xfer, s \in Dim, d \in Dim, k \in 1..MaxStock :
        x = cmd[p].xfer /\ s = cmd[p].src /\ d = cmd[p].dst /\ k = cmd[p].qty /\ s # d
  <2>1. cmd[p] \in Command
    BY Committed
  <2>2. /\ cmd[p].xfer \in Xfer /\ cmd[p].src \in Dim /\ cmd[p].dst \in Dim /\ cmd[p].src # cmd[p].dst
        /\ cmd[p].qty \in Nat /\ cmd[p].qty > 0 /\ cmd[p].qty <= MaxStock
    BY <2>1, CommandFields
  <2>3. cmd[p].qty \in 1..MaxStock
    BY <2>2, InventoryAssumption
  <2> QED BY <2>2, <2>3
<1>1. balance' = balance /\ Ids' = Ids
  <2>1. Posts(p) = {} /\ Touched(p) = {}
    BY DEF Posts, Touched, DimsOf
  <2> QED BY <2>1, NothingPosted, Committed, SameBook
<1>2. Promises' = Promises
  <2>1. ReservationAfter(p) = resv
    BY DEF ReservationAfter, Reserved
  <2> QED BY <2>1, Committed, ViewsKept
<1>3. xfer[x].status = "absent"
  BY <1>0 DEF Commit, Working, IInv, SessionOK, TransferKept
<1>4. Routes' = [Routes EXCEPT ![x] = [status |-> "draft", src |-> s, dst |-> d, qty |-> k]]
  <2>1. xfer' = [xfer EXCEPT ![x] = [status |-> "draft", src |-> s, dst |-> d, qty |-> k, version |-> 1, keys |-> {}]]
    BY <1>0, Committed DEF TransferAfter
  <2>2. xfer'[x] = [status |-> "draft", src |-> s, dst |-> d, qty |-> k, version |-> 1, keys |-> {}]
    BY <2>1 DEF IInv, TypeOK
  <2>3. Route(x)' = [status |-> "draft", src |-> s, dst |-> d, qty |-> k]
    BY <2>2 DEF Route
  <2>4. \A y \in Xfer : y # x => xfer'[y] = xfer[y]
    BY <2>1 DEF IInv, TypeOK
  <2> QED BY <2>3, <2>4, RouteWritten
<1>5. Book!Plan(x, s, d, k)
  <2>1. Routes[x].status = "absent" /\ k > 0
    BY <1>3, InventoryAssumption DEF Routes, Route
  <2> QED BY <1>0, <1>1, <1>2, <1>4, <2>1 DEF Book!Plan, Ids, Promises, Promise, Routes, Route
<1> QED BY <1>5 DEF Book!Next

Shift(p, x, s, d, k) ==
  /\ row[p] = xfer[x] /\ row[p].src = s /\ row[p].dst = d /\ row[p].qty = k
  /\ Routes[x] = [status |-> FromStatus(cmd[p].op), src |-> s, dst |-> d, qty |-> k]
  /\ Routes' = [Routes EXCEPT ![x].status = ToStatus[cmd[p].op]]
  /\ Promises' = Promises

\* A transfer that moves on keeps its dimensions and its quantity.
LEMMA Shifted ==
  ASSUME IInv, Admissions, NEW p \in Session, Commit(p), cmd[p].op \in ShiftOp
  PROVE  \E x \in Xfer, s \in Dim, d \in Dim, k \in Nat : Shift(p, x, s, d, k)
<1>1. PICK x \in Xfer : x = cmd[p].xfer
  BY Committed, CommandFields DEF ShiftOp
<1>2. row[p] = xfer[x] /\ xfer \in [Xfer -> XferRow] /\ xfer[x] \in XferRow /\ xfer[x].status = FromStatus(cmd[p].op)
  BY <1>1 DEF Commit, Working, IInv, TypeOK, SessionOK, TransferKept, Admissions, Entitled
<1>3. PICK s \in Dim, d \in Dim, k \in Nat : xfer[x].src = s /\ xfer[x].dst = d /\ xfer[x].qty = k
  BY <1>2 DEF XferRow
<1>4. Routes[x] = [status |-> FromStatus(cmd[p].op), src |-> s, dst |-> d, qty |-> k]
  BY <1>2, <1>3 DEF Routes, Route
<1>5. /\ \A y \in Xfer : y # x => xfer'[y] = xfer[y]
      /\ xfer'[x] = [xfer[x] EXCEPT !.status = ToStatus[cmd[p].op], !.version = xfer[x].version + 1, !.keys = @ \cup {cmd[p].key}]
  <2>1. xfer' = TransferAfter(p)
    BY Committed
  <2> QED BY <1>1, <1>2, <2>1 DEF TransferAfter, ShiftOp
<1>6. Route(x)' = [status |-> ToStatus[cmd[p].op], src |-> s, dst |-> d, qty |-> k]
  <2>1. xfer'[x].status = ToStatus[cmd[p].op] /\ xfer'[x].src = s /\ xfer'[x].dst = d /\ xfer'[x].qty = k
    BY <1>2, <1>3, <1>5 DEF XferRow
  <2> QED BY <2>1 DEF Route
<1>7. Routes' = [Routes EXCEPT ![x].status = ToStatus[cmd[p].op]]
  <2>1. PICK u, v : u = FromStatus(cmd[p].op) /\ v = ToStatus[cmd[p].op]
    OBVIOUS
  <2>2. Routes' = [Routes EXCEPT ![x] = [status |-> v, src |-> s, dst |-> d, qty |-> k]]
    BY <1>5, <1>6, <2>1, RouteWritten
  <2>3. [[status |-> u, src |-> s, dst |-> d, qty |-> k] EXCEPT !.status = v] = [status |-> v, src |-> s, dst |-> d, qty |-> k]
    OBVIOUS
  <2>4. Routes[x] = [status |-> u, src |-> s, dst |-> d, qty |-> k]
    BY <1>4, <2>1
  <2>5. [Routes[x] EXCEPT !.status = v] = [status |-> v, src |-> s, dst |-> d, qty |-> k]
    BY <2>3, <2>4
  <2> QED BY <2>1, <2>2, <2>5
<1>8. Promises' = Promises
  <2>1. ReservationAfter(p) = resv
    BY DEF ReservationAfter, Reserved, ShiftOp
  <2> QED BY <2>1, Committed, ViewsKept
<1> QED BY <1>2, <1>3, <1>4, <1>7, <1>8 DEF Shift

LEMMA Cancels == ASSUME IInv, Admissions, NEW p \in Session, Commit(p), cmd[p].op = "cancel" PROVE Book!Next
<1>1. PICK x \in Xfer :
        /\ Routes[x].status = "draft" /\ Routes' = [Routes EXCEPT ![x].status = "cancelled"] /\ Promises' = Promises
  <2>1. FromStatus(cmd[p].op) = "draft" /\ ToStatus[cmd[p].op] = "cancelled" /\ cmd[p].op \in ShiftOp
    BY DEF FromStatus, ToStatus, ShiftOp
  <2>2. PICK x \in Xfer, s \in Dim, d \in Dim, k \in Nat : Shift(p, x, s, d, k)
    BY <2>1, Shifted
  <2>3. Routes[x].status = "draft" /\ Routes' = [Routes EXCEPT ![x].status = "cancelled"]
    BY <2>1, <2>2 DEF Shift
  <2> QED BY <2>2, <2>3 DEF Shift
<1>2. balance' = balance /\ Ids' = Ids
  <2>1. Posts(p) = {} /\ Touched(p) = {}
    BY DEF Posts, Touched, DimsOf
  <2> QED BY <2>1, NothingPosted, Committed, SameBook
<1>3. Book!Cancel(x)
  BY <1>1, <1>2 DEF Book!Cancel, Ids, Promises, Promise, Routes, Route
<1> QED BY <1>3 DEF Book!Next

\* The two legs of a step move one column each, whatever their dimensions.
LEMMA LegsPosted ==
  ASSUME IInv, NEW p \in Session, Commit(p), cmd[p].op \in {"dispatch", "receive"},
         NEW m, NEW n, Posts(p) = {m, n}, NEW i \in Int, NEW j \in Int,
         NEW s \in Dim, NEW d \in Dim, NEW a \in Bucket, NEW b \in Bucket, a # b,
         m.dim = s, m.bucket = a, m.delta = i, n.dim = d, n.bucket = b, n.delta = j, m.id # n.id,
         s \in Touched(p), d \in Touched(p)
  PROVE  /\ balance' = [balance EXCEPT ![s][a] = @ + i, ![d][b] = @ + j]
         /\ ValidBalance(balance'[s]) /\ ValidBalance(balance'[d])
         /\ Book!PostLegs
<1>1. a \in Column /\ b \in Column /\ a # "reserved" /\ b # "reserved"
  BY DEF Bucket, Column
<1>2. Change(p, s, a) = i
  BY <1>1, ColumnPosted
<1>3. Change(p, d, b) = j
  BY <1>1, ColumnPosted
<1>4. HeldChange(p) = 0
  BY DEF HeldChange, Reserved
<1>5. \A e \in Dim, c \in Column : (e # s \/ c # a) /\ (e # d \/ c # b) => Change(p, e, c) = 0
  BY <1>4 DEF Change
<1>6. /\ balance \in [Dim -> Balance] /\ balance' \in [Dim -> Balance]
      /\ \A e \in Dim, c \in Column : balance[e][c] \in Int /\ balance'[e][c] = balance[e][c] + Change(p, e, c)
  BY Committed DEF Balance
<1>7. balance'[s][a] = balance[s][a] + i /\ balance'[d][b] = balance[d][b] + j
  BY <1>1, <1>2, <1>3, <1>6
<1>8. \A e \in Dim, c \in Column : (e # s \/ c # a) /\ (e # d \/ c # b) => balance'[e][c] = balance[e][c]
  BY <1>5, <1>6
<1>9. PICK u \in Int, v \in Int : u = balance[s][a] + i /\ v = balance[d][b] + j
  BY <1>1, <1>6
<1>10. /\ balance' = [balance EXCEPT ![s][a] = u, ![d][b] = v]
       /\ [balance EXCEPT ![s][a] = u][d][b] = balance[d][b]
  BY <1>1, <1>6, <1>7, <1>8, <1>9, ColumnsWritten
<1>11. balance' = [balance EXCEPT ![s][a] = @ + i, ![d][b] = @ + j]
  BY <1>9, <1>10
<1>12. Book!PostLegs
  <2>1. Ids' = Ids \cup {m.id, n.id}
    <3>1. Ids' = Ids \cup {o.id : o \in Posts(p)}
      BY Committed
    <3>2. {o.id : o \in Posts(p)} = {m.id, n.id}
      OBVIOUS
    <3> QED BY <3>1, <3>2
  <2>2. m.id \in ((MoveKey \cup EventKey) \X Leg) \ Ids /\ n.id \in ((MoveKey \cup EventKey) \X Leg) \ Ids
    BY Committed
  <2> QED BY <2>1, <2>2 DEF Book!PostLegs, Ids
<1>13. ValidBalance(balance'[s]) /\ ValidBalance(balance'[d])
  BY Committed
<1> QED BY <1>11, <1>12, <1>13

LEMMA Dispatches == ASSUME IInv, Admissions, NEW p \in Session, Commit(p), cmd[p].op = "dispatch" PROVE Book!Next
<1>1. PICK x \in Xfer, s \in Dim, d \in Dim, k \in Nat :
        /\ row[p].src = s /\ row[p].dst = d /\ row[p].qty = k
        /\ Routes[x] = [status |-> "draft", src |-> s, dst |-> d, qty |-> k]
        /\ Routes' = [Routes EXCEPT ![x].status = "in_transit"] /\ Promises' = Promises
  <2>1. FromStatus(cmd[p].op) = "draft" /\ ToStatus[cmd[p].op] = "in_transit" /\ cmd[p].op \in ShiftOp
    BY DEF FromStatus, ToStatus, ShiftOp
  <2>2. PICK x \in Xfer, s \in Dim, d \in Dim, k \in Nat : Shift(p, x, s, d, k)
    BY <2>1, Shifted
  <2> QED BY <2>1, <2>2 DEF Shift
<1>2. PICK m, n : /\ m = Movement(LegId(cmd[p].key, "source-debit"), s, "physical", -k)
                  /\ n = Movement(LegId(cmd[p].key, "transit-credit"), d, "in_transit", k)
  OBVIOUS
<1>3. Posts(p) = {m, n} /\ Touched(p) = {s, d}
  <2>1. Posts(p) = {m, n}
    BY <1>1, <1>2 DEF Posts
  <2>2. Touched(p) = {s, d}
    BY <1>1 DEF Touched, DimsOf
  <2> QED BY <2>1, <2>2
<1>4. /\ m.dim = s /\ m.bucket = "physical" /\ m.delta = -k /\ n.dim = d /\ n.bucket = "in_transit" /\ n.delta = k
      /\ m.id # n.id
  BY <1>2 DEF Movement, LegId
<1>5. /\ balance' = [balance EXCEPT ![s]["physical"] = @ + (-k), ![d]["in_transit"] = @ + k]
      /\ ValidBalance(balance'[s]) /\ ValidBalance(balance'[d])
      /\ Book!PostLegs
  <2>1. -k \in Int /\ k \in Int /\ "physical" \in Bucket /\ "in_transit" \in Bucket
    BY DEF Bucket
  <2> QED BY <1>3, <1>4, <2>1, LegsPosted
<1>6. Book!Dispatch(x)
  <2>1. Routes[x].status = "draft" /\ Routes[x].src = s /\ Routes[x].dst = d /\ Routes[x].qty = k
    BY <1>1
  <2>2. balance[s]["physical"] \in Int
    BY Committed DEF Balance, Column, Bucket
  <2>3. balance' = [balance EXCEPT ![s]["physical"] = @ - k, ![d]["in_transit"] = @ + k]
    BY <1>5, <2>2
  <2> QED BY <1>1, <1>5, <2>1, <2>3, BookVars DEF Book!Dispatch, Ids, Promises, Promise, Routes, Route
<1> QED BY <1>6 DEF Book!Next

LEMMA Arrives == ASSUME IInv, Admissions, NEW p \in Session, Commit(p), cmd[p].op = "receive" PROVE Book!Next
<1>1. PICK x \in Xfer, d \in Dim, k \in Nat :
        /\ row[p].dst = d /\ row[p].qty = k
        /\ Routes[x].status = "in_transit" /\ Routes[x].dst = d /\ Routes[x].qty = k
        /\ Routes' = [Routes EXCEPT ![x].status = "received"] /\ Promises' = Promises
  <2>1. FromStatus(cmd[p].op) = "in_transit" /\ ToStatus[cmd[p].op] = "received" /\ cmd[p].op \in ShiftOp
    BY DEF FromStatus, ToStatus, ShiftOp
  <2>2. PICK x \in Xfer, s \in Dim, d \in Dim, k \in Nat : Shift(p, x, s, d, k)
    BY <2>1, Shifted
  <2>3. Routes[x].status = "in_transit" /\ Routes[x].dst = d /\ Routes[x].qty = k
    BY <2>1, <2>2 DEF Shift
  <2> QED BY <2>1, <2>2, <2>3 DEF Shift
<1>2. PICK m, n : /\ m = Movement(LegId(cmd[p].key, "transit-debit"), d, "in_transit", -k)
                  /\ n = Movement(LegId(cmd[p].key, "destination-credit"), d, "physical", k)
  OBVIOUS
<1>3. Posts(p) = {m, n} /\ Touched(p) = {d}
  <2>1. Posts(p) = {m, n}
    BY <1>1, <1>2 DEF Posts
  <2>2. Touched(p) = {d}
    BY <1>1 DEF Touched, DimsOf
  <2> QED BY <2>1, <2>2
<1>4. /\ m.dim = d /\ m.bucket = "in_transit" /\ m.delta = -k /\ n.dim = d /\ n.bucket = "physical" /\ n.delta = k
      /\ m.id # n.id
  BY <1>2 DEF Movement, LegId
<1>5. /\ balance' = [balance EXCEPT ![d]["in_transit"] = @ + (-k), ![d]["physical"] = @ + k]
      /\ ValidBalance(balance'[d])
      /\ Book!PostLegs
  <2>1. -k \in Int /\ k \in Int /\ "physical" \in Bucket /\ "in_transit" \in Bucket
    BY DEF Bucket
  <2>2. PICK s \in Dim, a \in Bucket, b \in Bucket, i \in Int, j \in Int :
          s = d /\ a = "in_transit" /\ b = "physical" /\ i = -k /\ j = k
    BY <2>1
  <2>3. s \in Touched(p) /\ d \in Touched(p) /\ a # b /\ cmd[p].op \in {"dispatch", "receive"}
    BY <1>3, <2>2
  <2>4. /\ m.dim = s /\ m.bucket = a /\ m.delta = i /\ n.dim = d /\ n.bucket = b /\ n.delta = j
        /\ m.id # n.id /\ Posts(p) = {m, n}
    BY <1>3, <1>4, <2>2
  <2>5. /\ balance' = [balance EXCEPT ![s][a] = @ + i, ![d][b] = @ + j]
        /\ ValidBalance(balance'[d])
        /\ Book!PostLegs
    BY <2>3, <2>4, LegsPosted
  <2> QED BY <2>2, <2>5
<1>6. Book!Arrive(x)
  <2>1. balance[d]["in_transit"] \in Int
    BY Committed DEF Balance, Column, Bucket
  <2>2. balance' = [balance EXCEPT ![d]["in_transit"] = @ - k, ![d]["physical"] = @ + k]
    BY <1>5, <2>1
  <2> QED BY <1>1, <1>5, <2>2, BookVars DEF Book!Arrive, Ids, Promises, Promise, Routes, Route
<1> QED BY <1>6 DEF Book!Next

LEMMA CreatesLot == ASSUME IInv, NEW p \in Session, Commit(p), cmd[p].op = "create_lot" PROVE UNCHANGED Book!vars
<1>1. balance' = balance /\ Ids' = Ids
  <2>1. Posts(p) = {} /\ Touched(p) = {}
    BY DEF Posts, Touched, DimsOf
  <2> QED BY <2>1, NothingPosted, Committed, SameBook
<1>2. ReservationAfter(p) = resv /\ TransferAfter(p) = xfer
  BY DEF ReservationAfter, TransferAfter, Reserved
<1>3. Promises' = Promises /\ Routes' = Routes
  BY <1>2, Committed, ViewsKept
<1> QED BY <1>1, <1>3 DEF Book!vars, Ids, Promises, Promise, Routes, Route

LEMMA BookUntouched == ASSUME UNCHANGED <<movements, balance, resv, xfer>> PROVE UNCHANGED Book!vars
BY DEF Book!vars, Left

LEMMA BookStep == ASSUME IInv, Admissions, [Next]_vars PROVE Book!Next \/ UNCHANGED Book!vars
<1>1. ASSUME NEW p \in Session, Commit(p) PROVE Book!Next \/ UNCHANGED Book!vars
  <2>1. cmd[p] \in Command /\ cmd[p].op # "rebuild"
    BY <1>1, Committed DEF Commit, IInv, SessionOK, Placed
  <2> QED BY <1>1, <2>1, CommandFields, PostsOne, Consumes, Reserves, Releases, Plans, Cancels, Dispatches, Arrives,
             CreatesLot DEF OneRow
<1>2. ASSUME NEW p \in Session, CommitRebuild(p) PROVE UNCHANGED <<movements, balance, resv, xfer>>
  BY <1>2, RebuildIsSilent DEF CommitRebuild
<1>3. CASE ~\E p \in Session : Commit(p) \/ CommitRebuild(p)
  BY <1>3, BookUntouched DEF Next, vars, db, session, Begin, Acquire, Run, Replay, RefuseRow, Admit, DrawReservation,
       RefuseReservation, Share, LockDimension, ReadBalance, RefuseBalance, ReadMovements, ReadClaims, Collide, Abort, SetStatus
<1> QED BY <1>1, <1>2, <1>3, BookUntouched

\* Sessions, locks, rebuilds and switched-off locations are invisible: the committed rows
\* behave as one stock book whose commands happen one at a time.
THEOREM InventoryImplementsBook == Spec => ImplementsBook
<1>1. Init => Book!Init
  <2>1. ASSUME Init PROVE Book!Init
    <3>1. Promises = [r \in Resv |-> [status |-> "absent", dim |-> AnyDim, left |-> 0]]
      BY <2>1 DEF Init, Promises, Promise, Left
    <3>2. Routes = [x \in Xfer |-> [status |-> "absent", src |-> AnyDim, dst |-> AnyDim, qty |-> 0]]
      BY <2>1 DEF Init, Routes, Route
    <3>3. Ids = {} /\ balance = [d \in Dim |-> Empty]
      BY <2>1 DEF Init, Ids
    <3>4. Book!Empty = Empty
      BY BookVars DEF Book!Empty, Empty
    <3> QED BY <3>1, <3>2, <3>3, <3>4, ConstantTypes DEF Book!Init, Ids, Promises, Promise, Routes, Route
  <2> QED BY <2>1
<1>2. IInv /\ Admissions /\ [Next]_vars => [Book!Next]_(Book!vars)
  BY BookStep
<1> QED BY <1>1, <1>2, AdmissionsStand, PTL DEF Spec, ImplementsBook, Book!Spec
=============================================================================
