---------------------------- MODULE SettlementProofs ----------------------------
(***************************************************************************)
(* Theorems about Settlement, for every set of requests, members and        *)
(* contributors, every face and rate, and every number of errors, crashes   *)
(* and expired keys.                                                        *)
(***************************************************************************)
EXTENDS Settlement, SplitProofs, SumProofs

-----------------------------------------------------------------------------
(* Type correctness                                                         *)

\* The face is the sum of the contributions.
LEMMA FaceIsSum == Face = SumOf(Contribution, Contributors) /\ Face \in Nat
<1>1. Face = SumOf(Contribution, Contributors)
  BY DEF Face, Total, SumOf
<1>2. SumOf(Contribution, Contributors) \in Nat
  BY SumNat, AmountAssumption
<1> QED
  BY <1>1, <1>2

\* A leg of the plan is never a negative amount (planSettleLegs).
LEMMA LegAmountNat ==
    ASSUME NEW l \in Legs, NEW pool \in SUBSET Members
    PROVE  LegAmount(l, pool) \in Nat
<1> DEFINE n == Cardinality(pool)
<1>1. n \in Nat
  BY FS_Subset, FS_CardinalityType, AmountAssumption
<1>2. /\ FeeAtomic(Face, FeeBps) \in Nat
      /\ WinnerAtomic(Face, n, FeeBps, PoolBps, MaxPaid) \in Nat
      /\ ShareAtomic(Face, n, FeeBps, PoolBps, MaxPaid) \in Nat
  BY <1>1, SplitConserves, FaceIsSum, AmountAssumption
<1>3. WINNER # FEE /\ WINNER # REFUND /\ FEE # REFUND
  BY DEF WINNER, FEE, REFUND
<1>4. CASE l = WINNER
  BY <1>2, <1>3, <1>4, LegsAssumption DEF LegAmount
<1>5. CASE l = FEE
  BY <1>2, <1>3, <1>5, LegsAssumption DEF LegAmount
<1>6. CASE l \in Members
  BY <1>2, <1>6, LegsAssumption DEF LegAmount
<1>7. CASE l = REFUND
  BY <1>3, <1>7, FaceIsSum, LegsAssumption DEF LegAmount
<1>8. CASE l \in Contributors
  BY <1>8, AmountAssumption, LegsAssumption DEF LegAmount
<1> QED
  BY <1>4, <1>5, <1>6, <1>7, <1>8 DEF Legs, PayoutLegs, RefundLegs

LEMMA PlannedType ==
    ASSUME NEW pool \in SUBSET Members
    PROVE  Planned(pool) \subseteq PayoutLegs
  BY DEF Planned, PayoutLegs

LEMMA TransferType ==
    ASSUME TypeOK, NEW l \in Legs, NEW a \in Nat, Transfer(l, a)
    PROVE  /\ keys' \in [Legs -> SUBSET Nat]
           /\ chain' \in [Legs -> [n: Nat, amt: Nat]]
<1>1. keys' \in [Legs -> SUBSET Nat]
  BY DEF TypeOK, Transfer
<1>2. chain' \in [Legs -> [n: Nat, amt: Nat]]
  BY DEF TypeOK, Transfer
<1> QED
  BY <1>1, <1>2

\* The rows that ensurePendingLegs and syncEscrowHashesOntoLedger leave.
LEMMA SyncedType ==
    ASSUME TypeOK, NEW r \in Requests
    PROVE  Synced(req[r]) \in [PayoutLegs -> Row]
<1> DEFINE q == req[r]
           rows == Inserted(q)
<1>1. q.pool \in SUBSET Members /\ q.winnerRow \in BOOLEAN
  BY DEF TypeOK, Request
<1>2. ASSUME NEW l \in PayoutLegs
      PROVE  [st |-> "pending", tx |-> FALSE, amt |-> LegAmount(l, q.pool),
              bound |-> l = WINNER /\ q.winnerRow] \in Row
  <2>1. LegAmount(l, q.pool) \in Nat
    BY <1>1, LegAmountNat DEF Legs
  <2> QED
    BY <1>1, <2>1 DEF Row
<1>3. ledger \in [PayoutLegs -> Row]
  BY DEF TypeOK
<1>4. rows \in [PayoutLegs -> Row]
  BY <1>2, <1>3 DEF Inserted
<1> HIDE DEF rows
<1>5. \A l \in PayoutLegs :
        /\ rows[l] \in Row
        /\ [rows[l] EXCEPT !.st = "confirmed", !.tx = TRUE] \in Row
  BY <1>4 DEF Row
<1>6. Synced(q) = [l \in PayoutLegs |->
           IF /\ (l = WINNER /\ q.payout) \/ (l = FEE /\ q.fee)
              /\ l \in Planned(q.pool) /\ RowFound(rows, q, l) /\ ~ rows[l].tx
           THEN [rows[l] EXCEPT !.st = "confirmed", !.tx = TRUE]
           ELSE rows[l]]
  BY DEF Synced, rows
<1> QED
  BY <1>5, <1>6

LEMMA TypeInit == Init => TypeOK
<1> SUFFICES ASSUME NEW claimed \in {"none", "eligible"},
                    NEW freeze \in SUBSET (Members \cup {WinnerRow}),
                    Start(claimed, freeze)
             PROVE  TypeOK
  BY DEF Init, InitOpen, InitMerged
<1>1. ledger \in [PayoutLegs -> Row]
  BY DEF Start, NoRow, Row
<1>2. req \in [Requests -> Request]
  BY DEF Start, Idle, Request, PCs, Ops, RefundOps, EscrowStatus, Legs, PayoutLegs
<1> QED
  BY <1>1, <1>2 DEF Start, TypeOK, BountyStatus, EscrowStatus

LEMMA IdleType == Idle \in Request
  BY DEF Idle, Request, PCs, Ops, RefundOps, EscrowStatus, Legs, PayoutLegs

LEMMA MoveType ==
    ASSUME req \in [Requests -> Request], NEW r \in Requests
    PROVE  /\ Return(r) => req' \in [Requests -> Request]
           /\ \A pc \in PCs : Goto(r, pc) => req' \in [Requests -> Request]
<1>1. Return(r) => req' \in [Requests -> Request]
  BY IdleType DEF Return
<1>2. ASSUME NEW pc \in PCs, Goto(r, pc)
      PROVE  req' \in [Requests -> Request]
  <2>1. req[r] \in Request
    OBVIOUS
  <2>2. [req[r] EXCEPT !.pc = pc] \in Request
    BY <2>1 DEF Request
  <2> QED
    BY <1>2, <2>2 DEF Goto
<1> QED
  BY <1>1, <1>2

LEMMA EscrowFailType ==
    ASSUME TypeOK, PersistEscrowFail
    PROVE  escrow' \in [status: EscrowStatus, payoutTx: BOOLEAN, feeTx: BOOLEAN,
                        refundTx: BOOLEAN, fail: BOOLEAN]
  BY DEF TypeOK, PersistEscrowFail

LEMMA ErrorsType ==
    ASSUME TypeOK
    PROVE  errors + 1 \in Nat /\ crashes + 1 \in Nat
  BY DEF TypeOK

\* Each step of settleEscrow keeps the types.
LEMMA SettleReadType ==
    ASSUME TypeOK, NEW r \in Requests, NEW op \in SettleOps,
           NEW reachable \in SUBSET Members, SettleRead(r, op, reachable)
    PROVE  TypeOK'
<1>1. req' \in [Requests -> Request]
  <2> DEFINE pool == frozen \cap Members
             todo == req'[r].todo
  <2>1. req \in [Requests -> Request] /\ Idle \in Request
    BY IdleType DEF TypeOK
  <2>2. pool \in SUBSET Members /\ Planned(pool) \subseteq Legs
    BY PlannedType DEF Legs
  <2>3. /\ escrow.status \in EscrowStatus /\ escrow.payoutTx \in BOOLEAN
        /\ escrow.feeTx \in BOOLEAN /\ escrow.fail \in BOOLEAN
        /\ (WinnerRow \in frozen) \in BOOLEAN
    BY DEF TypeOK
  <2>4. "settle.read" \in PCs /\ op \in Ops
    BY DEF PCs, Ops
  <2> QED
    BY <2>1, <2>2, <2>3, <2>4 DEF SettleRead, Request
<1> QED
  BY <1>1 DEF SettleRead, TypeOK

LEMMA SettleStepType ==
    ASSUME TypeOK, NEW r \in Requests, SettleStep(r)
    PROVE  TypeOK'
<1>1. req \in [Requests -> Request] /\ req[r] \in Request /\ Idle \in Request
  BY IdleType DEF TypeOK
<1>2. CASE SettleRailDown(r)
  <2>1. req' \in [Requests -> Request]
    BY <1>1, <1>2, MoveType DEF SettleRailDown
  <2> QED
    BY <1>2, <2>1, EscrowFailType, ErrorsType DEF SettleRailDown, TypeOK
<1>3. CASE SettleNotCovered(r)
  <2>1. req' \in [Requests -> Request]
    BY <1>1, <1>3, MoveType DEF SettleNotCovered
  <2> QED
    BY <1>3, <2>1 DEF SettleNotCovered, TypeOK
<1>4. CASE SettleEnter(r)
  <2>1. req' \in [Requests -> Request]
    BY <1>1, <1>4, MoveType DEF SettleEnter, PCs
  <2> QED
    BY <1>4, <2>1 DEF SettleEnter, TypeOK, BountyStatus
<1>5. CASE SettleEnterEscrow(r)
  <2>1. req' \in [Requests -> Request]
    BY <1>1, <1>5, MoveType DEF SettleEnterEscrow, PCs
  <2> QED
    BY <1>5, <2>1 DEF SettleEnterEscrow, TypeOK, EscrowStatus
<1>6. CASE PrepareLegs(r)
  <2>1. ledger' \in [PayoutLegs -> Row]
    BY <1>6, SyncedType DEF PrepareLegs
  <2>2. req' \in [Requests -> Request]
    BY <1>1, <1>6 DEF PrepareLegs, Request, PCs
  <2> QED
    BY <1>6, <2>1, <2>2 DEF PrepareLegs, TypeOK
<1>7. ASSUME NEW l \in PayoutLegs, SubmitLeg(r, l)
      PROVE  TypeOK'
  <2>1. req' \in [Requests -> Request]
    BY <1>1, <1>7 DEF SubmitLeg, Request, PCs, Legs
  <2>2. ledger' \in [PayoutLegs -> Row]
    BY <1>7 DEF SubmitLeg, TypeOK, Row
  <2> QED
    BY <1>7, <2>1, <2>2 DEF SubmitLeg, TypeOK
<1>8. ASSUME NEW l \in PayoutLegs, LegNotCovered(r, l)
      PROVE  TypeOK'
  <2>1. req' \in [Requests -> Request]
    BY <1>1, <1>8, MoveType DEF LegNotCovered
  <2> QED
    BY <1>8, <2>1 DEF LegNotCovered, TypeOK
<1>9. CASE SendLeg(r)
  <2>1. req[r].leg \in Legs /\ req[r].pool \in SUBSET Members
    BY <1>1 DEF Request
  <2>2. keys' \in [Legs -> SUBSET Nat] /\ chain' \in [Legs -> [n: Nat, amt: Nat]]
    BY <1>9, <2>1, LegAmountNat, TransferType DEF SendLeg
  <2>3. req' \in [Requests -> Request]
    BY <1>1, <1>9, MoveType DEF SendLeg, PCs
  <2> QED
    BY <1>9, <2>2, <2>3 DEF SendLeg, TypeOK
<1>10. CASE ConfirmLeg(r)
  <2>1. req' \in [Requests -> Request]
    BY <1>1, <1>10 DEF ConfirmLeg, Request, PCs
  <2>2. ledger' \in [PayoutLegs -> Row]
    <3>1. \A row \in Row : [row EXCEPT !.st = "confirmed", !.tx = TRUE] \in Row
      BY DEF Row
    <3>2. ledger \in [PayoutLegs -> Row]
      BY DEF TypeOK
    <3> QED
      BY <1>10, <3>1, <3>2 DEF ConfirmLeg
  <2> QED
    BY <1>10, <2>1, <2>2 DEF ConfirmLeg, TypeOK
<1>11. CASE RecordLeg(r)
  <2>1. req' \in [Requests -> Request]
    <3>1. WINNER \in Legs /\ "settle.next" \in PCs
      BY DEF Legs, PayoutLegs, PCs
    <3>2. \A q \in Request, l \in Legs :
            [q EXCEPT !.pc = "settle.next", !.todo = @ \ {l}, !.leg = WINNER] \in Request
      BY <3>1 DEF Request
    <3>3. req[r].leg \in Legs
      BY <1>1 DEF Request
    <3> QED
      BY <1>1, <1>11, <3>2, <3>3 DEF RecordLeg
  <2> QED
    BY <1>11, <2>1 DEF RecordLeg, TypeOK
<1>12. CASE LegError(r)
  <2>1. req' \in [Requests -> Request]
    <3>1. WINNER \in Legs /\ "settle.next" \in PCs
      BY DEF Legs, PayoutLegs, PCs
    <3>2. \A q \in Request, l \in Legs :
            [q EXCEPT !.pc = "settle.next", !.todo = @ \ {l}, !.leg = WINNER,
                      !.lastFail = TRUE] \in Request
      BY <3>1 DEF Request
    <3>3. req[r].leg \in Legs
      BY <1>1 DEF Request
    <3> QED
      BY <1>1, <1>12, <3>2, <3>3 DEF LegError
  <2>2. ledger' \in [PayoutLegs -> Row]
    BY <1>12 DEF LegError, TypeOK, Row
  <2> QED
    BY <1>12, <2>1, <2>2, EscrowFailType, ErrorsType DEF LegError, TypeOK
<1>13. CASE SettleTally(r)
  <2>1. req' \in [Requests -> Request]
    BY <1>1, <1>13 DEF SettleTally, Request, PCs
  <2> QED
    BY <1>13, <2>1 DEF SettleTally, TypeOK
<1>14. CASE SettleFinish(r)
  <2>1. req' \in [Requests -> Request]
    BY <1>1, <1>14, MoveType DEF SettleFinish
  <2>2. /\ req[r].term \in {"settled", "settled_partial"}
        /\ req[r].payout \in BOOLEAN /\ req[r].fee \in BOOLEAN
    BY <1>1 DEF Request
  <2> QED
    BY <1>14, <2>1, <2>2 DEF SettleFinish, TypeOK, BountyStatus, EscrowStatus
<1> QED
  BY <1>2, <1>3, <1>4, <1>5, <1>6, <1>7, <1>8, <1>9, <1>10, <1>11, <1>12, <1>13,
     <1>14 DEF SettleStep

LEMMA RefundReadType ==
    ASSUME TypeOK, NEW r \in Requests, NEW op \in RefundOps, RefundRead(r, op)
    PROVE  TypeOK'
<1>1. req' \in [Requests -> Request]
  <2>1. req \in [Requests -> Request] /\ Idle \in Request /\ escrow.refundTx \in BOOLEAN
    BY IdleType DEF TypeOK
  <2>2. "refund.read" \in PCs /\ op \in Ops
    BY DEF PCs, Ops
  <2>3. RefundLegs \in SUBSET Legs
    BY DEF Legs
  <2>4. ~ SingleRefund => RefundLegs = Contributors
    BY DEF RefundLegs
  <2> QED
    BY <2>1, <2>2, <2>3, <2>4 DEF RefundRead, Request
<1> QED
  BY <1>1 DEF RefundRead, TypeOK

\* Each step of refundEscrow keeps the types, given that the contribution it
\* marks is one (RequestHashes).
LEMMA RefundStepType ==
    ASSUME TypeOK, NEW r \in Requests, RefundStep(r),
           req[r].pc = "refund.mark" => req[r].leg \in Contributors
    PROVE  TypeOK'
<1>1. req \in [Requests -> Request] /\ req[r] \in Request /\ Idle \in Request
  BY IdleType DEF TypeOK
<1>2. CASE RefundNotCovered(r)
  <2>1. req' \in [Requests -> Request]
    BY <1>1, <1>2, MoveType DEF RefundNotCovered
  <2> QED
    BY <1>2, <2>1 DEF RefundNotCovered, TypeOK
<1>3. CASE RefundEnter(r)
  <2>1. req' \in [Requests -> Request]
    BY <1>1, <1>3, MoveType DEF RefundEnter, PCs
  <2> QED
    BY <1>3, <2>1 DEF RefundEnter, TypeOK, BountyStatus
<1>4. CASE RefundEnterEscrow(r)
  <2>1. req' \in [Requests -> Request]
    BY <1>1, <1>4, MoveType DEF RefundEnterEscrow, PCs
  <2> QED
    BY <1>4, <2>1 DEF RefundEnterEscrow, TypeOK, EscrowStatus
<1>5. ASSUME NEW l \in RefundLegs, RefundCheck(r, l)
      PROVE  TypeOK'
  <2>1. req' \in [Requests -> Request]
    BY <1>1, <1>5 DEF RefundCheck, Request, PCs, Legs
  <2> QED
    BY <1>5, <2>1 DEF RefundCheck, TypeOK
<1>6. ASSUME NEW l \in RefundLegs, RefundLegNotCovered(r, l)
      PROVE  TypeOK'
  <2>1. req' \in [Requests -> Request]
    BY <1>1, <1>6, MoveType DEF RefundLegNotCovered
  <2> QED
    BY <1>6, <2>1 DEF RefundLegNotCovered, TypeOK
<1>7. CASE RefundSend(r)
  <2>1. req[r].leg \in Legs /\ {} \in SUBSET Members
    BY <1>1 DEF Request
  <2>2. keys' \in [Legs -> SUBSET Nat] /\ chain' \in [Legs -> [n: Nat, amt: Nat]]
    BY <1>7, <2>1, LegAmountNat, TransferType DEF RefundSend
  <2>3. req' \in [Requests -> Request]
    <3>1. WINNER \in Legs /\ {"refund.next", "refund.mark"} \subseteq PCs
      BY DEF Legs, PayoutLegs, PCs
    <3> QED
      BY <1>1, <1>7, <3>1 DEF RefundSend, Request
  <2> QED
    BY <1>7, <2>2, <2>3 DEF RefundSend, TypeOK
<1>8. CASE RefundMark(r)
  <2>1. req' \in [Requests -> Request]
    <3>1. WINNER \in Legs /\ "refund.next" \in PCs
      BY DEF Legs, PayoutLegs, PCs
    <3> QED
      BY <1>1, <1>8, <3>1 DEF RefundMark, Request
  <2> QED
    BY <1>8, <2>1 DEF RefundMark, TypeOK
<1>9. CASE RefundError(r)
  <2>1. req' \in [Requests -> Request]
    BY <1>1, <1>9, MoveType DEF RefundError
  <2> QED
    BY <1>9, <2>1, ErrorsType DEF RefundError, TypeOK
<1>10. CASE RefundFinish(r)
  <2>1. req' \in [Requests -> Request]
    BY <1>1, <1>10, MoveType DEF RefundFinish
  <2>2. ledger' \in [PayoutLegs -> Row]
    <3>1. \A row \in Row : [row EXCEPT !.st = "failed"] \in Row
      BY DEF Row
    <3>2. ledger \in [PayoutLegs -> Row]
      BY DEF TypeOK
    <3> QED
      BY <1>10, <3>1, <3>2 DEF RefundFinish
  <2> QED
    BY <1>10, <2>1, <2>2 DEF RefundFinish, TypeOK, BountyStatus, EscrowStatus
<1> QED
  BY <1>2, <1>3, <1>4, <1>5, <1>6, <1>7, <1>8, <1>9, <1>10 DEF RefundStep

LEMMA HookStepType ==
    ASSUME TypeOK, HookStep
    PROVE  TypeOK'
<1>1. CASE MarkRead
  BY <1>1 DEF MarkRead, TypeOK
<1>2. CASE MarkEligible
  BY <1>2 DEF MarkEligible, TypeOK
<1>3. CASE MarkSkipped
  BY <1>3 DEF MarkSkipped, TypeOK
<1>4. ASSUME NEW eligible \in SUBSET Members, FreezeRead(eligible)
      PROVE  TypeOK'
  BY <1>4 DEF FreezeRead, TypeOK
<1>5. ASSUME NEW p \in Members \cup {WinnerRow}, FreezeRow(p)
      PROVE  TypeOK'
  BY <1>5 DEF FreezeRow, TypeOK
<1>6. CASE HookStop
  BY <1>6 DEF HookStop, TypeOK
<1>7. CASE HookCrash
  BY <1>7, ErrorsType DEF HookCrash, TypeOK
<1> QED
  BY <1>1, <1>2, <1>3, <1>4, <1>5, <1>6, <1>7 DEF HookStep

-----------------------------------------------------------------------------
(* The records are backed by transfers                                      *)

LEMMA LegsFacts ==
    /\ WINNER \in Legs /\ FEE \in Legs /\ WINNER \in PayoutLegs /\ FEE \in PayoutLegs
    /\ PayoutLegs \subseteq Legs /\ RefundLegs \subseteq Legs /\ Members \subseteq PayoutLegs
    /\ ~ SingleRefund => RefundLegs = Contributors
    /\ WINNER # FEE /\ RefundLegs \cap PayoutLegs = {}
    /\ FEE \notin Members /\ WINNER \notin Members
<1>1. WINNER # FEE /\ WINNER # REFUND /\ FEE # REFUND
  BY DEF WINNER, FEE, REFUND
<1> QED
  BY <1>1, LegsAssumption DEF Legs, PayoutLegs, RefundLegs

\* Money that has moved stays moved: no handler takes a transfer back.
MovedKept == \A l \in Legs : Moved(l) => Moved(l)'

\* What a step leaves of the rows HashBackedByChain is about.
RowsKept ==
    /\ \A l \in PayoutLegs : ledger'[l].tx = ledger[l].tx
    /\ UNCHANGED <<memberPaid, returned>>
    /\ claim' = "paid" => claim = "paid"
    /\ escrow'.payoutTx = escrow.payoutTx
    /\ escrow'.feeTx = escrow.feeTx
    /\ escrow'.refundTx = escrow.refundTx

OthersKept(r) == \A s \in Requests \ {r} : req'[s] = req[s]

LEMMA ReqUpdate ==
    ASSUME TypeOK, NEW r \in Requests, NEW x, req' = [req EXCEPT ![r] = x]
    PROVE  req'[r] = x /\ OthersKept(r)
  BY DEF TypeOK, OthersKept

LEMMA GotoUpdate ==
    ASSUME TypeOK, NEW r \in Requests, NEW pc \in PCs, Goto(r, pc)
    PROVE  /\ OthersKept(r)
           /\ req'[r].pc = pc
           /\ req'[r].payout = req[r].payout /\ req'[r].fee = req[r].fee
           /\ req'[r].leg = req[r].leg /\ req'[r].todo = req[r].todo
           /\ req'[r].winnerRow = req[r].winnerRow
<1>1. req'[r] = [req[r] EXCEPT !.pc = pc] /\ OthersKept(r)
  BY DEF TypeOK, Goto, OthersKept
<1>2. req[r] \in Request
  BY DEF TypeOK
<1> QED
  BY <1>1, <1>2 DEF Request

LEMMA ReturnUpdate ==
    ASSUME TypeOK, NEW r \in Requests, Return(r)
    PROVE  OthersKept(r) /\ req'[r] = Idle /\ RequestHashes(req[r])'
<1>1. OthersKept(r) /\ req'[r] = Idle
  BY DEF TypeOK, Return, OthersKept
<1> QED
  BY <1>1 DEF RequestHashes, Idle, RefundPCs

LEMMA TransferMoves ==
    ASSUME TypeOK, HashInv, NEW l \in Legs, NEW a \in Nat, Transfer(l, a)
    PROVE  /\ MovedKept /\ Moved(l)'
           /\ \A m \in Legs : keys'[m] # {} => Moved(m)'
           /\ \A m \in Legs \ {l} : Moved(m)' = Moved(m)
<1>1. /\ chain \in [Legs -> [n: Nat, amt: Nat]]
      /\ keys \in [Legs -> SUBSET Nat]
      /\ \A m \in Legs : keys[m] # {} => chain[m].n > 0
  BY DEF TypeOK, HashInv, Moved
<1>2. CASE keys[l] = {}
  <2>1. /\ chain' = [chain EXCEPT ![l] = [n |-> chain[l].n + 1, amt |-> chain[l].amt + a]]
        /\ keys' = [keys EXCEPT ![l] = {a}]
    BY <1>2 DEF Transfer
  <2>2. chain'[l].n = chain[l].n + 1 /\ chain[l].n \in Nat
    BY <1>1, <2>1
  <2>3. \A m \in Legs \ {l} : chain'[m] = chain[m] /\ keys'[m] = keys[m]
    BY <1>1, <2>1
  <2> QED
    BY <1>1, <2>2, <2>3 DEF MovedKept, Moved
<1>3. CASE keys[l] # {}
  <2>1. UNCHANGED <<chain, keys>>
    BY <1>3 DEF Transfer
  <2> QED
    BY <1>1, <1>3, <2>1 DEF MovedKept, Moved
<1> QED
  BY <1>2, <1>3

LEMMA ChainKept ==
    ASSUME UNCHANGED chain
    PROVE  MovedKept /\ \A l \in Legs : Moved(l)' = Moved(l)
  BY DEF MovedKept, Moved

\* A request that did not move keeps what its hashes stand for.
LEMMA OthersHashes ==
    ASSUME TypeOK, HashInv, NEW r \in Requests, MovedKept, OthersKept(r),
           RequestHashes(req[r])'
    PROVE  \A s \in Requests : RequestHashes(req[s])'
<1> SUFFICES ASSUME NEW s \in Requests, s # r
             PROVE  RequestHashes(req[s])'
  OBVIOUS
<1>1. req'[s] = req[s]
  BY DEF OthersKept
<1>2. RequestHashes(req[s]) /\ req[s].leg \in Legs
  BY DEF HashInv, TypeOK, Request
<1> QED
  BY <1>1, <1>2, LegsFacts DEF RequestHashes, MovedKept

LEMMA RowsHashes ==
    ASSUME HashInv, TypeOK, MovedKept, RowsKept
    PROVE  HashBackedByChain'
<1>1. memberPaid \cup returned \subseteq Legs
  BY LegsFacts DEF HashInv, TypeOK
<1>2. HashBackedByChain
  BY DEF HashInv
<1>3. /\ \A l \in PayoutLegs : ledger'[l].tx => Moved(l)'
      /\ \A l \in memberPaid' \cup returned' : Moved(l)'
  BY <1>1, <1>2, LegsFacts DEF HashBackedByChain, MovedKept, RowsKept
<1>4. /\ escrow'.payoutTx => Moved(WINNER)'
      /\ escrow'.feeTx => Moved(FEE)'
      /\ escrow'.refundTx => \A l \in RefundLegs : Moved(l)'
      /\ claim' = "paid" => Moved(WINNER)'
  BY <1>2, LegsFacts DEF HashBackedByChain, MovedKept, RowsKept
<1> QED
  BY <1>3, <1>4 DEF HashBackedByChain

\* A step that touches neither rows nor rail.
LEMMA QuietStep ==
    ASSUME TypeOK, HashInv, NEW r \in Requests, OthersKept(r), RowsKept,
           UNCHANGED <<keys, chain>>, RequestHashes(req[r])'
    PROVE  HashInv'
<1>1. MovedKept /\ \A l \in Legs : Moved(l)' = Moved(l)
  BY ChainKept
<1>2. HashBackedByChain' /\ \A s \in Requests : RequestHashes(req[s])'
  BY <1>1, RowsHashes, OthersHashes
<1> QED
  BY <1>1, <1>2 DEF HashInv, RowsKept

\* syncEscrowHashesOntoLedger confirms a row only for a hash of the escrow.
LEMMA SyncedHashes ==
    ASSUME TypeOK, HashInv, NEW r \in Requests, NEW l \in PayoutLegs,
           Synced(req[r])[l].tx
    PROVE  Moved(l)
<1> DEFINE q == req[r]
           rows == Inserted(q)
<1>1. /\ ledger[l].tx => Moved(l)
      /\ (l = WINNER /\ q.payout) \/ (l = FEE /\ q.fee) => Moved(l)
  BY DEF HashInv, HashBackedByChain, RequestHashes
<1>2. rows[l].tx => ledger[l].tx
  BY DEF Inserted
<1> HIDE DEF rows
<1>3. Synced(q)[l] = IF /\ (l = WINNER /\ q.payout) \/ (l = FEE /\ q.fee)
                        /\ l \in Planned(q.pool) /\ RowFound(rows, q, l) /\ ~ rows[l].tx
                     THEN [rows[l] EXCEPT !.st = "confirmed", !.tx = TRUE]
                     ELSE rows[l]
  BY DEF Synced, rows
<1> QED
  BY <1>1, <1>2, <1>3

\* settleEscrow, step by step.
LEMMA SettleReadHashes ==
    ASSUME TypeOK, HashInv, NEW r \in Requests, NEW op \in SettleOps,
           NEW reachable \in SUBSET Members, SettleRead(r, op, reachable)
    PROVE  HashInv'
<1>1. OthersKept(r)
  BY ReqUpdate DEF SettleRead
<1>2. /\ req'[r].pc = "settle.read"
      /\ req'[r].payout = escrow.payoutTx /\ req'[r].fee = escrow.feeTx
  <2>1. req \in [Requests -> Request]
    BY DEF TypeOK
  <2> QED
    BY <2>1 DEF SettleRead, Idle
<1>3. RequestHashes(req[r])'
  BY <1>2 DEF RequestHashes, RefundPCs, HashInv, HashBackedByChain, SettleRead, Moved
<1>4. RowsKept /\ UNCHANGED <<keys, chain>>
  BY DEF SettleRead, RowsKept
<1> QED
  BY <1>1, <1>3, <1>4, QuietStep

LEMMA PrepareLegsHashes ==
    ASSUME TypeOK, HashInv, NEW r \in Requests, PrepareLegs(r)
    PROVE  HashInv'
<1> DEFINE q == req[r]
           rows == Synced(q)
           hasHash(l) == l \in Planned(q.pool) /\ RowFound(rows, q, l) /\ rows[l].tx
<1>1. MovedKept /\ \A l \in Legs : Moved(l)' = Moved(l)
  BY ChainKept DEF PrepareLegs
<1>2. \A l \in PayoutLegs : rows[l].tx => Moved(l)
  BY SyncedHashes
<1> HIDE DEF rows
<1>3. /\ OthersKept(r)
      /\ req'[r].pc = "settle.next"
      /\ req'[r].payout => q.payout \/ rows[WINNER].tx
      /\ req'[r].fee => q.fee \/ rows[FEE].tx
  <2>1. q \in Request
    BY DEF TypeOK
  <2> DEFINE payout == q.payout \/ hasHash(WINNER)
             fee == q.fee \/ hasHash(FEE)
             todo == {l \in q.todo : /\ RowFound(rows, q, l)
                                     /\ ~ hasHash(l)
                                     /\ l = WINNER => ~ payout
                                     /\ l = FEE => ~ fee}
             x == [q EXCEPT !.pc = "settle.next", !.payout = payout, !.fee = fee,
                            !.todo = todo]
  <2>2. req' = [req EXCEPT ![r] = x]
    BY DEF PrepareLegs, rows
  <2>3. req'[r] = x /\ OthersKept(r)
    <3> HIDE DEF x
    <3> QED
      BY <2>2, ReqUpdate
  <2> HIDE DEF todo
  <2> QED
    BY <2>1, <2>3 DEF Request
<1>4. RequestHashes(q)
  BY DEF HashInv
<1>5. RequestHashes(req[r])'
  BY <1>1, <1>2, <1>3, <1>4, LegsFacts DEF RequestHashes, RefundPCs
<1>6. HashBackedByChain'
  <2>1. ledger' = rows /\ UNCHANGED <<escrow, memberPaid, returned, claim>>
    BY DEF PrepareLegs, rows
  <2>2. HashBackedByChain /\ memberPaid \cup returned \subseteq Legs
    BY LegsFacts DEF HashInv, TypeOK
  <2> QED
    BY <1>1, <1>2, <2>1, <2>2, LegsFacts DEF HashBackedByChain
<1>7. \A s \in Requests : RequestHashes(req[s])'
  BY <1>1, <1>3, <1>5, OthersHashes
<1>8. UNCHANGED <<returned, keys>>
  BY DEF PrepareLegs
<1> QED
  BY <1>1, <1>6, <1>7, <1>8 DEF HashInv

LEMMA SettleStepHashes ==
    ASSUME TypeOK, HashInv, NEW r \in Requests, SettleStep(r)
    PROVE  HashInv'
<1>1. /\ RequestHashes(req[r])
      /\ req \in [Requests -> Request] /\ req[r] \in Request
      /\ ledger \in [PayoutLegs -> Row]
  BY DEF HashInv, TypeOK
<1>2. CASE SettleRailDown(r)
  <2>1. OthersKept(r) /\ RequestHashes(req[r])'
    BY <1>2, ReturnUpdate DEF SettleRailDown
  <2>2. RowsKept
    BY <1>2 DEF SettleRailDown, PersistEscrowFail, RowsKept, TypeOK
  <2> QED
    BY <1>2, <2>1, <2>2, QuietStep DEF SettleRailDown
<1>3. CASE SettleNotCovered(r)
  <2>1. OthersKept(r) /\ RequestHashes(req[r])'
    BY <1>3, ReturnUpdate DEF SettleNotCovered
  <2> QED
    BY <1>3, <2>1, QuietStep DEF SettleNotCovered, RowsKept
<1>4. CASE SettleEnter(r)
  <2>1. PICK pc \in {"settle.entered", "settle.legs"} : Goto(r, pc)
    BY <1>4 DEF SettleEnter
  <2>2. /\ OthersKept(r) /\ req'[r].pc = pc
        /\ req'[r].payout = req[r].payout /\ req'[r].fee = req[r].fee
    BY <2>1, GotoUpdate DEF PCs
  <2>3. RequestHashes(req[r])'
    BY <1>1, <1>4, <2>2, ChainKept, LegsFacts DEF SettleEnter, RequestHashes, RefundPCs
  <2> QED
    BY <1>4, <2>2, <2>3, QuietStep DEF SettleEnter, RowsKept
<1>5. CASE SettleEnterEscrow(r)
  <2>1. /\ OthersKept(r) /\ req'[r].pc = "settle.legs"
        /\ req'[r].payout = req[r].payout /\ req'[r].fee = req[r].fee
    BY <1>5, GotoUpdate DEF SettleEnterEscrow, PCs
  <2>2. RequestHashes(req[r])'
    BY <1>1, <1>5, <2>1, ChainKept, LegsFacts
       DEF SettleEnterEscrow, RequestHashes, RefundPCs
  <2>3. RowsKept
    BY <1>5 DEF SettleEnterEscrow, RowsKept, TypeOK
  <2> QED
    BY <1>5, <2>1, <2>2, <2>3, QuietStep DEF SettleEnterEscrow
<1>6. CASE PrepareLegs(r)
  BY <1>6, PrepareLegsHashes
<1>7. ASSUME NEW l \in PayoutLegs, SubmitLeg(r, l)
      PROVE  HashInv'
  <2>1. /\ OthersKept(r) /\ req'[r].pc = "settle.send" /\ req'[r].leg = l
        /\ req'[r].payout = req[r].payout /\ req'[r].fee = req[r].fee
    BY <1>1, <1>7, ReqUpdate DEF SubmitLeg, Request
  <2>2. RequestHashes(req[r])'
    BY <1>1, <1>7, <2>1, ChainKept, LegsFacts DEF SubmitLeg, RequestHashes, RefundPCs
  <2>3. RowsKept
    BY <1>1, <1>7 DEF SubmitLeg, RowsKept, Row
  <2> QED
    BY <1>7, <2>1, <2>2, <2>3, QuietStep DEF SubmitLeg
<1>8. ASSUME NEW l \in PayoutLegs, LegNotCovered(r, l)
      PROVE  HashInv'
  <2>1. OthersKept(r) /\ RequestHashes(req[r])'
    BY <1>8, ReturnUpdate DEF LegNotCovered
  <2> QED
    BY <1>8, <2>1, QuietStep DEF LegNotCovered, RowsKept
<1>9. CASE SendLeg(r)
  <2>1. /\ req[r].leg \in Legs /\ req[r].leg \in PayoutLegs
        /\ LegAmount(req[r].leg, req[r].pool) \in Nat
    BY <1>1, <1>9, LegAmountNat DEF SendLeg, RequestHashes, Request
  <2>2. /\ OthersKept(r) /\ req'[r].pc = "settle.confirm" /\ req'[r].leg = req[r].leg
        /\ req'[r].payout = req[r].payout /\ req'[r].fee = req[r].fee
    BY <1>9, GotoUpdate DEF SendLeg, PCs
  <2>3. /\ MovedKept /\ \A l \in Legs : l = req[r].leg => Moved(l)'
        /\ \A m \in Legs : keys'[m] # {} => Moved(m)'
    BY <1>9, <2>1, TransferMoves DEF SendLeg
  <2>4. RequestHashes(req[r])'
    BY <1>1, <2>1, <2>2, <2>3, LegsFacts DEF RequestHashes, RefundPCs, MovedKept, Moved
  <2>5. HashBackedByChain' /\ \A s \in Requests : RequestHashes(req[s])'
    <3>1. RowsKept
      BY <1>9 DEF SendLeg, RowsKept
    <3> QED
      BY <3>1, <2>2, <2>3, <2>4, RowsHashes, OthersHashes
  <2> QED
    BY <1>9, <2>3, <2>5 DEF HashInv, SendLeg
<1>10. CASE ConfirmLeg(r)
  <2> DEFINE l == req[r].leg
  <2>1. l \in PayoutLegs /\ l \in Legs /\ Moved(l)
    BY <1>1, <1>10, LegsFacts DEF ConfirmLeg, RequestHashes
  <2>2. /\ OthersKept(r) /\ req'[r].pc = "settle.record" /\ req'[r].leg = l
        /\ req'[r].payout => req[r].payout \/ l = WINNER
        /\ req'[r].fee => req[r].fee \/ l = FEE
    BY <1>1, <1>10, ReqUpdate DEF ConfirmLeg, Request
  <2>3. MovedKept /\ \A m \in Legs : Moved(m)' = Moved(m)
    BY <1>10, ChainKept DEF ConfirmLeg
  <2>4. RequestHashes(req[r])'
    BY <1>1, <2>1, <2>2, <2>3, LegsFacts DEF RequestHashes, RefundPCs, Moved
  <2>5. \A s \in Requests : RequestHashes(req[s])'
    BY <2>2, <2>3, <2>4, OthersHashes
  <2>6. HashBackedByChain'
    <3>1. \A m \in PayoutLegs : ledger'[m].tx => ledger[m].tx \/ m = l
      BY <1>1, <1>10 DEF ConfirmLeg
    <3>2. UNCHANGED <<escrow, memberPaid, returned, claim>>
      BY <1>10 DEF ConfirmLeg
    <3>3. HashBackedByChain /\ memberPaid \cup returned \subseteq Legs
      BY LegsFacts DEF HashInv, TypeOK
    <3> QED
      BY <2>1, <2>3, <3>1, <3>2, <3>3, LegsFacts DEF HashBackedByChain
  <2> QED
    BY <1>10, <2>3, <2>5, <2>6 DEF HashInv, ConfirmLeg
<1>11. CASE RecordLeg(r)
  <2> DEFINE l == req[r].leg
  <2>1. l \in PayoutLegs /\ l \in Legs /\ Moved(l)
    BY <1>1, <1>11, LegsFacts DEF RecordLeg, RequestHashes
  <2>2. /\ OthersKept(r) /\ req'[r].pc = "settle.next"
        /\ req'[r].payout = req[r].payout /\ req'[r].fee = req[r].fee
    BY <1>1, <1>11, ReqUpdate DEF RecordLeg, Request
  <2>3. MovedKept /\ \A m \in Legs : Moved(m)' = Moved(m)
    BY <1>11, ChainKept DEF RecordLeg
  <2>4. RequestHashes(req[r])'
    BY <1>1, <2>2, <2>3, LegsFacts DEF RequestHashes, RefundPCs
  <2>5. \A s \in Requests : RequestHashes(req[s])'
    BY <2>2, <2>3, <2>4, OthersHashes
  <2>6. HashBackedByChain'
    <3>1. /\ escrow'.payoutTx => escrow.payoutTx \/ l = WINNER
          /\ escrow'.feeTx => escrow.feeTx \/ l = FEE
          /\ escrow'.refundTx = escrow.refundTx
          /\ memberPaid' \subseteq memberPaid \cup {l}
      BY <1>11 DEF RecordLeg, TypeOK
    <3>2. UNCHANGED <<ledger, returned, claim>>
      BY <1>11 DEF RecordLeg
    <3>3. HashBackedByChain /\ memberPaid \cup returned \subseteq Legs
      BY LegsFacts DEF HashInv, TypeOK
    <3> QED
      BY <2>1, <2>3, <3>1, <3>2, <3>3, LegsFacts DEF HashBackedByChain
  <2> QED
    BY <1>11, <2>3, <2>5, <2>6 DEF HashInv, RecordLeg
<1>12. CASE LegError(r)
  <2>1. OthersKept(r) /\ RequestHashes(req[r])'
    <3>1. CASE req[r].leg = WINNER
      <4>1. Return(r)
        BY <1>12, <3>1 DEF LegError, Return
      <4> QED
        BY <4>1, ReturnUpdate
    <3>2. CASE req[r].leg # WINNER
      <4>1. /\ OthersKept(r) /\ req'[r].pc = "settle.next"
            /\ req'[r].payout = req[r].payout /\ req'[r].fee = req[r].fee
        BY <1>1, <1>12, <3>2, ReqUpdate DEF LegError, Request
      <4> QED
        BY <1>1, <1>12, <4>1, ChainKept, LegsFacts DEF LegError, RequestHashes, RefundPCs
    <3> QED
      BY <3>1, <3>2
  <2>2. RowsKept
    BY <1>1, <1>12 DEF LegError, PersistEscrowFail, RowsKept, Row, TypeOK
  <2> QED
    BY <1>12, <2>1, <2>2, QuietStep DEF LegError
<1>13. CASE SettleTally(r)
  <2>1. /\ OthersKept(r) /\ req'[r].pc = "settle.finish"
        /\ req'[r].payout = req[r].payout /\ req'[r].fee = req[r].fee
    BY <1>1, <1>13, ReqUpdate DEF SettleTally, Request
  <2>2. RequestHashes(req[r])'
    BY <1>1, <1>13, <2>1, ChainKept, LegsFacts DEF SettleTally, RequestHashes, RefundPCs
  <2> QED
    BY <1>13, <2>1, <2>2, QuietStep DEF SettleTally, RowsKept
<1>14. CASE SettleFinish(r)
  <2>1. OthersKept(r) /\ RequestHashes(req[r])'
    BY <1>14, ReturnUpdate DEF SettleFinish
  <2>2. MovedKept /\ \A m \in Legs : Moved(m)' = Moved(m)
    BY <1>14, ChainKept DEF SettleFinish
  <2>3. HashBackedByChain'
    <3>1. /\ escrow'.payoutTx = req[r].payout /\ escrow'.feeTx = req[r].fee
          /\ escrow'.refundTx = escrow.refundTx
          /\ claim' = "paid" => claim = "paid" \/ req[r].payout
      BY <1>14 DEF SettleFinish, TypeOK
    <3>2. UNCHANGED <<ledger, memberPaid, returned>>
      BY <1>14 DEF SettleFinish
    <3>3. HashBackedByChain /\ memberPaid \cup returned \subseteq Legs
      BY LegsFacts DEF HashInv, TypeOK
    <3> QED
      BY <1>1, <2>2, <3>1, <3>2, <3>3, LegsFacts DEF HashBackedByChain, RequestHashes
  <2> QED
    BY <1>14, <2>1, <2>2, <2>3, OthersHashes DEF HashInv, SettleFinish
<1> QED
  BY <1>2, <1>3, <1>4, <1>5, <1>6, <1>7, <1>8, <1>9, <1>10, <1>11, <1>12, <1>13,
     <1>14 DEF SettleStep

\* refundEscrow, step by step.
LEMMA RefundReadHashes ==
    ASSUME TypeOK, HashInv, NEW r \in Requests, NEW op \in RefundOps, RefundRead(r, op)
    PROVE  HashInv'
<1>1. /\ OthersKept(r) /\ req'[r].pc = "refund.read"
      /\ ~ req'[r].payout /\ ~ req'[r].fee
      /\ req'[r].todo = IF SingleRefund THEN {l \in RefundLegs : ~ escrow.refundTx}
                        ELSE Contributors \ returned
  <2> DEFINE todo == IF SingleRefund THEN {l \in RefundLegs : ~ escrow.refundTx}
                     ELSE Contributors \ returned
             x == [Idle EXCEPT !.pc = "refund.read", !.op = op,
                     !.refund = escrow.refundTx, !.todo = todo]
  <2>1. req' = [req EXCEPT ![r] = x]
    BY DEF RefundRead
  <2>2. req'[r] = x /\ OthersKept(r)
    <3> HIDE DEF x
    <3> QED
      BY <2>1, ReqUpdate
  <2> HIDE DEF todo
  <2>3. req'[r].todo = todo /\ req'[r].pc = "refund.read"
        /\ ~ req'[r].payout /\ ~ req'[r].fee
    BY <2>2, IdleType DEF Request, Idle
  <2> QED
    BY <2>2, <2>3 DEF todo
<1>2. /\ escrow.refundTx => \A l \in RefundLegs : Moved(l)
      /\ \A l \in returned : Moved(l)
  BY DEF HashInv, HashBackedByChain
<1>3. \A l \in RefundLegs \ req'[r].todo : Moved(l)
  BY <1>1, <1>2, LegsFacts
<1>4. RequestHashes(req[r])'
  BY <1>1, <1>3, ChainKept, LegsFacts DEF RefundRead, RequestHashes
<1> QED
  BY <1>1, <1>4, QuietStep DEF RefundRead, RowsKept

LEMMA RefundStepHashes ==
    ASSUME TypeOK, HashInv, NEW r \in Requests, RefundStep(r)
    PROVE  HashInv'
<1>1. /\ RequestHashes(req[r])
      /\ req \in [Requests -> Request] /\ req[r] \in Request
      /\ ledger \in [PayoutLegs -> Row]
  BY DEF HashInv, TypeOK
<1>2. CASE RefundNotCovered(r)
  <2>1. OthersKept(r) /\ RequestHashes(req[r])'
    BY <1>2, ReturnUpdate DEF RefundNotCovered
  <2> QED
    BY <1>2, <2>1, QuietStep DEF RefundNotCovered, RowsKept
<1>3. CASE RefundEnter(r)
  <2>1. /\ OthersKept(r) /\ req'[r].pc = "refund.entered"
        /\ req'[r].payout = req[r].payout /\ req'[r].fee = req[r].fee
        /\ req'[r].todo = req[r].todo
    BY <1>3, GotoUpdate DEF RefundEnter, PCs
  <2>2. RequestHashes(req[r])'
    BY <1>1, <1>3, <2>1, ChainKept, LegsFacts DEF RefundEnter, RequestHashes, RefundPCs
  <2> QED
    BY <1>3, <2>1, <2>2, QuietStep DEF RefundEnter, RowsKept
<1>4. CASE RefundEnterEscrow(r)
  <2>1. /\ OthersKept(r) /\ req'[r].pc = "refund.next"
        /\ req'[r].payout = req[r].payout /\ req'[r].fee = req[r].fee
        /\ req'[r].todo = req[r].todo
    BY <1>4, GotoUpdate DEF RefundEnterEscrow, PCs
  <2>2. RequestHashes(req[r])'
    BY <1>1, <1>4, <2>1, ChainKept, LegsFacts
       DEF RefundEnterEscrow, RequestHashes, RefundPCs
  <2>3. RowsKept
    BY <1>4 DEF RefundEnterEscrow, RowsKept, TypeOK
  <2> QED
    BY <1>4, <2>1, <2>2, <2>3, QuietStep DEF RefundEnterEscrow
<1>5. ASSUME NEW l \in RefundLegs, RefundCheck(r, l)
      PROVE  HashInv'
  <2>1. /\ OthersKept(r) /\ req'[r].pc = "refund.send" /\ req'[r].leg = l
        /\ req'[r].payout = req[r].payout /\ req'[r].fee = req[r].fee
        /\ req'[r].todo = req[r].todo
    BY <1>1, <1>5, ReqUpdate DEF RefundCheck, Request
  <2>2. RequestHashes(req[r])'
    BY <1>1, <1>5, <2>1, ChainKept, LegsFacts DEF RefundCheck, RequestHashes, RefundPCs
  <2> QED
    BY <1>5, <2>1, <2>2, QuietStep DEF RefundCheck, RowsKept
<1>6. ASSUME NEW l \in RefundLegs, RefundLegNotCovered(r, l)
      PROVE  HashInv'
  <2>1. OthersKept(r) /\ RequestHashes(req[r])'
    BY <1>6, ReturnUpdate DEF RefundLegNotCovered
  <2> QED
    BY <1>6, <2>1, QuietStep DEF RefundLegNotCovered, RowsKept
<1>7. CASE RefundSend(r)
  <2> DEFINE l == req[r].leg
  <2>1. l \in RefundLegs /\ l \in Legs /\ LegAmount(l, {}) \in Nat
    BY <1>1, <1>7, LegsFacts, LegAmountNat DEF RefundSend, RequestHashes
  <2>2. /\ MovedKept /\ \A m \in Legs : m = l => Moved(m)'
        /\ \A m \in Legs : keys'[m] # {} => Moved(m)'
    BY <1>7, <2>1, TransferMoves DEF RefundSend
  <2>3. /\ OthersKept(r)
        /\ req'[r].payout = req[r].payout /\ req'[r].fee = req[r].fee
        /\ SingleRefund => req'[r].pc = "refund.next"
        /\ ~ SingleRefund => /\ req'[r].pc = "refund.mark" /\ req'[r].leg = l
                             /\ req'[r].todo = req[r].todo
    BY <1>1, <1>7, ReqUpdate DEF RefundSend, Request
  <2>4. SingleRefund => RefundLegs = {l}
    BY <2>1 DEF RefundLegs
  <2>5. \A m \in RefundLegs \ req[r].todo : Moved(m)
    BY <1>1, <1>7 DEF RefundSend, RequestHashes, RefundPCs
  <2>6. \A m \in RefundLegs \ req'[r].todo : Moved(m)'
    BY <2>2, <2>3, <2>4, <2>5, LegsFacts DEF MovedKept
  <2>7. RequestHashes(req[r])'
    BY <1>1, <2>1, <2>2, <2>3, <2>6, LegsFacts
       DEF RequestHashes, RefundPCs, MovedKept, Moved
  <2>8. HashBackedByChain' /\ \A s \in Requests : RequestHashes(req[s])'
    <3>1. RowsKept
      BY <1>7 DEF RefundSend, RowsKept
    <3> QED
      BY <3>1, <2>2, <2>3, <2>7, RowsHashes, OthersHashes
  <2> QED
    BY <1>7, <2>2, <2>8 DEF HashInv, RefundSend
<1>8. CASE RefundMark(r)
  <2> DEFINE l == req[r].leg
  <2>1. l \in RefundLegs /\ l \in Legs /\ Moved(l)
    BY <1>1, <1>8, LegsFacts DEF RefundMark, RequestHashes
  <2>2. /\ OthersKept(r) /\ req'[r].pc = "refund.next"
        /\ req'[r].payout = req[r].payout /\ req'[r].fee = req[r].fee
        /\ req'[r].todo = req[r].todo \ {l}
    BY <1>1, <1>8, ReqUpdate DEF RefundMark, Request
  <2>3. MovedKept /\ \A m \in Legs : Moved(m)' = Moved(m)
    BY <1>8, ChainKept DEF RefundMark
  <2>4. RequestHashes(req[r])'
    BY <1>1, <1>8, <2>1, <2>2, <2>3, LegsFacts
       DEF RefundMark, RequestHashes, RefundPCs, Moved
  <2>5. \A s \in Requests : RequestHashes(req[s])'
    BY <2>2, <2>3, <2>4, OthersHashes
  <2>6. HashBackedByChain'
    <3>1. UNCHANGED <<ledger, escrow, memberPaid, claim>> /\ returned' = returned \cup {l}
      BY <1>8 DEF RefundMark
    <3>2. HashBackedByChain /\ memberPaid \cup returned \subseteq Legs
      BY LegsFacts DEF HashInv, TypeOK
    <3> QED
      BY <2>1, <2>3, <3>1, <3>2, LegsFacts DEF HashBackedByChain
  <2> QED
    BY <1>8, <2>1, <2>3, <2>5, <2>6 DEF HashInv, RefundMark
<1>9. CASE RefundError(r)
  <2>1. OthersKept(r) /\ RequestHashes(req[r])'
    BY <1>9, ReturnUpdate DEF RefundError
  <2> QED
    BY <1>9, <2>1, QuietStep DEF RefundError, RowsKept
<1>10. CASE RefundFinish(r)
  <2>1. OthersKept(r) /\ RequestHashes(req[r])'
    BY <1>10, ReturnUpdate DEF RefundFinish
  <2>2. MovedKept /\ \A m \in Legs : Moved(m)' = Moved(m)
    BY <1>10, ChainKept DEF RefundFinish
  <2>3. HashBackedByChain'
    <3>1. /\ escrow'.payoutTx = escrow.payoutTx /\ escrow'.feeTx = escrow.feeTx
          /\ \A m \in PayoutLegs : ledger'[m].tx = ledger[m].tx
          /\ UNCHANGED <<memberPaid, returned, claim>>
      BY <1>1, <1>10 DEF RefundFinish, TypeOK, Row
    <3>2. \A m \in RefundLegs : Moved(m)
      BY <1>1, <1>10 DEF RefundFinish, RequestHashes, RefundPCs
    <3>3. HashBackedByChain /\ memberPaid \cup returned \subseteq Legs
      BY LegsFacts DEF HashInv, TypeOK
    <3> QED
      BY <2>2, <3>1, <3>2, <3>3, LegsFacts DEF HashBackedByChain
  <2> QED
    BY <1>10, <2>1, <2>2, <2>3, OthersHashes DEF HashInv, RefundFinish
<1> QED
  BY <1>2, <1>3, <1>4, <1>5, <1>6, <1>7, <1>8, <1>9, <1>10 DEF RefundStep

LEMMA OtherStepHashes ==
    ASSUME TypeOK, HashInv,
           \/ HookStep
           \/ \E r \in Requests : Crash(r)
           \/ \E l \in Legs : ExpireKey(l)
           \/ UNCHANGED vars
    PROVE  HashInv'
<1>1. ASSUME RowsKept, UNCHANGED <<keys, chain, req>>
      PROVE  HashInv'
  <2>1. MovedKept /\ \A l \in Legs : Moved(l)' = Moved(l)
    BY <1>1, ChainKept
  <2>2. \A r \in Requests : RequestHashes(req[r])'
    BY <1>1 DEF HashInv, RequestHashes, Moved
  <2> QED
    BY <1>1, <2>1, <2>2, RowsHashes DEF HashInv, RowsKept
<1>2. CASE HookStep
  <2>1. RowsKept
    BY <1>2 DEF HookStep, MarkRead, MarkEligible, MarkSkipped, FreezeRead, FreezeRow,
                HookStop, HookCrash, RowsKept
  <2>2. UNCHANGED <<keys, chain, req>>
    BY <1>2 DEF HookStep, MarkRead, MarkEligible, MarkSkipped, FreezeRead, FreezeRow,
                HookStop, HookCrash
  <2> QED
    BY <1>1, <2>1, <2>2
<1>3. ASSUME NEW r \in Requests, Crash(r)
      PROVE  HashInv'
  <2>1. OthersKept(r) /\ RequestHashes(req[r])'
    BY <1>3, ReturnUpdate DEF Crash
  <2> QED
    BY <1>3, <2>1, QuietStep DEF Crash, RowsKept
<1>4. ASSUME NEW l \in Legs, ExpireKey(l)
      PROVE  HashInv'
  <2>1. MovedKept /\ \A m \in Legs : Moved(m)' = Moved(m)
    BY <1>4, ChainKept DEF ExpireKey
  <2>2. RowsKept /\ UNCHANGED <<req, returned>>
    BY <1>4 DEF ExpireKey, RowsKept
  <2>3. \A r \in Requests : RequestHashes(req[r])'
    BY <1>4, <2>2 DEF HashInv, RequestHashes, Moved, ExpireKey
  <2>4. \A m \in Legs : keys'[m] # {} => keys[m] # {}
    BY <1>4 DEF ExpireKey, TypeOK
  <2> QED
    BY <2>1, <2>2, <2>3, <2>4, RowsHashes DEF HashInv
<1>5. CASE UNCHANGED vars
  BY <1>1, <1>5 DEF vars, RowsKept
<1> QED
  BY <1>2, <1>3, <1>4, <1>5

LEMMA OtherStepType ==
    ASSUME TypeOK,
           \/ \E r \in Requests : Crash(r)
           \/ \E l \in Legs : ExpireKey(l)
           \/ UNCHANGED vars
    PROVE  TypeOK'
<1>1. ASSUME NEW r \in Requests, Crash(r)
      PROVE  TypeOK'
  <2>1. req' \in [Requests -> Request]
    BY <1>1, MoveType DEF Crash, TypeOK
  <2> QED
    BY <1>1, <2>1, ErrorsType DEF Crash, TypeOK
<1>2. ASSUME NEW l \in Legs, ExpireKey(l)
      PROVE  TypeOK'
  BY <1>2 DEF ExpireKey, TypeOK
<1>3. CASE UNCHANGED vars
  BY <1>3 DEF vars, TypeOK
<1> QED
  BY <1>1, <1>2, <1>3

LEMMA HashInit == Init => HashInv
<1> SUFFICES ASSUME NEW claimed \in {"none", "eligible"},
                    NEW freeze \in SUBSET (Members \cup {WinnerRow}),
                    Start(claimed, freeze)
             PROVE  HashInv
  BY DEF Init, InitOpen, InitMerged
<1>1. HashBackedByChain
  BY DEF Start, HashBackedByChain, NoRow
<1>2. \A r \in Requests : RequestHashes(req[r])
  BY DEF Start, Idle, RequestHashes, RefundPCs
<1> QED
  BY <1>1, <1>2 DEF Start, HashInv

\* Every step keeps the types and the hashes; the two need each other, for the
\* contribution that markContributionRefunded marks is typed by RequestHashes.
LEMMA NextInv ==
    ASSUME TypeOK, HashInv, [Next]_vars
    PROVE  TypeOK' /\ HashInv'
<1>1. ASSUME NEW r \in Requests, Arrive(r)
      PROVE  TypeOK' /\ HashInv'
  <2>1. ASSUME NEW op \in SettleOps, NEW reachable \in SUBSET Members,
               SettleRead(r, op, reachable)
        PROVE  TypeOK' /\ HashInv'
    BY <2>1, SettleReadType, SettleReadHashes
  <2>2. ASSUME NEW op \in RefundOps, RefundRead(r, op)
        PROVE  TypeOK' /\ HashInv'
    BY <2>2, RefundReadType, RefundReadHashes
  <2> QED
    BY <1>1, <2>1, <2>2 DEF Arrive
<1>2. ASSUME NEW r \in Requests, SettleStep(r)
      PROVE  TypeOK' /\ HashInv'
  BY <1>2, SettleStepType, SettleStepHashes
<1>3. ASSUME NEW r \in Requests, RefundStep(r)
      PROVE  TypeOK' /\ HashInv'
  <2>1. req[r].pc = "refund.mark" => req[r].leg \in Contributors
    BY LegsFacts DEF HashInv, RequestHashes
  <2> QED
    BY <1>3, <2>1, RefundStepType, RefundStepHashes
<1>4. CASE HookStep
  BY <1>4, HookStepType, OtherStepHashes
<1>5. CASE \/ \E r \in Requests : Crash(r)
           \/ \E l \in Legs : ExpireKey(l)
           \/ UNCHANGED vars
  BY <1>5, OtherStepType, OtherStepHashes
<1> QED
  BY <1>1, <1>2, <1>3, <1>4, <1>5 DEF Next, Handler

\* The inductive invariant of the specification.
THEOREM Inductive == Spec => [](TypeOK /\ HashInv)
<1>1. Init => TypeOK /\ HashInv
  BY TypeInit, HashInit
<1>2. TypeOK /\ HashInv /\ [Next]_vars => (TypeOK /\ HashInv)'
  BY NextInv
<1> QED
  BY <1>1, <1>2, PTL DEF Spec

\* Every row, request and counter keeps its type, whatever handlers race, die
\* or fail.
THEOREM TypeCorrect == Spec => []TypeOK
  BY Inductive, PTL

\* The records never claim money that has not moved (HashBackedByChain): no
\* race, crash, retry, expired key or stale overwrite makes settleEscrow or
\* refundEscrow record a transfer that is not on the chain.
THEOREM RecordsBacked == Spec => []HashBackedByChain
<1>1. TypeOK /\ HashInv => HashBackedByChain
  BY DEF HashInv
<1> QED
  BY <1>1, Inductive, PTL

-----------------------------------------------------------------------------
(* The winner is paid first                                                 *)

LEMMA ReturnFirst ==
    ASSUME TypeOK, NEW r \in Requests, Return(r)
    PROVE  OthersKept(r) /\ WinnerKept(req[r])'
<1>1. OthersKept(r) /\ req'[r] = Idle
  BY ReturnUpdate
<1> QED
  BY <1>1 DEF WinnerKept, Idle, SettlePCs

\* What remains to be shown of a step of one request.
LEMMA StepFirst ==
    ASSUME TypeOK, WinnerFirstInv, NEW r \in Requests, OthersKept(r), MovedKept,
           WinnerFirst', UNCHANGED frozen,
           ledger'[WINNER].st # "none" => ledger'[WINNER].bound,
           ledger[WINNER].bound => ledger'[WINNER].bound,
           WinnerKept(req[r])'
    PROVE  WinnerFirstInv'
<1> SUFFICES ASSUME NEW s \in Requests, s # r
             PROVE  WinnerKept(req[s])'
  BY DEF WinnerFirstInv
<1>1. req'[s] = req[s]
  BY DEF OthersKept
<1>2. WinnerKept(req[s])
  BY DEF WinnerFirstInv
<1> QED
  BY <1>1, <1>2, LegsFacts DEF WinnerKept, MovedKept

\* A step that leaves the chain and the winner's row alone.
LEMMA QuietFirst ==
    ASSUME TypeOK, WinnerFirstInv, NEW r \in Requests, OthersKept(r),
           UNCHANGED <<chain, frozen>>,
           ledger'[WINNER].st # "none" => ledger[WINNER].st # "none" \/ ledger[WINNER].bound,
           ledger'[WINNER].bound = ledger[WINNER].bound,
           WinnerKept(req[r])'
    PROVE  WinnerFirstInv'
<1>1. MovedKept /\ \A l \in Legs : Moved(l)' = Moved(l)
  BY ChainKept
<1>2. WinnerFirst'
  BY <1>1, LegsFacts DEF WinnerFirstInv, WinnerFirst
<1> QED
  BY <1>1, <1>2, StepFirst DEF WinnerFirstInv

LEMMA SettleReadFirst ==
    ASSUME TypeOK, HashInv, WinnerFirstInv, NEW r \in Requests, NEW op \in SettleOps,
           NEW reachable \in SUBSET Members, SettleRead(r, op, reachable)
    PROVE  WinnerFirstInv'
<1> DEFINE pool == frozen \cap Members
           recorded == {l \in PayoutLegs : \/ l = WINNER /\ escrow.payoutTx
                                           \/ l = FEE /\ escrow.feeTx
                                           \/ l \in memberPaid}
           todo == {l \in Planned(pool) \ recorded :
                      /\ InScope(l, op)
                      /\ op = "all" => l \in {WINNER, FEE} \cup reachable}
           x == [Idle EXCEPT !.pc = "settle.read", !.op = op,
                   !.escrow = escrow.status, !.payout = escrow.payoutTx,
                   !.fee = escrow.feeTx, !.fail = escrow.fail, !.pool = pool,
                   !.winnerRow = WinnerRow \in frozen, !.todo = todo]
<1>1. req'[r] = x /\ OthersKept(r)
  <2>1. req' = [req EXCEPT ![r] = x]
    BY DEF SettleRead
  <2> HIDE DEF x
  <2> QED
    BY <2>1, ReqUpdate
<1>2. WINNER \notin todo => Moved(WINNER)
  <2>1. escrow.payoutTx => Moved(WINNER)
    BY DEF HashInv, HashBackedByChain
  <2>2. memberPaid \subseteq Members /\ WINNER \notin Members /\ WINNER # FEE
    BY LegsFacts DEF TypeOK
  <2>3. WINNER \in Planned(pool)
    BY DEF Planned
  <2>4. CASE op \in {"winner_and_fee", "all"}
    <3>1. ~ escrow.payoutTx => WINNER \in todo
      BY <2>2, <2>3, <2>4 DEF InScope
    <3> QED
      BY <2>1, <3>1
  <2>5. CASE op \in Members
    BY <2>1, <2>5 DEF SettleRead
  <2> QED
    BY <2>4, <2>5 DEF SettleOps
<1>3. WinnerKept(req[r])'
  <2> HIDE DEF todo, pool
  <2>1. /\ x.pc = "settle.read" /\ x.todo = todo
        /\ x.winnerRow = (WinnerRow \in frozen)
    BY DEF Idle
  <2>2. WinnerRow \in frozen
    BY DEF WinnerFirstInv
  <2>3. Moved(WINNER)' = Moved(WINNER)
    BY ChainKept, LegsFacts DEF SettleRead
  <2> HIDE DEF x
  <2> QED
    BY <1>1, <1>2, <2>1, <2>2, <2>3 DEF WinnerKept
<1> QED
  BY <1>1, <1>3, QuietFirst DEF SettleRead

LEMMA PrepareLegsFirst ==
    ASSUME TypeOK, HashInv, WinnerFirstInv, NEW r \in Requests, PrepareLegs(r)
    PROVE  WinnerFirstInv'
<1> DEFINE q == req[r]
           rows == Synced(q)
           hasHash(l) == l \in Planned(q.pool) /\ RowFound(rows, q, l) /\ rows[l].tx
           payout == q.payout \/ hasHash(WINNER)
           fee == q.fee \/ hasHash(FEE)
           todo == {l \in q.todo : /\ RowFound(rows, q, l)
                                   /\ ~ hasHash(l)
                                   /\ l = WINNER => ~ payout
                                   /\ l = FEE => ~ fee}
           x == [q EXCEPT !.pc = "settle.next", !.payout = payout, !.fee = fee,
                          !.todo = todo]
<1>1. req'[r] = x /\ OthersKept(r) /\ ledger' = rows
  <2>1. req' = [req EXCEPT ![r] = x] /\ ledger' = rows
    BY DEF PrepareLegs
  <2> HIDE DEF x
  <2> QED
    BY <2>1, ReqUpdate
<1>2. /\ WinnerKept(q) /\ q.pc = "settle.legs" /\ q \in Request
      /\ RequestHashes(q)
  BY DEF WinnerFirstInv, PrepareLegs, TypeOK, HashInv
<1>3. q.winnerRow /\ (WINNER \notin q.todo => Moved(WINNER))
  BY <1>2 DEF WinnerKept, SettlePCs
\* The winner's row exists after the inserts and is bound to the winner.
<1>4. rows[WINNER].st # "none" /\ rows[WINNER].bound
  <2> DEFINE new == Inserted(q)
  <2>1. WINNER \in Planned(q.pool) /\ WINNER \in PayoutLegs
    BY LegsFacts DEF Planned
  <2>2. new[WINNER] = IF ledger[WINNER].st = "none"
                      THEN [st |-> "pending", tx |-> FALSE,
                            amt |-> LegAmount(WINNER, q.pool),
                            bound |-> WINNER = WINNER /\ q.winnerRow]
                      ELSE ledger[WINNER]
    BY <2>1 DEF Inserted
  <2>3. new[WINNER].st # "none" /\ new[WINNER].bound
    <3> HIDE DEF new
    <3>1. CASE ledger[WINNER].st = "none"
      <4>1. q.winnerRow = TRUE
        BY <1>2, <1>3 DEF Request
      <4>2. new[WINNER] = [st |-> "pending", tx |-> FALSE,
                           amt |-> LegAmount(WINNER, q.pool), bound |-> TRUE]
        BY <2>2, <3>1, <4>1
      <4> QED
        BY <4>2
    <3>2. CASE ledger[WINNER].st # "none"
      BY <2>2, <3>2 DEF WinnerFirstInv
    <3> QED
      BY <3>1, <3>2
  <2>4. new[WINNER] \in [st: {"none", "pending", "submitted", "confirmed", "failed"},
                         tx: BOOLEAN, amt: Nat, bound: BOOLEAN]
    <3>1. LegAmount(WINNER, q.pool) \in Nat
      BY <1>2, LegsFacts, LegAmountNat DEF Request
    <3>2. ledger[WINNER] \in Row /\ q.winnerRow \in BOOLEAN
      BY <1>2, LegsFacts DEF TypeOK, Request
    <3> QED
      BY <2>2, <3>1, <3>2 DEF Row
  <2> HIDE DEF new
  <2>5. rows[WINNER] \in {new[WINNER],
                          [new[WINNER] EXCEPT !.st = "confirmed", !.tx = TRUE]}
    BY <2>1 DEF Synced, new
  <2> QED
    BY <2>3, <2>4, <2>5
<1>5. rows[WINNER].tx => Moved(WINNER)
  BY SyncedHashes, LegsFacts
<1>6. q.payout => Moved(WINNER)
  BY <1>2 DEF RequestHashes
<1> HIDE DEF rows
<1>7. WINNER \notin todo => Moved(WINNER)
  BY <1>3, <1>4, <1>5, <1>6, LegsFacts DEF RowFound
<1>8. WinnerKept(req[r])'
  <2> HIDE DEF todo
  <2>1. x.pc = "settle.next" /\ x.winnerRow = q.winnerRow /\ x.todo = todo
    BY <1>2 DEF Request
  <2>2. Moved(WINNER)' = Moved(WINNER)
    BY ChainKept, LegsFacts DEF PrepareLegs
  <2> HIDE DEF x
  <2> QED
    BY <1>1, <1>3, <1>4, <1>7, <2>1, <2>2 DEF WinnerKept
<1>9. MovedKept /\ WinnerFirst' /\ UNCHANGED frozen
  <2>1. MovedKept /\ \A l \in Legs : Moved(l)' = Moved(l)
    BY ChainKept DEF PrepareLegs
  <2> QED
    BY <2>1, LegsFacts DEF WinnerFirstInv, WinnerFirst, PrepareLegs
<1> QED
  BY <1>1, <1>4, <1>8, <1>9, StepFirst

LEMMA SettleStepFirst ==
    ASSUME TypeOK, HashInv, WinnerFirstInv, NEW r \in Requests, SettleStep(r)
    PROVE  WinnerFirstInv'
<1>1. /\ WinnerKept(req[r]) /\ RequestHashes(req[r])
      /\ req \in [Requests -> Request] /\ req[r] \in Request
      /\ ledger \in [PayoutLegs -> Row]
  BY DEF WinnerFirstInv, HashInv, TypeOK
<1>2. CASE SettleRailDown(r) \/ SettleNotCovered(r)
  <2>1. Return(r) /\ UNCHANGED <<chain, frozen, ledger>>
    BY <1>2 DEF SettleRailDown, SettleNotCovered
  <2> QED
    BY <2>1, ReturnFirst, QuietFirst
<1>3. CASE SettleEnter(r) \/ SettleEnterEscrow(r)
  <2>1. /\ UNCHANGED <<chain, frozen, ledger>> /\ req[r].pc \in SettlePCs
        /\ \E pc \in {"settle.entered", "settle.legs"} : Goto(r, pc)
    BY <1>3 DEF SettleEnter, SettleEnterEscrow, SettlePCs
  <2>2. PICK pc \in {"settle.entered", "settle.legs"} : Goto(r, pc)
    BY <2>1
  <2>3. /\ OthersKept(r) /\ req'[r].pc = pc /\ pc # "settle.send"
        /\ req'[r].winnerRow = req[r].winnerRow /\ req'[r].todo = req[r].todo
    BY <2>2, GotoUpdate DEF PCs
  <2>4. WinnerKept(req[r])'
    BY <1>1, <2>1, <2>3, ChainKept, LegsFacts DEF WinnerKept
  <2> QED
    BY <2>1, <2>3, <2>4, QuietFirst
<1>4. CASE PrepareLegs(r)
  BY <1>4, PrepareLegsFirst
<1>5. ASSUME NEW l \in PayoutLegs, SubmitLeg(r, l)
      PROVE  WinnerFirstInv'
  <2>1. /\ OthersKept(r) /\ req'[r].pc = "settle.send" /\ req'[r].leg = l
        /\ req'[r].winnerRow = req[r].winnerRow /\ req'[r].todo = req[r].todo
    BY <1>1, <1>5, ReqUpdate DEF SubmitLeg, Request
  <2>2. /\ req[r].winnerRow /\ ledger[WINNER].bound
        /\ WINNER \notin req[r].todo => Moved(WINNER)
    BY <1>1, <1>5 DEF SubmitLeg, WinnerKept, SettlePCs
  <2>3. l # WINNER => WINNER \notin req[r].todo
    BY <1>5 DEF SubmitLeg, IsNext
  <2>4. ledger'[WINNER].bound = ledger[WINNER].bound
    BY <1>1, <1>5, LegsFacts DEF SubmitLeg, Row
  <2>5. WinnerKept(req[r])'
    BY <1>5, <2>1, <2>2, <2>3, <2>4, ChainKept, LegsFacts DEF WinnerKept, SubmitLeg
  <2> QED
    BY <1>5, <2>1, <2>2, <2>4, <2>5, QuietFirst DEF SubmitLeg
<1>6. ASSUME NEW l \in PayoutLegs, LegNotCovered(r, l)
      PROVE  WinnerFirstInv'
  <2>1. Return(r) /\ UNCHANGED <<chain, frozen, ledger>>
    BY <1>6 DEF LegNotCovered
  <2> QED
    BY <2>1, ReturnFirst, QuietFirst
<1>7. CASE SendLeg(r)
  <2> DEFINE l == req[r].leg
  <2>1. /\ l \in Legs /\ l \in PayoutLegs /\ LegAmount(l, req[r].pool) \in Nat
    BY <1>1, <1>7, LegAmountNat DEF SendLeg, RequestHashes, Request
  <2>2. /\ MovedKept /\ \A m \in Legs : m = l => Moved(m)'
        /\ \A m \in Legs \ {l} : Moved(m)' = Moved(m)
    BY <1>7, <2>1, TransferMoves DEF SendLeg
  <2>3. l # WINNER => Moved(WINNER)
    BY <1>1, <1>7 DEF SendLeg, WinnerKept, SettlePCs
  <2>4. WinnerFirst'
    BY <2>1, <2>2, <2>3, LegsFacts DEF WinnerFirstInv, WinnerFirst, MovedKept
  <2>5. /\ OthersKept(r) /\ req'[r].pc = "settle.confirm"
        /\ req'[r].winnerRow = req[r].winnerRow /\ req'[r].todo = req[r].todo
    BY <1>7, GotoUpdate DEF SendLeg, PCs
  <2>6. WinnerKept(req[r])'
    BY <1>1, <1>7, <2>2, <2>5, LegsFacts DEF WinnerKept, SendLeg, SettlePCs, MovedKept
  <2> QED
    BY <1>7, <2>2, <2>4, <2>5, <2>6, StepFirst DEF SendLeg, WinnerFirstInv
<1>8. CASE ConfirmLeg(r)
  <2> DEFINE l == req[r].leg
  <2>1. /\ OthersKept(r) /\ req'[r].pc = "settle.record"
        /\ req'[r].winnerRow = req[r].winnerRow /\ req'[r].todo = req[r].todo
    BY <1>1, <1>8, ReqUpdate DEF ConfirmLeg, Request
  <2>2. ledger[WINNER].bound
    BY <1>1, <1>8 DEF ConfirmLeg, WinnerKept, SettlePCs
  <2>3. ledger'[WINNER].bound = ledger[WINNER].bound
    BY <1>1, <1>8, LegsFacts DEF ConfirmLeg, Row
  <2>4. WinnerKept(req[r])'
    BY <1>1, <1>8, <2>1, <2>2, <2>3, ChainKept, LegsFacts
       DEF WinnerKept, ConfirmLeg, SettlePCs
  <2> QED
    BY <1>8, <2>1, <2>2, <2>3, <2>4, QuietFirst DEF ConfirmLeg
<1>9. CASE RecordLeg(r)
  <2> DEFINE l == req[r].leg
  <2>1. /\ OthersKept(r) /\ req'[r].pc = "settle.next"
        /\ req'[r].winnerRow = req[r].winnerRow /\ req'[r].todo = req[r].todo \ {l}
    BY <1>1, <1>9, ReqUpdate DEF RecordLeg, Request
  <2>2. l = WINNER => Moved(WINNER)
    BY <1>1, <1>9 DEF RecordLeg, RequestHashes
  <2>3. WinnerKept(req[r])'
    BY <1>1, <1>9, <2>1, <2>2, ChainKept, LegsFacts DEF WinnerKept, RecordLeg, SettlePCs
  <2> QED
    BY <1>9, <2>1, <2>3, QuietFirst DEF RecordLeg
<1>10. CASE LegError(r)
  <2> DEFINE l == req[r].leg
  <2>1. /\ req[r].pc \in {"settle.send", "settle.confirm", "settle.record"}
        /\ l \in PayoutLegs
    BY <1>1, <1>10 DEF LegError, RequestHashes
  <2>2. ledger[WINNER].bound
    BY <1>1, <2>1 DEF WinnerKept, SettlePCs
  <2>3. ledger'[WINNER].bound = ledger[WINNER].bound
    BY <1>1, <1>10, LegsFacts DEF LegError, Row
  <2>4. OthersKept(r) /\ WinnerKept(req[r])'
    <3>1. CASE l = WINNER
      <4>1. Return(r)
        BY <1>10, <3>1 DEF LegError, Return
      <4> QED
        BY <4>1, ReturnFirst
    <3>2. CASE l # WINNER
      <4>1. /\ OthersKept(r) /\ req'[r].pc = "settle.next"
            /\ req'[r].winnerRow = req[r].winnerRow
            /\ req'[r].todo = req[r].todo \ {l}
        BY <1>1, <1>10, <3>2, ReqUpdate DEF LegError, Request
      <4>2. UNCHANGED chain
        BY <1>10 DEF LegError
      <4> QED
        BY <1>1, <2>1, <2>2, <2>3, <3>2, <4>1, <4>2, ChainKept, LegsFacts
           DEF WinnerKept, SettlePCs
    <3> QED
      BY <3>1, <3>2
  <2> QED
    BY <1>10, <2>2, <2>3, <2>4, QuietFirst DEF LegError
<1>11. CASE SettleTally(r)
  <2>1. /\ OthersKept(r) /\ req'[r].pc = "settle.finish"
        /\ req'[r].winnerRow = req[r].winnerRow /\ req'[r].todo = req[r].todo
    BY <1>1, <1>11, ReqUpdate DEF SettleTally, Request
  <2>2. WinnerKept(req[r])'
    BY <1>1, <1>11, <2>1, ChainKept, LegsFacts DEF WinnerKept, SettleTally, SettlePCs
  <2> QED
    BY <1>11, <2>1, <2>2, QuietFirst DEF SettleTally
<1>12. CASE SettleFinish(r)
  <2>1. Return(r) /\ UNCHANGED <<chain, frozen, ledger>>
    BY <1>12 DEF SettleFinish
  <2> QED
    BY <2>1, ReturnFirst, QuietFirst
<1> QED
  BY <1>2, <1>3, <1>4, <1>5, <1>6, <1>7, <1>8, <1>9, <1>10, <1>11, <1>12
     DEF SettleStep

\* A request that is refunding owes the winner nothing.
LEMMA RefundFirst ==
    ASSUME TypeOK, HashInv, WinnerFirstInv, NEW r \in Requests,
           (\E op \in RefundOps : RefundRead(r, op)) \/ RefundStep(r)
    PROVE  WinnerFirstInv'
<1>1. req \in [Requests -> Request] /\ req[r] \in Request /\ RequestHashes(req[r])
  BY DEF TypeOK, HashInv
<1>2. ASSUME OthersKept(r), req'[r].pc \notin SettlePCs, UNCHANGED <<frozen, chain>>,
             ledger'[WINNER].bound = ledger[WINNER].bound,
             ledger'[WINNER].st # "none" => ledger[WINNER].st # "none"
      PROVE  WinnerFirstInv'
  BY <1>2, QuietFirst DEF WinnerKept
<1>3. ASSUME NEW op \in RefundOps, RefundRead(r, op)
      PROVE  WinnerFirstInv'
  <2>1. OthersKept(r)
    BY <1>3, ReqUpdate DEF RefundRead
  <2>2. req'[r].pc = "refund.read"
    BY <1>1, <1>3 DEF RefundRead, Idle
  <2> QED
    BY <1>2, <1>3, <2>1, <2>2 DEF RefundRead, SettlePCs
<1>4. CASE RefundEnter(r) \/ RefundEnterEscrow(r)
  <2>1. PICK pc \in {"refund.entered", "refund.next"} : Goto(r, pc)
    BY <1>4 DEF RefundEnter, RefundEnterEscrow
  <2>2. OthersKept(r) /\ req'[r].pc = pc
    BY <2>1, GotoUpdate DEF PCs
  <2> QED
    BY <1>2, <1>4, <2>2 DEF RefundEnter, RefundEnterEscrow, SettlePCs
<1>5. ASSUME NEW l \in RefundLegs, RefundCheck(r, l)
      PROVE  WinnerFirstInv'
  <2>1. OthersKept(r) /\ req'[r].pc = "refund.send"
    BY <1>1, <1>5, ReqUpdate DEF RefundCheck, Request
  <2> QED
    BY <1>2, <1>5, <2>1 DEF RefundCheck, SettlePCs
<1>6. ASSUME Return(r), UNCHANGED <<frozen, chain>>,
             ledger'[WINNER].bound = ledger[WINNER].bound,
             ledger'[WINNER].st # "none" => ledger[WINNER].st # "none"
      PROVE  WinnerFirstInv'
  BY <1>6, ReturnFirst, QuietFirst
<1>7. ASSUME NEW l \in RefundLegs, RefundLegNotCovered(r, l)
      PROVE  WinnerFirstInv'
  BY <1>6, <1>7 DEF RefundLegNotCovered
<1>8. CASE RefundNotCovered(r) \/ RefundError(r)
  BY <1>6, <1>8 DEF RefundNotCovered, RefundError
<1>9. CASE RefundMark(r)
  <2>1. OthersKept(r) /\ req'[r].pc = "refund.next"
    BY <1>1, <1>9, ReqUpdate DEF RefundMark, Request
  <2> QED
    BY <1>2, <1>9, <2>1 DEF RefundMark, SettlePCs
<1>10. CASE RefundFinish(r)
  <2>1. /\ ledger'[WINNER].bound = ledger[WINNER].bound
        /\ ledger'[WINNER].st # "none" => ledger[WINNER].st # "none"
    <3>1. ledger[WINNER] \in Row /\ WINNER \in PayoutLegs
      BY LegsFacts DEF TypeOK
    <3> QED
      BY <1>10, <3>1 DEF RefundFinish, Row
  <2> QED
    BY <1>6, <1>10, <2>1 DEF RefundFinish
\* A refund leg is not a payout leg: the transfers to hunters are as they were.
<1>11. CASE RefundSend(r)
  <2> DEFINE l == req[r].leg
  <2>1. l \in RefundLegs /\ l \in Legs /\ LegAmount(l, {}) \in Nat
    BY <1>1, <1>11, LegsFacts, LegAmountNat DEF RefundSend, RequestHashes
  <2>2. MovedKept /\ \A m \in Legs \ {l} : Moved(m)' = Moved(m)
    BY <1>11, <2>1, TransferMoves DEF RefundSend
  <2>3. WinnerFirst'
    BY <2>1, <2>2, LegsFacts DEF WinnerFirstInv, WinnerFirst
  <2>4. OthersKept(r) /\ req'[r].pc \in {"refund.next", "refund.mark"}
    BY <1>1, <1>11, ReqUpdate DEF RefundSend, Request
  <2> QED
    BY <1>11, <2>2, <2>3, <2>4, StepFirst
       DEF RefundSend, WinnerKept, SettlePCs, WinnerFirstInv
<1> QED
  BY <1>3, <1>4, <1>5, <1>7, <1>8, <1>9, <1>10, <1>11 DEF RefundStep

LEMMA NextMergedFirst ==
    ASSUME TypeOK, HashInv, WinnerFirstInv, [NextMerged]_vars
    PROVE  WinnerFirstInv'
<1>1. ASSUME NEW r \in Requests, Handler(r)
      PROVE  WinnerFirstInv'
  <2>1. ASSUME NEW op \in SettleOps, NEW reachable \in SUBSET Members,
               SettleRead(r, op, reachable)
        PROVE  WinnerFirstInv'
    BY <2>1, SettleReadFirst
  <2>2. CASE SettleStep(r)
    BY <2>2, SettleStepFirst
  <2>3. CASE (\E op \in RefundOps : RefundRead(r, op)) \/ RefundStep(r)
    BY <2>3, RefundFirst
  <2>4. CASE Crash(r)
    <3>1. Return(r) /\ UNCHANGED <<chain, frozen, ledger>>
      BY <2>4 DEF Crash
    <3> QED
      BY <3>1, ReturnFirst, QuietFirst
  <2> QED
    BY <1>1, <2>1, <2>2, <2>3, <2>4 DEF Handler, Arrive
<1>2. CASE (\E l \in Legs : ExpireKey(l)) \/ UNCHANGED vars
  <2>1. UNCHANGED <<chain, frozen, ledger, req>>
    BY <1>2 DEF ExpireKey, vars
  <2> QED
    BY <2>1 DEF WinnerFirstInv, WinnerFirst, WinnerKept, Moved
<1> QED
  BY <1>1, <1>2 DEF NextMerged

\* The inductive invariant of the specification after the merge.
THEOREM WinnerFirstInductive == SpecMerged => []WinnerFirstInv
<1>1. SpecMerged => Spec
  <2>1. InitMerged => Init
    BY DEF Init
  <2>2. [NextMerged]_vars => [Next]_vars
    BY DEF NextMerged, Next
  <2> QED
    BY <2>1, <2>2, PTL DEF SpecMerged, Spec
<1>2. InitMerged => WinnerFirstInv
  <2>1. ASSUME NEW eligible \in SUBSET Members, Start("eligible", {WinnerRow} \cup eligible)
        PROVE  WinnerFirstInv
    BY <2>1, LegsFacts
       DEF Start, WinnerFirstInv, WinnerFirst, WinnerKept, Moved, NoRow, Idle, SettlePCs
  <2> QED
    BY <2>1 DEF InitMerged
<1>3. TypeOK /\ HashInv /\ WinnerFirstInv /\ [NextMerged]_vars => WinnerFirstInv'
  BY NextMergedFirst
<1> QED
  BY <1>1, <1>2, <1>3, Inductive, PTL DEF SpecMerged

\* Once the pool is frozen, no handler pays the fee or a member before the
\* winner, however many claims, cancels and expiries are in flight and
\* whichever of them die: docs/escrow.md, "Winner leg first".
THEOREM WinnerIsFirst == SpecMerged => []WinnerFirst
<1>1. WinnerFirstInv => WinnerFirst
  BY DEF WinnerFirstInv
<1> QED
  BY <1>1, WinnerFirstInductive, PTL
=============================================================================
