------------------------- MODULE BountyMoneyProofs -------------------------
(***************************************************************************)
(* What becomes of the money of a bounty, for any number of requests,       *)
(* members, contributors, errors and crashes.                               *)
(*                                                                         *)
(*  - Settlement implements BountyMoney: every step of a handler is a step  *)
(*    of BountyMoney or leaves its variables alone.  The guards of          *)
(*    BountyMoney come from the invariants of SettlementProofs after the    *)
(*    step, so that only two things are left to show of a step: that it     *)
(*    does one thing at a time, and that it takes nothing back.             *)
(*  - After the merge, "settled" means that the legs add up to the face,    *)
(*    and neither side of a race pays more than the face (AmountsInv,       *)
(*    OnceInv).                                                             *)
(*  - Handlers that do not overlap never pay both sides (SidesInv).         *)
(*  - A transfer is repeated only after an answer was lost (LossInv).       *)
(*  - Handlers that do not overlap leave a bounty's statuses with a reason  *)
(*    in the ledger and a way out of every failure (AccountInv).            *)
(*  - Handlers that do not overlap pay out no more than was put in, even    *)
(*    while the pool freezes, as long as nothing fails: the rows cover what *)
(*    has moved, and the check before a leg counts the rows (CoverInv).     *)
(***************************************************************************)
EXTENDS SettlementProofs

MovedLegs == {l \in Legs : Moved(l)}

\* A ledger row that is not there yet has no hash.
NoRowNoHash == \A l \in PayoutLegs : ledger[l].st = "none" => ~ ledger[l].tx

\* The invariants around a step.
StepContext ==
    /\ TypeOK /\ HashInv /\ WinnerFirstInv /\ NoRowNoHash
    /\ TypeOK' /\ HashInv' /\ WinnerFirstInv'

LEMMA AllLegs ==
    {WINNER} \cup ({FEE} \cup Members) \cup RefundLegs = Legs
  BY DEF Legs, PayoutLegs

\* Handlers only ever add to the records (markLegConfirmed, syncEscrowHashes,
\* markPoolParticipantPaid, markContributionRefunded).
LEMMA RecordingStep ==
    ASSUME StepContext, UNCHANGED <<chain, claim>>,
           escrow'.refundTx = escrow.refundTx,
           \A l \in PayoutLegs : ledger[l].tx => ledger'[l].tx,
           memberPaid \subseteq memberPaid', returned \subseteq returned'
    PROVE  Money!MoneyNext
<1>1. UNCHANGED MovedLegs
  BY DEF MovedLegs, Moved
<1>2. OnRecord \subseteq OnRecord'
  BY DEF OnRecord
<1>3. OnRecord' \subseteq MovedLegs'
  BY LegsFacts DEF StepContext, HashInv, HashBackedByChain, OnRecord, MovedLegs, TypeOK
<1>4. Money!Record(OnRecord')
  BY <1>1, <1>2, <1>3 DEF Money!Record, MovedLegs
<1>5. OnRecord' \subseteq Legs
  BY <1>3 DEF MovedLegs
<1> QED
  BY <1>4, <1>5, AllLegs DEF Money!MoneyNext

\* A transfer of one leg, or of one the rail remembers.
LEMMA PayingStep ==
    ASSUME StepContext, NEW l \in Legs, NEW a \in Nat, Transfer(l, a),
           UNCHANGED <<ledger, memberPaid, returned, claim, escrow>>
    PROVE  Money!MoneyNext
<1>1. /\ MovedKept /\ Moved(l)'
      /\ \A m \in Legs \ {l} : Moved(m)' = Moved(m)
  BY TransferMoves DEF StepContext
<1>2. MovedLegs' = MovedLegs \cup {l}
  BY <1>1 DEF MovedLegs, MovedKept
<1>3. l \in {FEE} \cup Members => WINNER \in MovedLegs
  <2>1. l \in {FEE} \cup Members => Moved(WINNER)'
    BY <1>1, LegsFacts DEF StepContext, WinnerFirstInv, WinnerFirst, PayoutLegs
  <2> QED
    BY <1>1, <2>1, LegsFacts DEF MovedLegs
<1>4. UNCHANGED <<OnRecord, claim, escrow>>
  BY DEF OnRecord
<1>5. Money!Pay(l)
  BY <1>2, <1>3, <1>4 DEF Money!Pay, MovedLegs
<1> QED
  BY <1>5, AllLegs DEF Money!MoneyNext

\* ensurePendingLegs and syncEscrowHashesOntoLedger take no hash away.
LEMMA SyncedKeeps ==
    ASSUME TypeOK, NoRowNoHash, NEW r \in Requests
    PROVE  \A l \in PayoutLegs :
              /\ ledger[l].tx => Synced(req[r])[l].tx
              /\ Synced(req[r])[l].st = "none" => ~ Synced(req[r])[l].tx
<1> DEFINE q == req[r]
           rows == Inserted(q)
<1> SUFFICES ASSUME NEW l \in PayoutLegs
             PROVE  /\ ledger[l].tx => Synced(q)[l].tx
                    /\ Synced(q)[l].st = "none" => ~ Synced(q)[l].tx
  OBVIOUS
<1>1. ledger[l] \in Row /\ NoRow \in Row /\ req[r].pool \in SUBSET Members
      /\ req[r].winnerRow \in BOOLEAN
  BY DEF TypeOK, Row, NoRow, Request
<1>2. rows[l] \in Row
  <2>1. LegAmount(l, q.pool) \in Nat
    BY <1>1, LegAmountNat, LegsFacts
  <2> QED
    BY <1>1, <2>1 DEF Inserted, Row
<1>3. /\ ledger[l].tx => rows[l].tx
      /\ rows[l].st = "none" => ~ rows[l].tx
  <2>1. CASE ledger[l].st = "none"
    BY <2>1 DEF Inserted, NoRowNoHash
  <2>2. CASE ledger[l].st # "none"
    BY <2>2 DEF Inserted
  <2> QED
    BY <2>1, <2>2
<1> HIDE DEF rows
<1>4. Synced(q)[l] = IF /\ (l = WINNER /\ q.payout) \/ (l = FEE /\ q.fee)
                        /\ l \in Planned(q.pool) /\ RowFound(rows, q, l) /\ ~ rows[l].tx
                     THEN [rows[l] EXCEPT !.st = "confirmed", !.tx = TRUE]
                     ELSE rows[l]
  BY DEF Synced, rows
<1>5. rows[l] \in Row /\ rows[l] = [st |-> rows[l].st, tx |-> rows[l].tx,
                                    amt |-> rows[l].amt, bound |-> rows[l].bound]
  BY <1>2 DEF Row
<1> QED
  BY <1>3, <1>4, <1>5

\* Rows are inserted without a hash, and none goes back to "none".
LEMMA NoRowKept ==
    ASSUME TypeOK, NoRowNoHash, [Next]_vars
    PROVE  NoRowNoHash'
<1>1. ledger \in [PayoutLegs -> Row]
  BY DEF TypeOK
<1>2. CASE UNCHANGED ledger
  BY <1>2 DEF NoRowNoHash
<1>3. ASSUME NEW r \in Requests, PrepareLegs(r)
      PROVE  NoRowNoHash'
  BY <1>3, SyncedKeeps DEF PrepareLegs, NoRowNoHash
<1>4. ASSUME NEW m \in PayoutLegs,
             ledger' \in {[ledger EXCEPT ![m].st = "submitted"],
                         [ledger EXCEPT ![m].st = "failed"],
                         [ledger EXCEPT ![m] = [ledger[m] EXCEPT !.st = "confirmed", !.tx = TRUE]]}
      PROVE  NoRowNoHash'
  BY <1>1, <1>4 DEF NoRowNoHash, Row
<1>5. ASSUME NEW r \in Requests, RefundFinish(r)
      PROVE  NoRowNoHash'
  BY <1>1, <1>5 DEF RefundFinish, NoRowNoHash, Row
<1>6. ASSUME NEW r \in Requests, ConfirmLeg(r) \/ LegError(r)
      PROVE  NoRowNoHash'
  <2>1. CASE req[r].leg \in PayoutLegs
    BY <1>4, <1>6, <2>1 DEF ConfirmLeg, LegError
  <2>2. CASE req[r].leg \notin PayoutLegs
    <3>1. UNCHANGED ledger
      BY <1>1, <1>6, <2>2 DEF ConfirmLeg, LegError
    <3> QED
      BY <1>2, <3>1
  <2> QED
    BY <2>1, <2>2
<1>7. ASSUME NEW r \in Requests, NEW l \in PayoutLegs, SubmitLeg(r, l)
      PROVE  NoRowNoHash'
  BY <1>4, <1>7 DEF SubmitLeg
<1>8. ASSUME NEW r \in Requests, SettleStep(r)
      PROVE  NoRowNoHash'
  <2>1. CASE PrepareLegs(r) \/ ConfirmLeg(r) \/ LegError(r)
             \/ \E l \in PayoutLegs : SubmitLeg(r, l)
    BY <1>3, <1>6, <1>7, <2>1
  <2>2. CASE UNCHANGED ledger
    BY <1>2, <2>2
  <2> QED
    BY <1>8, <2>1, <2>2 DEF SettleStep, SettleRailDown, SettleNotCovered, SettleEnter,
         SettleEnterEscrow, LegNotCovered, SendLeg, RecordLeg, SettleTally, SettleFinish
<1>9. ASSUME NEW r \in Requests, RefundStep(r)
      PROVE  NoRowNoHash'
  BY <1>2, <1>5, <1>9 DEF RefundStep, RefundNotCovered, RefundEnter, RefundEnterEscrow,
       RefundCheck, RefundLegNotCovered, RefundSend, RefundMark, RefundError
<1>10. CASE \/ \E r \in Requests : Arrive(r) \/ Crash(r)
            \/ HookStep
            \/ \E l \in Legs : ExpireKey(l)
            \/ UNCHANGED vars
  <2>1. UNCHANGED ledger
    BY <1>10 DEF Arrive, SettleRead, RefundRead, Crash, ExpireKey, HookStep, MarkRead,
         MarkEligible, MarkSkipped, FreezeRead, FreezeRow, HookStop, HookCrash, vars
  <2> QED
    BY <1>2, <2>1
<1> QED
  BY <1>8, <1>9, <1>10 DEF Next, Handler

LEMMA SettleStepMoney ==
    ASSUME StepContext, NEW r \in Requests, SettleStep(r)
    PROVE  Money!MoneyNext
<1>1. ledger \in [PayoutLegs -> Row] /\ memberPaid \subseteq Members /\ req[r] \in Request
  BY DEF StepContext, TypeOK
<1>2. CASE \/ SettleRailDown(r) \/ SettleNotCovered(r) \/ SettleEnter(r)
           \/ SettleEnterEscrow(r) \/ SettleTally(r)
           \/ \E l \in PayoutLegs : LegNotCovered(r, l)
  <2>1. /\ UNCHANGED <<chain, claim, ledger, memberPaid, returned>>
        /\ escrow' = escrow \/ escrow' = [escrow EXCEPT !.fail = TRUE]
             \/ escrow' = [escrow EXCEPT !.status = "settling"]
    BY <1>2 DEF SettleRailDown, SettleNotCovered, SettleEnter, SettleEnterEscrow,
                SettleTally, LegNotCovered, PersistEscrowFail
  <2>2. escrow'.refundTx = escrow.refundTx
    BY <2>1 DEF StepContext, TypeOK
  <2> QED
    BY <2>1, <2>2, RecordingStep
<1>3. CASE PrepareLegs(r)
  <2>1. /\ UNCHANGED <<chain, claim, escrow, memberPaid, returned>>
        /\ ledger' = Synced(req[r])
    BY <1>3 DEF PrepareLegs
  <2>2. \A l \in PayoutLegs : ledger[l].tx => Synced(req[r])[l].tx
    BY SyncedKeeps DEF StepContext
  <2> QED
    BY <2>1, <2>2, RecordingStep
<1>4. CASE ConfirmLeg(r) \/ LegError(r) \/ \E l \in PayoutLegs : SubmitLeg(r, l)
  <2>1. UNCHANGED <<chain, claim, memberPaid, returned>>
    BY <1>4 DEF ConfirmLeg, LegError, SubmitLeg
  <2>2. escrow' = escrow \/ escrow' = [escrow EXCEPT !.fail = TRUE]
    BY <1>4 DEF ConfirmLeg, LegError, SubmitLeg, PersistEscrowFail
  <2>3. escrow'.refundTx = escrow.refundTx
    BY <2>2 DEF StepContext, TypeOK
  <2>4. ASSUME NEW l \in PayoutLegs, ledger[l].tx
        PROVE  ledger'[l].tx
    <3>1. ledger[l] \in Row
      BY <1>1
    <3>2. ledger'[l] \in {ledger[l], [ledger[l] EXCEPT !.st = "submitted"],
                          [ledger[l] EXCEPT !.st = "failed"],
                          [ledger[l] EXCEPT !.st = "confirmed", !.tx = TRUE]}
      BY <1>1, <1>4 DEF ConfirmLeg, LegError, SubmitLeg
    <3> QED
      BY <2>4, <3>1, <3>2 DEF Row
  <2> QED
    BY <2>1, <2>3, <2>4, RecordingStep
<1>5. CASE SendLeg(r)
  <2>1. req[r].leg \in Legs /\ req[r].pool \in SUBSET Members
    BY <1>1 DEF Request
  <2>2. LegAmount(req[r].leg, req[r].pool) \in Nat
    BY <2>1, LegAmountNat
  <2> QED
    BY <1>5, <2>1, <2>2, PayingStep DEF SendLeg
<1>6. CASE RecordLeg(r)
  <2>1. /\ UNCHANGED <<chain, claim, ledger, returned>>
        /\ memberPaid \subseteq memberPaid'
        /\ escrow'.refundTx = escrow.refundTx
    BY <1>6 DEF RecordLeg, StepContext, TypeOK
  <2> QED
    BY <2>1, RecordingStep
<1>7. CASE SettleFinish(r)
  <2>1. /\ UNCHANGED <<chain, ledger, memberPaid, returned>>
        /\ escrow'.refundTx = escrow.refundTx
        /\ claim' = claim \/ claim' = "paid"
    BY <1>7 DEF SettleFinish, StepContext, TypeOK
  <2>2. CASE claim' = claim
    BY <2>1, <2>2, RecordingStep
  <2>3. CASE claim' = "paid"
    <3>1. UNCHANGED <<MovedLegs, OnRecord>> /\ WINNER \in MovedLegs'
      BY <2>1, <2>3, LegsFacts
         DEF StepContext, HashInv, HashBackedByChain, MovedLegs, OnRecord, Moved
    <3>2. Money!CloseWon
      BY <2>1, <2>3, <3>1 DEF Money!CloseWon, MovedLegs
    <3> QED
      BY <3>2 DEF Money!MoneyNext
  <2> QED
    BY <2>1, <2>2, <2>3
<1> QED
  BY <1>2, <1>3, <1>4, <1>5, <1>6, <1>7 DEF SettleStep

LEMMA RefundStepMoney ==
    ASSUME StepContext, NEW r \in Requests, RefundStep(r)
    PROVE  Money!MoneyNext
<1>1. ledger \in [PayoutLegs -> Row] /\ req[r] \in Request
  BY DEF StepContext, TypeOK
<1>2. CASE \/ RefundNotCovered(r) \/ RefundEnter(r) \/ RefundEnterEscrow(r) \/ RefundError(r)
           \/ \E l \in RefundLegs : RefundCheck(r, l) \/ RefundLegNotCovered(r, l)
  <2>1. /\ UNCHANGED <<chain, claim, ledger, memberPaid, returned>>
        /\ escrow' = escrow \/ escrow' = [escrow EXCEPT !.status = "refunding"]
    BY <1>2 DEF RefundNotCovered, RefundEnter, RefundEnterEscrow, RefundError,
                RefundCheck, RefundLegNotCovered
  <2>2. escrow'.refundTx = escrow.refundTx
    BY <2>1 DEF StepContext, TypeOK
  <2> QED
    BY <2>1, <2>2, RecordingStep
<1>3. CASE RefundSend(r)
  <2>1. req[r].leg \in Legs /\ LegAmount(req[r].leg, {}) \in Nat
    BY <1>1, LegAmountNat DEF Request
  <2> QED
    BY <1>3, <2>1, PayingStep DEF RefundSend
<1>4. CASE RefundMark(r)
  <2>1. /\ UNCHANGED <<chain, claim, ledger, memberPaid, escrow>>
        /\ returned \subseteq returned'
    BY <1>4 DEF RefundMark
  <2> QED
    BY <2>1, RecordingStep
<1>5. CASE RefundFinish(r)
  <2>1. /\ UNCHANGED <<chain, claim, memberPaid, returned>>
        /\ \A l \in PayoutLegs : ledger'[l].tx = ledger[l].tx
        /\ escrow'.refundTx
    BY <1>1, <1>5 DEF RefundFinish, Row, StepContext, TypeOK
  <2>2. UNCHANGED <<MovedLegs, OnRecord>>
    BY <2>1 DEF MovedLegs, Moved, OnRecord
  <2>3. RefundLegs \subseteq MovedLegs
    BY <2>1, LegsFacts DEF StepContext, HashInv, HashBackedByChain, MovedLegs, Moved
  <2>4. Money!CloseRefunded
    BY <2>1, <2>2, <2>3 DEF Money!CloseRefunded, MovedLegs, StepContext, TypeOK
  <2> QED
    BY <2>4 DEF Money!MoneyNext
<1> QED
  BY <1>2, <1>3, <1>4, <1>5 DEF RefundStep

LEMMA NextMergedMoney ==
    ASSUME StepContext, [NextMerged]_vars
    PROVE  [Money!MoneyNext]_Money!moneyVars
<1>1. ASSUME NEW r \in Requests, Handler(r)
      PROVE  Money!MoneyNext
  <2>1. CASE Arrive(r) \/ Crash(r)
    <3>1. UNCHANGED <<chain, claim, escrow, ledger, memberPaid, returned>>
      BY <2>1 DEF Arrive, SettleRead, RefundRead, Crash
    <3> QED
      BY <3>1, RecordingStep
  <2> QED
    BY <1>1, <2>1, SettleStepMoney, RefundStepMoney DEF Handler
<1>2. CASE (\E l \in Legs : ExpireKey(l)) \/ UNCHANGED vars
  <2>1. UNCHANGED <<chain, claim, escrow, ledger, memberPaid, returned>>
    BY <1>2 DEF ExpireKey, vars
  <2> QED
    BY <2>1, RecordingStep
<1> QED
  BY <1>1, <1>2 DEF NextMerged

LEMMA MergedIsSpec == SpecMerged => Spec
<1>1. InitMerged => Init
  BY DEF Init
<1>2. [NextMerged]_vars => [Next]_vars
  BY DEF NextMerged, Next
<1> QED
  BY <1>1, <1>2, PTL DEF SpecMerged, Spec

\* After the merge the handlers of settleEscrow and refundEscrow implement
\* BountyMoney, whatever races, dies, fails and is tried again.
THEOREM ImplementsBountyMoney == SpecMerged => RefinesBountyMoney
<1>1. SpecMerged => Spec
  BY MergedIsSpec
<1>2. InitMerged => Money!MoneyInit
  <2>1. ASSUME NEW freeze, Start("eligible", freeze)
        PROVE  Money!MoneyInit
    BY <2>1, LegsFacts DEF Start, Money!MoneyInit, OnRecord, NoRow, Moved
  <2> QED
    BY <2>1 DEF InitMerged
<1>3. /\ TypeOK /\ HashInv /\ WinnerFirstInv /\ NoRowNoHash
      /\ (TypeOK /\ HashInv /\ WinnerFirstInv)'
      /\ [NextMerged]_vars
      => [Money!MoneyNext]_Money!moneyVars
  BY NextMergedMoney DEF StepContext
<1>4. InitMerged => NoRowNoHash
  BY DEF InitMerged, Start, NoRowNoHash, NoRow
<1>5. TypeOK /\ NoRowNoHash /\ [NextMerged]_vars => NoRowNoHash'
  BY NoRowKept DEF NextMerged, Next
<1>6. SpecMerged => [](TypeOK /\ HashInv /\ WinnerFirstInv)
  BY <1>1, Inductive, WinnerFirstInductive, PTL
<1> QED
  BY <1>2, <1>3, <1>4, <1>5, <1>6, PTL DEF SpecMerged, RefinesBountyMoney, Money!MoneySpec
-----------------------------------------------------------------------------
(* What is paid out, and back, after the merge                              *)

\* The pool does not change any more once the delivery has frozen it.
Pool == frozen \cap Members

\* Every request works on the same plan, and calls the bounty settled only when
\* the plan has been carried out.
PlanKept(q) ==
    /\ q.pc \in SettlePCs => q.pool = Pool /\ q.todo \subseteq Planned(Pool)
    /\ q.pc \in {"settle.send", "settle.confirm", "settle.record"} => q.leg \in Planned(Pool)
    /\ q.pc = "settle.finish" /\ q.term = "settled" => \A l \in Planned(Pool) : Moved(l)

AmountsInv ==
    /\ \A r \in Requests : PlanKept(req[r])
    /\ \A l \in Legs : chain[l].amt = chain[l].n * LegAmount(l, Pool)
    /\ \A l \in PayoutLegs : Moved(l) => l \in Planned(Pool)
    /\ bounty = "settled" => \A l \in Planned(Pool) : Moved(l)

\* A key the rail has not forgotten lets a leg move once.
OnceInv == \A l \in Legs : chain[l].n <= 1 /\ (Moved(l) => keys[l] # {})
-----------------------------------------------------------------------------
(* What a plan adds up to                                                   *)

LEMMA TotalIsSum ==
    ASSUME NEW S, NEW f
    PROVE  Total(S, f) = SumOf(f, S)
  BY DEF Total, SumOf, MapThenSumSet, MapThenFoldSet

LEMMA LegsFinite == IsFiniteSet(PayoutLegs) /\ IsFiniteSet(RefundLegs)
<1>1. /\ IsFiniteSet({WINNER}) /\ IsFiniteSet({FEE}) /\ IsFiniteSet({REFUND})
      /\ {WINNER, FEE} = {WINNER} \cup {FEE}
  BY FS_Singleton
<1>3. IsFiniteSet({WINNER, FEE})
  BY <1>1, FS_Union
<1>2. IsFiniteSet(Members) /\ IsFiniteSet(Contributors)
  BY AmountAssumption
<1> QED
  BY <1>1, <1>2, <1>3, FS_Union DEF PayoutLegs, RefundLegs

\* What a leg comes to (planSettleLegs, contributionRefundPlan).
LEMMA LegAmounts ==
    ASSUME NEW pool
    PROVE  LET n == Cardinality(pool)
           IN  /\ LegAmount(WINNER, pool) = WinnerAtomic(Face, n, FeeBps, PoolBps, MaxPaid)
               /\ LegAmount(FEE, pool) = FeeAtomic(Face, FeeBps)
               /\ \A m \in Members :
                    LegAmount(m, pool) = ShareAtomic(Face, n, FeeBps, PoolBps, MaxPaid)
               /\ LegAmount(REFUND, pool) = Face
               /\ \A c \in Contributors : LegAmount(c, pool) = Contribution[c]
<1>1. WINNER # FEE /\ WINNER # REFUND /\ FEE # REFUND
  BY DEF WINNER, FEE, REFUND
<1> QED
  BY <1>1, LegsAssumption DEF LegAmount

\* The legs of the plan, those that come to nothing being left out, are the face.
LEMMA PlanIsFace ==
    ASSUME NEW pool \in SUBSET Members
    PROVE  SumOf([l \in PayoutLegs |-> LegAmount(l, pool)], Planned(pool)) = Face
<1> DEFINE f == [l \in PayoutLegs |-> LegAmount(l, pool)]
           A == {WINNER, FEE} \cup pool
           n == Cardinality(pool)
<1>1. /\ Planned(pool) \subseteq A /\ A \subseteq PayoutLegs
      /\ WINNER # FEE /\ WINNER \notin pool /\ FEE \notin pool
  BY LegsFacts DEF Planned, PayoutLegs
<1>2. \A l \in PayoutLegs : f[l] = LegAmount(l, pool) /\ f[l] \in Nat
  BY LegAmountNat, LegsFacts
<1>3. \A l \in A \ Planned(pool) : f[l] = 0
  BY <1>1, <1>2 DEF Planned
<1>4. /\ f[WINNER] = WinnerAtomic(Face, n, FeeBps, PoolBps, MaxPaid)
      /\ f[FEE] = FeeAtomic(Face, FeeBps)
      /\ \A m \in pool : f[m] = ShareAtomic(Face, n, FeeBps, PoolBps, MaxPaid)
  BY <1>1, <1>2, LegAmounts
<1>5. IsFiniteSet(A) /\ IsFiniteSet(pool) /\ IsFiniteSet(A \ Planned(pool))
  BY <1>1, LegsFinite, FS_Subset, AmountAssumption
<1>6. n \in Nat /\ n <= MaxPaid
  BY <1>5, FS_CardinalityType, FS_Subset, AmountAssumption
<1> HIDE DEF f
<1>7. SumOf(f, A) = f[WINNER] + (f[FEE] + SumOf(f, pool))
  <2>1. SumOf(f, A) = f[WINNER] + SumOf(f, A \ {WINNER})
    <3>1. (\A l \in A : f[l] \in Nat) /\ WINNER \in A
      BY <1>1, <1>2
    <3> HIDE DEF A
    <3> QED
      BY <1>5, <3>1, SumTake
  <2>2. A \ {WINNER} = {FEE} \cup pool
    BY <1>1
  <2>3. SumOf(f, {FEE} \cup pool) = f[FEE] + SumOf(f, ({FEE} \cup pool) \ {FEE})
    <3> DEFINE B == {FEE} \cup pool
    <3>1. IsFiniteSet(B) /\ FEE \in B /\ \A l \in B : f[l] \in Nat
      BY <1>1, <1>2, <1>5, FS_Subset
    <3> HIDE DEF B
    <3>2. SumOf(f, B) = f[FEE] + SumOf(f, B \ {FEE})
      BY <3>1, SumTake
    <3> QED
      BY <3>2 DEF B
  <2>4. ({FEE} \cup pool) \ {FEE} = pool
    BY <1>1
  <2> QED
    BY <2>1, <2>2, <2>3, <2>4
<1>8. SumOf(f, pool) = n * ShareAtomic(Face, n, FeeBps, PoolBps, MaxPaid)
  BY <1>4, <1>5, <1>6, SplitConserves, FaceIsSum, AmountAssumption, SumConstant
<1>9. SumOf(f, A) = Face
  <2> DEFINE w == WinnerAtomic(Face, n, FeeBps, PoolBps, MaxPaid)
             e == FeeAtomic(Face, FeeBps)
             s == ShareAtomic(Face, n, FeeBps, PoolBps, MaxPaid)
  <2> DEFINE k == PaidCount(n, MaxPaid)
  <2>1. e + w + s * k = Face /\ e \in Nat /\ w \in Nat /\ s \in Nat
    <3>1. /\ Face \in Nat /\ n \in Nat /\ MaxPaid \in Nat
          /\ FeeBps \in 0 .. BpsDenominator /\ PoolBps \in 0 .. BpsDenominator
      BY <1>6, FaceIsSum, AmountAssumption
    <3> HIDE DEF n
    <3> QED
      BY <3>1, SplitConserves
  <2>2. k = n
    BY <1>6, AmountAssumption DEF PaidCount
  <2> HIDE DEF w, e, s, k
  <2>3. SumOf(f, A) = w + (e + n * s)
    BY <1>4, <1>7, <1>8 DEF w, e, s
  <2>4. e + w + s * n = Face
    BY <2>1, <2>2
  <2>5. s * n = n * s /\ n * s \in Nat
    BY <1>6, <2>1
  <2> HIDE DEF n
  <2> QED
    BY <2>1, <2>3, <2>4, <2>5
<1>10. SumOf(f, A) = SumOf(f, Planned(pool)) + SumOf(f, A \ Planned(pool))
  <2>1. \A l \in A : f[l] \in Nat
    BY <1>1, <1>2
  <2> HIDE DEF A
  <2> QED
    BY <1>1, <1>5, <2>1, SumParts
<1>11. SumOf(f, A \ Planned(pool)) = 0
  BY <1>3, <1>5, SumZero
<1>12. SumOf(f, Planned(pool)) \in Nat
  BY <1>1, <1>2, <1>5, FS_Subset, SumNat
<1>13. SumOf(f, Planned(pool)) = Face
  BY <1>9, <1>10, <1>11, <1>12
<1> QED
  BY <1>13 DEF f

\* So are the legs of a refund.
LEMMA RefundIsFace ==
    ASSUME NEW pool
    PROVE  SumOf([l \in RefundLegs |-> LegAmount(l, pool)], RefundLegs) = Face
<1> DEFINE f == [l \in RefundLegs |-> LegAmount(l, pool)]
<1>1. CASE SingleRefund
  <2>1. RefundLegs = {REFUND} /\ f[REFUND] = Face
    BY <1>1, LegAmounts DEF RefundLegs
  <2> HIDE DEF f
  <2>2. SumOf(f, {REFUND}) = f[REFUND] + SumOf(f, {REFUND} \ {REFUND})
    <3> DEFINE S == {REFUND}
    <3>1. IsFiniteSet(S) /\ REFUND \in S /\ \A x \in S : f[x] \in Nat
      BY <2>1, FS_Singleton, FaceIsSum
    <3> HIDE DEF S
    <3>2. SumOf(f, S) = f[REFUND] + SumOf(f, S \ {REFUND})
      BY <3>1, SumTake
    <3> QED
      BY <3>2 DEF S
  <2>3. {REFUND} \ {REFUND} = {}
    OBVIOUS
  <2>4. SumOf(f, RefundLegs) = Face
    BY <2>1, <2>2, <2>3, SumEmpty, FaceIsSum
  <2> QED
    BY <2>4 DEF f
<1>2. CASE ~ SingleRefund
  <2>1. RefundLegs = Contributors /\ \A c \in Contributors : f[c] = Contribution[c]
    BY <1>2, LegAmounts DEF RefundLegs
  <2> HIDE DEF f
  <2>2. SumOf(f, Contributors) = SumOf(Contribution, Contributors)
    BY <2>1, AmountAssumption, SumEqual
  <2>3. SumOf(f, RefundLegs) = Face
    BY <2>1, <2>2, FaceIsSum
  <2> QED
    BY <2>3 DEF f
<1> QED
  BY <1>1, <1>2

LEMMA PlanFacts ==
    ASSUME TypeOK
    PROVE  /\ Pool \in SUBSET Members
           /\ Planned(Pool) \subseteq PayoutLegs /\ Planned(Pool) \subseteq Legs
           /\ \A l \in Legs : LegAmount(l, Pool) \in Nat
<1>1. Pool \in SUBSET Members
  BY DEF Pool
<1> QED
  BY <1>1, LegsFacts, LegAmountNat DEF Planned, PayoutLegs

\* A request that goes on with its plan, or leaves it.
LEMMA PlanStep ==
    ASSUME TypeOK, AmountsInv, NEW r \in Requests, OthersKept(r), MovedKept,
           UNCHANGED frozen, PlanKept(req[r])'
    PROVE  \A s \in Requests : PlanKept(req[s])'
<1> SUFFICES ASSUME NEW s \in Requests, s # r
             PROVE  PlanKept(req[s])'
  OBVIOUS
<1>1. req'[s] = req[s] /\ Pool' = Pool
  BY DEF OthersKept, Pool
<1>2. PlanKept(req[s])
  BY DEF AmountsInv
<1>3. \A l \in Planned(Pool) : Moved(l) => Moved(l)'
  BY PlanFacts DEF MovedKept
<1> QED
  BY <1>1, <1>2, <1>3 DEF PlanKept

\* A request that stays with the plan it has.
LEMMA PlanGoesOn ==
    ASSUME TypeOK, AmountsInv, NEW r \in Requests, req[r].pc \in SettlePCs,
           UNCHANGED frozen, req'[r].pool = req[r].pool,
           req'[r].todo \subseteq req[r].todo,
           req'[r].pc \in {"settle.send", "settle.confirm", "settle.record"} =>
              \/ req'[r].leg \in req[r].todo
              \/ /\ req'[r].leg = req[r].leg
                 /\ req[r].pc \in {"settle.send", "settle.confirm", "settle.record"},
           req'[r].pc # "settle.finish"
    PROVE  PlanKept(req[r])'
<1>1. PlanKept(req[r]) /\ Pool' = Pool
  BY DEF AmountsInv, Pool
<1> QED
  BY <1>1 DEF PlanKept

LEMMA PlanLeft ==
    ASSUME NEW r \in Requests, req'[r].pc \notin SettlePCs
    PROVE  PlanKept(req[r])'
  BY DEF PlanKept, SettlePCs

\* What has moved, and the bounty, when nothing moves.
LEMMA AmountsStep ==
    ASSUME TypeOK, AmountsInv, UNCHANGED <<frozen, chain>>,
           \A s \in Requests : PlanKept(req[s])',
           \/ bounty' = bounty \/ bounty' # "settled"
           \/ \A l \in Planned(Pool) : Moved(l)
    PROVE  AmountsInv'
<1>1. Pool' = Pool /\ \A l \in Legs : Moved(l)' = Moved(l)
  BY DEF Pool, Moved
<1>2. /\ \A l \in Legs : chain[l].amt = chain[l].n * LegAmount(l, Pool)
      /\ \A l \in PayoutLegs : Moved(l) => l \in Planned(Pool)
      /\ bounty = "settled" => \A l \in Planned(Pool) : Moved(l)
  BY DEF AmountsInv
<1>3. bounty' = "settled" => \A l \in Planned(Pool) : Moved(l)
  BY <1>2
<1> QED
  BY <1>1, <1>2, <1>3, PlanFacts, LegsFacts DEF AmountsInv

\* A transfer moves what the plan gives the leg.
LEMMA AmountsTransfer ==
    ASSUME TypeOK, HashInv, AmountsInv, NEW l \in Legs, Transfer(l, LegAmount(l, Pool)),
           l \in PayoutLegs => l \in Planned(Pool), UNCHANGED <<frozen, bounty>>,
           \A s \in Requests : PlanKept(req[s])'
    PROVE  AmountsInv'
<1> DEFINE a == LegAmount(l, Pool)
<1>1. a \in Nat /\ Pool' = Pool
  BY PlanFacts DEF Pool
<1>2. /\ chain \in [Legs -> [n: Nat, amt: Nat]]
      /\ \A m \in Legs : chain[m].amt = chain[m].n * LegAmount(m, Pool)
      /\ \A m \in PayoutLegs : Moved(m) => m \in Planned(Pool)
      /\ bounty = "settled" => \A m \in Planned(Pool) : Moved(m)
  BY DEF TypeOK, AmountsInv
<1>3. \/ UNCHANGED chain
      \/ chain' = [chain EXCEPT ![l] = [n |-> chain[l].n + 1, amt |-> chain[l].amt + a]]
  BY DEF Transfer
<1> HIDE DEF a
<1>4. \A m \in Legs : chain'[m].amt = chain'[m].n * LegAmount(m, Pool)
  <2>1. CASE UNCHANGED chain
    BY <1>2, <2>1
  <2>2. CASE chain' = [chain EXCEPT ![l] = [n |-> chain[l].n + 1, amt |-> chain[l].amt + a]]
    <3>1. chain'[l].n = chain[l].n + 1 /\ chain'[l].amt = chain[l].amt + a
          /\ chain[l].n \in Nat
      BY <1>2, <2>2
    <3>2. chain[l].amt = chain[l].n * a
      BY <1>2 DEF a
    <3>3. chain'[l].amt = chain'[l].n * a
      <4> DEFINE n == chain[l].n
      <4>1. n \in Nat /\ (n + 1) * a = n * a + a
        BY <1>1, <3>1
      <4> QED
        BY <3>1, <3>2, <4>1
    <3>4. \A m \in Legs \ {l} : chain'[m] = chain[m]
      BY <1>2, <2>2
    <3> QED
      BY <1>2, <3>3, <3>4 DEF a
  <2> QED
    BY <1>3, <2>1, <2>2
<1>5. MovedKept /\ \A m \in Legs \ {l} : Moved(m)' = Moved(m)
  BY <1>1, TransferMoves DEF a
<1>6. \A m \in PayoutLegs : Moved(m)' => m \in Planned(Pool)
  BY <1>2, <1>5, LegsFacts
<1>7. bounty' = "settled" => \A m \in Planned(Pool) : Moved(m)'
  BY <1>2, <1>5, PlanFacts DEF MovedKept
<1> QED
  BY <1>1, <1>4, <1>6, <1>7 DEF AmountsInv

LEMMA ReturnPlan ==
    ASSUME TypeOK, AmountsInv, NEW r \in Requests, Return(r), UNCHANGED <<frozen, chain>>
    PROVE  \A s \in Requests : PlanKept(req[s])'
<1>1. OthersKept(r) /\ req'[r] = Idle
  BY ReturnUpdate
<1>2. PlanKept(req[r])'
  BY <1>1, PlanLeft DEF Idle, SettlePCs
<1> QED
  BY <1>1, <1>2, ChainKept, PlanStep

LEMMA SettleReadAmounts ==
    ASSUME TypeOK, AmountsInv, NEW r \in Requests, NEW op \in SettleOps,
           NEW reachable \in SUBSET Members, SettleRead(r, op, reachable)
    PROVE  AmountsInv'
<1> DEFINE recorded == {l \in PayoutLegs : \/ l = WINNER /\ escrow.payoutTx
                                           \/ l = FEE /\ escrow.feeTx
                                           \/ l \in memberPaid}
           todo == {l \in Planned(Pool) \ recorded :
                      /\ InScope(l, op)
                      /\ op = "all" => l \in {WINNER, FEE} \cup reachable}
           x == [Idle EXCEPT !.pc = "settle.read", !.op = op,
                   !.escrow = escrow.status, !.payout = escrow.payoutTx,
                   !.fee = escrow.feeTx, !.fail = escrow.fail, !.pool = Pool,
                   !.winnerRow = WinnerRow \in frozen, !.todo = todo]
<1>1. req'[r] = x /\ OthersKept(r)
  <2>1. req' = [req EXCEPT ![r] = x]
    BY DEF SettleRead, Pool
  <2> HIDE DEF x
  <2> QED
    BY <2>1, ReqUpdate
<1>2. UNCHANGED <<frozen, chain, bounty>>
  BY DEF SettleRead
<1>3. todo \subseteq Planned(Pool)
  OBVIOUS
<1>4. PlanKept(req[r])'
  <2> HIDE DEF todo
  <2>1. x.pc = "settle.read" /\ x.todo = todo /\ x.pool = Pool
    BY DEF Idle
  <2>2. Pool' = Pool
    BY <1>2 DEF Pool
  <2> HIDE DEF x
  <2> QED
    BY <1>1, <1>3, <2>1, <2>2 DEF PlanKept
<1>5. \A s \in Requests : PlanKept(req[s])'
  BY <1>1, <1>2, <1>4, ChainKept, PlanStep
<1> QED
  BY <1>2, <1>5, AmountsStep

LEMMA SettleStepAmounts ==
    ASSUME TypeOK, HashInv, AmountsInv, NEW r \in Requests, SettleStep(r)
    PROVE  AmountsInv'
<1>1. /\ PlanKept(req[r]) /\ RequestHashes(req[r])
      /\ req \in [Requests -> Request] /\ req[r] \in Request
  BY DEF AmountsInv, HashInv, TypeOK
\* A request that goes on with the plan it has, without moving anything.
<1>2. ASSUME req[r].pc \in SettlePCs, OthersKept(r), UNCHANGED <<frozen, chain, bounty>>,
             req'[r].pool = req[r].pool, req'[r].todo \subseteq req[r].todo,
             req'[r].pc \in {"settle.send", "settle.confirm", "settle.record"} =>
                \/ req'[r].leg \in req[r].todo
                \/ /\ req'[r].leg = req[r].leg
                   /\ req[r].pc \in {"settle.send", "settle.confirm", "settle.record"},
             req'[r].pc # "settle.finish"
      PROVE  AmountsInv'
  <2>1. PlanKept(req[r])'
    BY <1>2, PlanGoesOn
  <2>2. \A s \in Requests : PlanKept(req[s])'
    BY <1>2, <2>1, ChainKept, PlanStep
  <2> QED
    BY <1>2, <2>2, AmountsStep
<1>3. CASE SettleRailDown(r) \/ SettleNotCovered(r) \/ \E l \in PayoutLegs : LegNotCovered(r, l)
  <2>1. Return(r) /\ UNCHANGED <<frozen, chain, bounty>>
    BY <1>3 DEF SettleRailDown, SettleNotCovered, LegNotCovered
  <2> QED
    BY <2>1, ReturnPlan, AmountsStep
<1>4. CASE SettleEnter(r) \/ SettleEnterEscrow(r)
  <2>1. /\ UNCHANGED <<chain, frozen>> /\ req[r].pc \in SettlePCs
        /\ bounty' = bounty \/ bounty' = "settling"
    BY <1>4 DEF SettleEnter, SettleEnterEscrow, SettlePCs
  <2>2. PICK pc \in {"settle.entered", "settle.legs"} : Goto(r, pc)
    BY <1>4 DEF SettleEnter, SettleEnterEscrow
  <2>3. OthersKept(r) /\ req'[r] = [req[r] EXCEPT !.pc = pc]
    BY <1>1, <2>2, ReqUpdate DEF Goto
  <2>4. req'[r].pool = req[r].pool /\ req'[r].todo = req[r].todo /\ req'[r].pc = pc
    BY <1>1, <2>3 DEF Request
  <2>5. PlanKept(req[r])'
    BY <2>1, <2>4, PlanGoesOn
  <2>6. \A s \in Requests : PlanKept(req[s])'
    BY <2>1, <2>3, <2>5, ChainKept, PlanStep
  <2> QED
    BY <2>1, <2>6, AmountsStep
<1>5. CASE PrepareLegs(r)
  <2> DEFINE q == req[r]
             rows == Synced(q)
             hasHash(l) == l \in Planned(q.pool) /\ RowFound(rows, q, l) /\ rows[l].tx
             payout == q.payout \/ hasHash(WINNER)
             fee    == q.fee \/ hasHash(FEE)
             todo   == {l \in q.todo : /\ RowFound(rows, q, l)
                                       /\ ~ hasHash(l)
                                       /\ l = WINNER => ~ payout
                                       /\ l = FEE => ~ fee}
             x      == [q EXCEPT !.pc = "settle.next", !.payout = payout, !.fee = fee,
                                 !.todo = todo]
  <2>1. req' = [req EXCEPT ![r] = x] /\ q.pc = "settle.legs"
        /\ UNCHANGED <<frozen, chain, bounty>>
    BY <1>5 DEF PrepareLegs
  <2>2. todo \subseteq q.todo
    OBVIOUS
  <2> HIDE DEF todo, payout, fee
  <2>3. x.pc = "settle.next" /\ x.pool = q.pool /\ x.todo = todo
    BY <1>1 DEF Request
  <2> HIDE DEF x
  <2>4. OthersKept(r) /\ req'[r] = x
    BY <2>1, ReqUpdate
  <2> QED
    BY <1>2, <2>1, <2>2, <2>3, <2>4 DEF SettlePCs
<1>6. ASSUME NEW l \in PayoutLegs, SubmitLeg(r, l)
      PROVE  AmountsInv'
  <2>1. /\ OthersKept(r) /\ req'[r].pc = "settle.send" /\ req'[r].leg = l
        /\ req'[r].pool = req[r].pool /\ req'[r].todo = req[r].todo
    BY <1>1, <1>6, ReqUpdate DEF SubmitLeg, Request
  <2>2. l \in req[r].todo /\ req[r].pc \in SettlePCs
    BY <1>6 DEF SubmitLeg, IsNext, SettlePCs
  <2> QED
    BY <1>2, <1>6, <2>1, <2>2 DEF SubmitLeg
<1>7. CASE SendLeg(r)
  <2> DEFINE l == req[r].leg
  <2>1. /\ req[r].pc = "settle.send" /\ req[r].pc \in SettlePCs
        /\ req[r].pool = Pool /\ l \in Planned(Pool) /\ l \in Legs
    BY <1>1, <1>7, PlanFacts DEF SendLeg, PlanKept, SettlePCs
  <2>2. Transfer(l, LegAmount(l, Pool)) /\ UNCHANGED <<frozen, bounty>>
    BY <1>7, <2>1 DEF SendLeg
  <2>3. /\ OthersKept(r) /\ req'[r].pc = "settle.confirm" /\ req'[r].pool = req[r].pool
        /\ req'[r].todo = req[r].todo /\ req'[r].leg = req[r].leg
    BY <1>1, <1>7, ReqUpdate DEF SendLeg, Goto, Request
  <2>4. MovedKept
    BY <2>1, <2>2, TransferMoves, PlanFacts
  <2>5. PlanKept(req[r])'
    BY <2>1, <2>2, <2>3, PlanGoesOn
  <2>6. \A s \in Requests : PlanKept(req[s])'
    BY <2>2, <2>3, <2>4, <2>5, PlanStep
  <2> QED
    BY <2>1, <2>2, <2>6, AmountsTransfer
<1>8. CASE ConfirmLeg(r) \/ RecordLeg(r)
  <2>1. CASE ConfirmLeg(r)
    <3>1. /\ OthersKept(r) /\ req'[r].pc = "settle.record" /\ req'[r].leg = req[r].leg
          /\ req'[r].pool = req[r].pool /\ req'[r].todo = req[r].todo
      BY <1>1, <2>1, ReqUpdate DEF ConfirmLeg, Request
    <3> QED
      BY <1>2, <2>1, <3>1 DEF ConfirmLeg, SettlePCs
  <2>2. CASE RecordLeg(r)
    <3>1. /\ OthersKept(r) /\ req'[r].pc = "settle.next"
          /\ req'[r].pool = req[r].pool /\ req'[r].todo \subseteq req[r].todo
      BY <1>1, <2>2, ReqUpdate DEF RecordLeg, Request
    <3> QED
      BY <1>2, <2>2, <3>1 DEF RecordLeg, SettlePCs
  <2> QED
    BY <1>8, <2>1, <2>2
<1>9. CASE LegError(r)
  <2> DEFINE l == req[r].leg
  <2>1. req[r].pc \in SettlePCs /\ UNCHANGED <<frozen, chain, bounty>>
    BY <1>9 DEF LegError, SettlePCs
  <2>2. CASE l = WINNER
    <3>1. Return(r)
      BY <1>9, <2>2 DEF LegError, Return
    <3> QED
      BY <2>1, <3>1, ReturnPlan, AmountsStep
  <2>3. CASE l # WINNER
    <3>1. /\ OthersKept(r) /\ req'[r].pc = "settle.next"
          /\ req'[r].pool = req[r].pool /\ req'[r].todo \subseteq req[r].todo
      BY <1>1, <1>9, <2>3, ReqUpdate DEF LegError, Request
    <3> QED
      BY <1>2, <2>1, <3>1
  <2> QED
    BY <2>2, <2>3
\* "settled" only with a hash for every leg of the plan, and a hash stands for
\* a transfer.
<1>10. CASE SettleTally(r)
  <2>1. req[r].pc \in SettlePCs /\ req[r].pool = Pool /\ req[r].todo \subseteq Planned(Pool)
        /\ UNCHANGED <<frozen, chain, bounty>>
    BY <1>1, <1>10 DEF SettleTally, PlanKept, SettlePCs
  <2>2. /\ OthersKept(r) /\ req'[r].pc = "settle.finish" /\ req'[r].pool = req[r].pool
        /\ req'[r].todo = req[r].todo
        /\ req'[r].term = IF IntendedConfirmed(req[r]) THEN "settled" ELSE "settled_partial"
    <3> DEFINE t == IF IntendedConfirmed(req[r]) THEN "settled" ELSE "settled_partial"
    <3>1. req' = [req EXCEPT ![r] = [req[r] EXCEPT !.pc = "settle.finish", !.term = t]]
      BY <1>10 DEF SettleTally
    <3> HIDE DEF t
    <3>2. OthersKept(r) /\ req'[r] = [req[r] EXCEPT !.pc = "settle.finish", !.term = t]
      BY <3>1, ReqUpdate
    <3>3. /\ req'[r].pc = "settle.finish" /\ req'[r].pool = req[r].pool
          /\ req'[r].todo = req[r].todo /\ req'[r].term = t
      BY <1>1, <3>2 DEF Request
    <3> QED
      BY <3>2, <3>3 DEF t
  <2>3. IntendedConfirmed(req[r]) => \A l \in Planned(Pool) : Moved(l)
    <3>1. /\ \A l \in PayoutLegs : ledger[l].tx => Moved(l)
          /\ req[r].payout => Moved(WINNER)
          /\ req[r].fee => Moved(FEE)
      BY <1>1 DEF HashInv, HashBackedByChain, RequestHashes
    <3> QED
      BY <2>1, <3>1, PlanFacts DEF IntendedConfirmed
  <2>4. Pool' = Pool /\ \A l \in Legs : Moved(l)' = Moved(l)
    BY <2>1, ChainKept DEF Pool
  <2>5. PlanKept(req[r])'
    BY <2>1, <2>2, <2>3, <2>4, PlanFacts DEF PlanKept
  <2> QED
    BY <2>1, <2>2, <2>5, ChainKept, PlanStep, AmountsStep
<1>11. CASE SettleFinish(r)
  <2>1. Return(r) /\ UNCHANGED <<frozen, chain>> /\ bounty' = req[r].term
        /\ req[r].pc = "settle.finish"
    BY <1>11 DEF SettleFinish
  <2>2. bounty' = "settled" => \A l \in Planned(Pool) : Moved(l)
    BY <1>1, <2>1 DEF PlanKept
  <2> QED
    BY <2>1, <2>2, ReturnPlan, AmountsStep
<1> QED
  BY <1>3, <1>4, <1>5, <1>6, <1>7, <1>8, <1>9, <1>10, <1>11 DEF SettleStep

\* A refund leg comes to the same whatever the pool.
LEMMA RefundAmounts ==
    ASSUME TypeOK, HashInv, AmountsInv, NEW r \in Requests,
           (\E op \in RefundOps : RefundRead(r, op)) \/ RefundStep(r)
    PROVE  AmountsInv'
<1>1. req \in [Requests -> Request] /\ req[r] \in Request /\ RequestHashes(req[r])
  BY DEF TypeOK, HashInv
<1>2. ASSUME OthersKept(r), req'[r].pc \notin SettlePCs, UNCHANGED <<frozen, chain>>,
             bounty' = bounty \/ bounty' # "settled"
      PROVE  AmountsInv'
  <2>1. \A s \in Requests : PlanKept(req[s])'
    BY <1>2, ChainKept, PlanLeft, PlanStep
  <2> QED
    BY <1>2, <2>1, AmountsStep
<1>3. ASSUME NEW op \in RefundOps, RefundRead(r, op)
      PROVE  AmountsInv'
  <2>1. OthersKept(r)
    BY <1>3, ReqUpdate DEF RefundRead
  <2>2. req'[r].pc = "refund.read"
    BY <1>1, <1>3 DEF RefundRead, Idle
  <2> QED
    BY <1>2, <1>3, <2>1, <2>2 DEF RefundRead, SettlePCs
<1>4. CASE RefundEnter(r) \/ RefundEnterEscrow(r)
  <2>1. PICK pc \in {"refund.entered", "refund.next"} : Goto(r, pc)
    BY <1>4 DEF RefundEnter, RefundEnterEscrow
  <2>2. OthersKept(r) /\ req'[r].pc = pc
    BY <2>1, GotoUpdate DEF PCs
  <2> QED
    BY <1>2, <1>4, <2>2 DEF RefundEnter, RefundEnterEscrow, SettlePCs
<1>5. ASSUME NEW l \in RefundLegs, RefundCheck(r, l)
      PROVE  AmountsInv'
  <2>1. OthersKept(r) /\ req'[r].pc = "refund.send"
    BY <1>1, <1>5, ReqUpdate DEF RefundCheck, Request
  <2> QED
    BY <1>2, <1>5, <2>1 DEF RefundCheck, SettlePCs
<1>6. CASE \/ RefundNotCovered(r) \/ RefundError(r) \/ RefundFinish(r)
           \/ \E l \in RefundLegs : RefundLegNotCovered(r, l)
  <2>1. /\ Return(r) /\ UNCHANGED <<frozen, chain>>
        /\ bounty' = bounty \/ bounty' # "settled"
    BY <1>6 DEF RefundNotCovered, RefundError, RefundFinish, RefundLegNotCovered
  <2> QED
    BY <2>1, ReturnPlan, AmountsStep
<1>7. CASE RefundMark(r)
  <2>1. OthersKept(r) /\ req'[r].pc = "refund.next"
    BY <1>1, <1>7, ReqUpdate DEF RefundMark, Request
  <2> QED
    BY <1>2, <1>7, <2>1 DEF RefundMark, SettlePCs
<1>8. CASE RefundSend(r)
  <2> DEFINE l == req[r].leg
  <2>1. l \in RefundLegs /\ l \in Legs /\ l \notin PayoutLegs
    BY <1>1, <1>8, LegsFacts DEF RefundSend, RequestHashes
  <2>2. LegAmount(l, {}) = LegAmount(l, Pool)
    BY <2>1 DEF LegAmount, PayoutLegs
  <2>3. Transfer(l, LegAmount(l, Pool)) /\ UNCHANGED <<frozen, bounty>>
    BY <1>8, <2>2 DEF RefundSend
  <2>4. MovedKept
    BY <2>1, <2>3, TransferMoves, PlanFacts
  <2>5. OthersKept(r) /\ req'[r].pc \in {"refund.next", "refund.mark"}
    BY <1>1, <1>8, ReqUpdate DEF RefundSend, Request
  <2>6. \A s \in Requests : PlanKept(req[s])'
    BY <2>3, <2>4, <2>5, PlanLeft, PlanStep DEF SettlePCs
  <2> QED
    BY <2>1, <2>3, <2>6, AmountsTransfer
<1> QED
  BY <1>3, <1>4, <1>5, <1>6, <1>7, <1>8 DEF RefundStep

LEMMA AmountsNext ==
    ASSUME TypeOK, HashInv, AmountsInv, [NextMerged]_vars
    PROVE  AmountsInv'
<1>1. ASSUME NEW r \in Requests, Handler(r)
      PROVE  AmountsInv'
  <2>1. ASSUME NEW op \in SettleOps, NEW reachable \in SUBSET Members,
               SettleRead(r, op, reachable)
        PROVE  AmountsInv'
    BY <2>1, SettleReadAmounts
  <2>2. CASE SettleStep(r)
    BY <2>2, SettleStepAmounts
  <2>3. CASE (\E op \in RefundOps : RefundRead(r, op)) \/ RefundStep(r)
    BY <2>3, RefundAmounts
  <2>4. CASE Crash(r)
    <3>1. Return(r) /\ UNCHANGED <<chain, frozen, bounty>>
      BY <2>4 DEF Crash
    <3> QED
      BY <3>1, ReturnPlan, AmountsStep
  <2> QED
    BY <1>1, <2>1, <2>2, <2>3, <2>4 DEF Handler, Arrive
<1>2. CASE (\E l \in Legs : ExpireKey(l)) \/ UNCHANGED vars
  <2>1. UNCHANGED <<chain, frozen, bounty, req>>
    BY <1>2 DEF ExpireKey, vars
  <2>2. Pool' = Pool
    BY <2>1 DEF Pool
  <2> QED
    BY <2>1, <2>2, LegsFacts, PlanFacts DEF AmountsInv, PlanKept, Moved
<1> QED
  BY <1>1, <1>2 DEF NextMerged

\* Each leg is transferred once while the rail remembers its key.
LEMMA OnceTransfer ==
    ASSUME TypeOK, OnceInv, NEW l \in Legs, NEW a \in Nat, Transfer(l, a)
    PROVE  OnceInv'
<1>1. /\ chain \in [Legs -> [n: Nat, amt: Nat]]
      /\ keys \in [Legs -> SUBSET Nat]
  BY DEF TypeOK
<1>2. CASE keys[l] = {}
  <2>1. /\ chain' = [chain EXCEPT ![l] = [n |-> chain[l].n + 1, amt |-> chain[l].amt + a]]
        /\ keys' = [keys EXCEPT ![l] = {a}]
    BY <1>2 DEF Transfer
  <2>2. chain'[l].n = chain[l].n + 1 /\ chain[l].n = 0 /\ keys'[l] # {}
    BY <1>1, <1>2, <2>1 DEF OnceInv, Moved
  <2>3. \A m \in Legs \ {l} : chain'[m] = chain[m] /\ keys'[m] = keys[m]
    BY <1>1, <2>1
  <2> QED
    BY <1>1, <2>2, <2>3 DEF OnceInv, Moved
<1>3. CASE keys[l] # {}
  <2>1. UNCHANGED <<chain, keys>>
    BY <1>3 DEF Transfer
  <2> QED
    BY <2>1 DEF OnceInv, Moved
<1> QED
  BY <1>2, <1>3

LEMMA OnceNext ==
    ASSUME TypeOK, HashInv, OnceInv, KeysExpire = FALSE, [NextMerged]_vars
    PROVE  OnceInv'
<1>1. CASE UNCHANGED <<chain, keys>>
  BY <1>1 DEF OnceInv, Moved
<1>2. ASSUME NEW r \in Requests, SendLeg(r) \/ RefundSend(r)
      PROVE  OnceInv'
  <2>1. req[r].leg \in Legs /\ req[r].pool \in SUBSET Members
    BY DEF TypeOK, Request
  <2>2. /\ LegAmount(req[r].leg, req[r].pool) \in Nat
        /\ LegAmount(req[r].leg, {}) \in Nat
    BY <2>1, LegAmountNat
  <2> QED
    BY <1>2, <2>1, <2>2, OnceTransfer DEF SendLeg, RefundSend
<1>3. ASSUME NEW r \in Requests, SettleStep(r)
      PROVE  OnceInv'
  <2>1. SendLeg(r) \/ UNCHANGED <<chain, keys>>
    BY <1>3 DEF SettleStep, SettleRailDown, SettleNotCovered, SettleEnter,
         SettleEnterEscrow, PrepareLegs, SubmitLeg, LegNotCovered, ConfirmLeg,
         RecordLeg, LegError, SettleTally, SettleFinish
  <2> QED
    BY <1>1, <1>2, <2>1
<1>4. ASSUME NEW r \in Requests, RefundStep(r)
      PROVE  OnceInv'
  <2>1. RefundSend(r) \/ UNCHANGED <<chain, keys>>
    BY <1>4 DEF RefundStep, RefundNotCovered, RefundEnter, RefundEnterEscrow,
         RefundCheck, RefundLegNotCovered, RefundMark, RefundError, RefundFinish
  <2> QED
    BY <1>1, <1>2, <2>1
<1>5. CASE (\E r \in Requests : Arrive(r) \/ Crash(r)) \/ UNCHANGED vars
  <2>1. UNCHANGED <<chain, keys>>
    BY <1>5 DEF Arrive, SettleRead, RefundRead, Crash, vars
  <2> QED
    BY <1>1, <2>1
<1> QED
  BY <1>3, <1>4, <1>5 DEF NextMerged, Handler, ExpireKey

\* The inductive invariant of the amounts.
THEOREM AmountsInductive == SpecMerged => []AmountsInv
<1>1. SpecMerged => Spec
  BY MergedIsSpec
<1>2. InitMerged => AmountsInv
  <2>1. ASSUME NEW eligible \in SUBSET Members, Start("eligible", {WinnerRow} \cup eligible)
        PROVE  AmountsInv
    <3>1. /\ \A l \in Legs : chain[l].n = 0 /\ chain[l].amt = 0
          /\ \A r \in Requests : req[r] = Idle
          /\ bounty = "funded"
      BY <2>1 DEF Start
    <3>2. TypeOK
      BY <2>1, TypeInit DEF Init, InitMerged
    <3>3. \A l \in Legs : chain[l].amt = chain[l].n * LegAmount(l, Pool)
      BY <3>1, <3>2, PlanFacts
    <3> QED
      BY <3>1, <3>3, LegsFacts DEF AmountsInv, PlanKept, Moved, Idle, SettlePCs
  <2> QED
    BY <2>1 DEF InitMerged
<1>3. TypeOK /\ HashInv /\ AmountsInv /\ [NextMerged]_vars => AmountsInv'
  BY AmountsNext
<1> QED
  BY <1>1, <1>2, <1>3, Inductive, PTL DEF SpecMerged

LEMMA OnceInductive ==
    ASSUME KeysExpire = FALSE
    PROVE  SpecMerged => []OnceInv
<1>1. SpecMerged => Spec
  BY MergedIsSpec
<1>2. InitMerged => OnceInv
  BY DEF InitMerged, Start, OnceInv, Moved
<1>3. TypeOK /\ HashInv /\ OnceInv /\ [NextMerged]_vars => OnceInv'
  BY OnceNext
<1> QED
  BY <1>1, <1>2, <1>3, Inductive, PTL DEF SpecMerged

LEMMA Quotient ==
    ASSUME NEW n \in Nat \ {0}, NEW a \in Nat
    PROVE  (n * a) \div n = a
<1> DEFINE q == (n * a) \div n
<1>1. n * a \in Nat
  OBVIOUS
<1>2. q \in Nat /\ n * q <= n * a /\ n * a - n * q < n
  BY <1>1, DivBounds
<1> HIDE DEF q
<1>3. ~ q > a
  <2> SUFFICES ASSUME q > a
               PROVE  FALSE
    OBVIOUS
  <2>1. n * q >= n * (a + 1)
    BY <1>2
  <2>2. n * (a + 1) = n * a + n
    OBVIOUS
  <2> QED
    BY <1>1, <1>2, <2>1, <2>2
<1>4. ~ q < a
  <2> SUFFICES ASSUME q < a
               PROVE  FALSE
    OBVIOUS
  <2>1. n * a >= n * (q + 1)
    BY <1>2
  <2>2. n * (q + 1) = n * q + n
    BY <1>2
  <2> QED
    BY <1>1, <1>2, <2>1, <2>2
<1>5. q = a
  BY <1>2, <1>3, <1>4
<1> QED
  BY <1>5 DEF q

LEMMA SettledAmounts ==
    ASSUME TypeOK, AmountsInv
    PROVE  SettledMeansPaid
<1> DEFINE f == [l \in PayoutLegs |-> PerTransfer(l)]
           h == [l \in PayoutLegs |-> LegAmount(l, Pool)]
<1> SUFFICES ASSUME bounty = "settled"
             PROVE  SumOf(f, PayoutLegs) = Face
  BY TotalIsSum DEF SettledMeansPaid
<1>1. \A l \in Planned(Pool) : f[l] = h[l]
  <2> SUFFICES ASSUME NEW l \in Planned(Pool)
               PROVE  PerTransfer(l) = LegAmount(l, Pool)
    BY PlanFacts
  <2>1. /\ Moved(l) /\ l \in Legs
        /\ chain[l].amt = chain[l].n * LegAmount(l, Pool)
        /\ LegAmount(l, Pool) \in Nat
    BY PlanFacts DEF AmountsInv
  <2>2. chain[l].n \in Nat \ {0}
    BY <2>1 DEF TypeOK, Moved
  <2> QED
    BY <2>1, <2>2, Quotient DEF PerTransfer
<1>2. \A l \in PayoutLegs \ Planned(Pool) : f[l] = 0
  <2>1. \A l \in PayoutLegs \ Planned(Pool) : ~ Moved(l)
    BY DEF AmountsInv
  <2>2. \A l \in PayoutLegs : ~ Moved(l) => PerTransfer(l) = 0
    BY DEF PerTransfer
  <2> QED
    BY <2>1, <2>2
<1>3. \A l \in PayoutLegs : f[l] \in Nat
  <2>1. \A l \in PayoutLegs : h[l] \in Nat
    BY PlanFacts, LegsFacts
  <2> HIDE DEF f, h
  <2> QED
    BY <1>1, <1>2, <2>1
<1>4. /\ IsFiniteSet(PayoutLegs) /\ IsFiniteSet(Planned(Pool))
      /\ IsFiniteSet(PayoutLegs \ Planned(Pool))
  BY LegsFinite, PlanFacts, FS_Subset
<1>5. SumOf(h, Planned(Pool)) = Face
  BY PlanIsFace, PlanFacts
<1> HIDE DEF f, h
<1>6. SumOf(f, Planned(Pool)) = Face
  <2>1. SumOf(f, Planned(Pool)) = SumOf(h, Planned(Pool))
    BY <1>1, <1>4, SumEqual
  <2> QED
    BY <1>5, <2>1
<1>7. SumOf(f, PayoutLegs \ Planned(Pool)) = 0
  BY <1>2, <1>4, SumZero
<1>8. SumOf(f, PayoutLegs) = SumOf(f, Planned(Pool)) + SumOf(f, PayoutLegs \ Planned(Pool))
  BY <1>3, <1>4, PlanFacts, SumParts
<1> QED
  BY <1>6, <1>7, <1>8, FaceIsSum

\* A bounty that says "settled" has paid its whole face to the winner, the
\* platform and the frozen members, dust included, whatever raced, failed or
\* was repeated on the way (loadAllocationLegs, planSettleLegs).
THEOREM SettledPaid == SpecMerged => []SettledMeansPaid
<1>1. SpecMerged => []TypeOK
  BY MergedIsSpec, TypeCorrect, PTL
<1>2. TypeOK /\ AmountsInv => SettledMeansPaid
  BY SettledAmounts
<1> QED
  BY <1>1, <1>2, AmountsInductive, PTL

LEMMA SideAmounts ==
    ASSUME TypeOK, AmountsInv, OnceInv
    PROVE  EachSideWithinFace
<1> DEFINE f == [l \in PayoutLegs |-> chain[l].amt]
           h == [l \in PayoutLegs |-> LegAmount(l, Pool)]
           g == [l \in RefundLegs |-> chain[l].amt]
           k == [l \in RefundLegs |-> LegAmount(l, Pool)]
<1>1. \A l \in Legs : /\ chain[l].amt \in Nat /\ LegAmount(l, Pool) \in Nat
                      /\ chain[l].amt <= LegAmount(l, Pool)
                      /\ ~ Moved(l) => chain[l].amt = 0
  <2> SUFFICES ASSUME NEW l \in Legs
               PROVE  /\ chain[l].amt \in Nat /\ LegAmount(l, Pool) \in Nat
                      /\ chain[l].amt <= LegAmount(l, Pool)
                      /\ ~ Moved(l) => chain[l].amt = 0
    OBVIOUS
  <2>1. /\ chain[l].n \in Nat /\ chain[l].n <= 1
        /\ chain[l].amt = chain[l].n * LegAmount(l, Pool)
        /\ LegAmount(l, Pool) \in Nat
    BY PlanFacts DEF TypeOK, AmountsInv, OnceInv
  <2>2. CASE chain[l].n = 0
    BY <2>1, <2>2
  <2>3. CASE chain[l].n = 1
    BY <2>1, <2>3 DEF Moved
  <2> QED
    BY <2>1, <2>2, <2>3
<1>2. /\ IsFiniteSet(PayoutLegs) /\ IsFiniteSet(Planned(Pool)) /\ IsFiniteSet(RefundLegs)
      /\ IsFiniteSet(PayoutLegs \ Planned(Pool))
  BY LegsFinite, PlanFacts, FS_Subset
<1>3. /\ \A l \in PayoutLegs : f[l] \in Nat /\ h[l] \in Nat /\ f[l] <= h[l]
      /\ \A l \in RefundLegs : g[l] \in Nat /\ k[l] \in Nat /\ g[l] <= k[l]
      /\ \A l \in PayoutLegs \ Planned(Pool) : f[l] = 0
  BY <1>1, LegsFacts DEF AmountsInv
<1>4. SumOf(h, Planned(Pool)) = Face /\ SumOf(k, RefundLegs) = Face
  BY PlanIsFace, RefundIsFace, PlanFacts
<1>5. /\ Total(PayoutLegs, f) = SumOf(f, PayoutLegs)
      /\ Total(RefundLegs, g) = SumOf(g, RefundLegs)
  BY TotalIsSum
<1> HIDE DEF f, g, h, k
<1>6. SumOf(f, Planned(Pool)) <= SumOf(h, Planned(Pool))
  <2>1. \A l \in Planned(Pool) : f[l] \in Nat /\ h[l] \in Nat /\ f[l] <= h[l]
    BY <1>3, PlanFacts
  <2> QED
    BY <1>2, <2>1, SumLess
<1>7. SumOf(f, PayoutLegs) = SumOf(f, Planned(Pool)) + SumOf(f, PayoutLegs \ Planned(Pool))
  BY <1>2, <1>3, PlanFacts, SumParts
<1>8. SumOf(f, PayoutLegs \ Planned(Pool)) = 0
  BY <1>2, <1>3, SumZero
<1>9. SumOf(f, Planned(Pool)) \in Nat
  BY <1>2, <1>3, PlanFacts, SumNatSubset
<1>10. SumOf(f, PayoutLegs) <= Face
  BY <1>4, <1>6, <1>7, <1>8, <1>9
<1>11. SumOf(g, RefundLegs) <= Face
  BY <1>2, <1>3, <1>4, SumLess
<1> QED
  BY <1>5, <1>10, <1>11 DEF EachSideWithinFace, f, g

\* While the rail remembers its keys, the hunters' side of a bounty gets no
\* more than the face and neither does the funders' side, however many claims,
\* cancels and expiries race, fail and are repeated: what a race can lose is
\* one face.
THEOREM SidesWithinFace ==
    ASSUME KeysExpire = FALSE
    PROVE  SpecMerged => []EachSideWithinFace
<1>1. SpecMerged => []TypeOK
  BY MergedIsSpec, TypeCorrect, PTL
<1>2. TypeOK /\ AmountsInv /\ OnceInv => EachSideWithinFace
  BY SideAmounts
<1> QED
  BY <1>1, <1>2, AmountsInductive, OnceInductive, PTL
-----------------------------------------------------------------------------
(* Paid out or returned, when handlers do not overlap                       *)

PaySide == {"settling", "settled", "settled_partial"}
BackSide == {"refunding", "cancelled", "expired"}

\* A handler works on the side the bounty is on: what it read of the bounty
\* still holds when it writes, because no other handler runs in between.
SideKept(q) ==
    /\ q.pc = "settle.read" => /\ bounty \in PaySide \cup {"funded"}
                               /\ q.escrow # "funded" => bounty # "funded"
    /\ q.pc \in SettlePCs \ {"settle.read"} => bounty \in PaySide
    /\ q.pc = "refund.read" => bounty \in {"funded", "refunding"}
    /\ q.pc \in RefundPCs \ {"refund.read"} => bounty = "refunding"

SidesInv ==
    /\ \A r \in Requests : SideKept(req[r])
    /\ (\E l \in PayoutLegs : Moved(l)) => bounty \in PaySide
    /\ (\E l \in RefundLegs : Moved(l)) => bounty \in BackSide
    /\ bounty = "funded" => escrow.status = "funded"

\* One handler at a time.
Alone(r) == \A s \in Requests : s = r

LEMMA PayingSide ==
    ASSUME NEW r \in Requests, bounty' \in PaySide,
           req'[r].pc \in SettlePCs \ {"settle.read"}
    PROVE  SideKept(req[r])'
  BY DEF SideKept, SettlePCs, RefundPCs

LEMMA ReturningSide ==
    ASSUME NEW r \in Requests, bounty' = "refunding",
           req'[r].pc \in RefundPCs \ {"refund.read"}
    PROVE  SideKept(req[r])'
  BY DEF SideKept, SettlePCs, RefundPCs

LEMMA ReturnSide ==
    ASSUME TypeOK, NEW r \in Requests, Return(r)
    PROVE  SideKept(req[r])'
<1>1. req'[r] = Idle
  BY ReturnUpdate
<1> QED
  BY <1>1 DEF SideKept, Idle, SettlePCs, RefundPCs

\* The bounty stays on its side, or leaves "funded" for one.
LEMMA QuietSides ==
    ASSUME TypeOK, SidesInv, NEW r \in Requests, Alone(r), UNCHANGED chain,
           \/ bounty' = bounty
           \/ bounty \in PaySide \cup {"funded"} /\ bounty' \in PaySide
           \/ bounty \in BackSide \cup {"funded"} /\ bounty' \in BackSide,
           bounty' = "funded" => escrow'.status = "funded",
           SideKept(req[r])'
    PROVE  SidesInv'
<1>1. \A l \in Legs : Moved(l)' = Moved(l)
  BY ChainKept
<1>2. \A s \in Requests : SideKept(req[s])'
  BY DEF Alone
<1>3. (\E l \in PayoutLegs : Moved(l)') => bounty' \in PaySide
  BY <1>1, LegsFacts DEF SidesInv, PaySide, BackSide
<1>4. (\E l \in RefundLegs : Moved(l)') => bounty' \in BackSide
  BY <1>1, LegsFacts DEF SidesInv, PaySide, BackSide
<1> QED
  BY <1>2, <1>3, <1>4 DEF SidesInv

\* A transfer on the side the bounty is on.
LEMMA SendSides ==
    ASSUME TypeOK, HashInv, SidesInv, NEW r \in Requests, Alone(r),
           NEW l \in Legs, NEW a \in Nat, Transfer(l, a), UNCHANGED <<bounty, escrow>>,
           \/ l \in PayoutLegs /\ bounty \in PaySide
           \/ l \in RefundLegs /\ bounty \in BackSide,
           SideKept(req[r])'
    PROVE  SidesInv'
<1>1. \A m \in Legs \ {l} : Moved(m)' = Moved(m)
  BY TransferMoves
<1>2. \A s \in Requests : SideKept(req[s])'
  BY DEF Alone
<1>3. (\E m \in PayoutLegs : Moved(m)') => bounty' \in PaySide
  BY <1>1, LegsFacts DEF SidesInv
<1>4. (\E m \in RefundLegs : Moved(m)') => bounty' \in BackSide
  BY <1>1, LegsFacts DEF SidesInv
<1> QED
  BY <1>2, <1>3, <1>4 DEF SidesInv

LEMMA ArriveSides ==
    ASSUME TypeOK, SidesInv, NEW r \in Requests, Alone(r), Arrive(r)
    PROVE  SidesInv'
<1>1. ASSUME NEW op \in SettleOps, NEW reachable \in SUBSET Members,
             SettleRead(r, op, reachable)
      PROVE  SidesInv'
  <2>1. /\ bounty \in PaySide \cup {"funded"} /\ UNCHANGED <<bounty, escrow, chain>>
        /\ escrow.status # "funded" => bounty # "funded"
    BY <1>1 DEF SettleRead, SETTLEABLE, PaySide, SidesInv
  <2>2. \E pool, payout, fee, fail, winner, todo :
          req' = [req EXCEPT ![r] =
             [Idle EXCEPT !.pc = "settle.read", !.op = op,
                !.escrow = escrow.status, !.payout = payout, !.fee = fee, !.fail = fail,
                !.pool = pool, !.winnerRow = winner, !.todo = todo]]
    BY <1>1 DEF SettleRead
  <2>3. req'[r].pc = "settle.read" /\ req'[r].escrow = escrow.status
    BY <2>2 DEF TypeOK, Idle
  <2>4. SideKept(req[r])'
    BY <2>1, <2>3 DEF SideKept, SettlePCs, RefundPCs
  <2> QED
    BY <2>1, <2>4, QuietSides DEF SidesInv
<1>2. ASSUME NEW op \in RefundOps, RefundRead(r, op)
      PROVE  SidesInv'
  <2>1. bounty \in {"funded", "refunding"} /\ UNCHANGED <<bounty, escrow, chain>>
    BY <1>2 DEF RefundRead, REFUNDABLE
  <2>2. req'[r].pc = "refund.read"
    BY <1>2 DEF RefundRead, TypeOK, Idle
  <2>3. SideKept(req[r])'
    BY <2>1, <2>2 DEF SideKept, SettlePCs, RefundPCs
  <2> QED
    BY <2>1, <2>3, QuietSides DEF SidesInv
<1> QED
  BY <1>1, <1>2 DEF Arrive

LEMMA SettleStepSides ==
    ASSUME TypeOK, HashInv, SidesInv, NEW r \in Requests, Alone(r), SettleStep(r)
    PROVE  SidesInv'
<1>1. /\ SideKept(req[r]) /\ RequestHashes(req[r]) /\ req[r] \in Request
      /\ req \in [Requests -> Request]
  BY DEF SidesInv, HashInv, TypeOK
\* A step past the first one that leaves the bounty alone.
<1>2. ASSUME req[r].pc \in SettlePCs \ {"settle.read"}, UNCHANGED <<bounty, chain>>,
             req'[r].pc \in SettlePCs \ {"settle.read"}
      PROVE  SidesInv'
  <2>1. bounty \in PaySide /\ bounty # "funded"
    BY <1>1, <1>2 DEF SideKept, PaySide
  <2> QED
    BY <1>2, <2>1, PayingSide, QuietSides
<1>3. CASE SettleRailDown(r) \/ SettleNotCovered(r) \/ \E l \in PayoutLegs : LegNotCovered(r, l)
  <2>1. /\ Return(r) /\ UNCHANGED <<chain, bounty>>
        /\ escrow' = escrow \/ escrow' = [escrow EXCEPT !.fail = TRUE]
    BY <1>3 DEF SettleRailDown, SettleNotCovered, LegNotCovered, PersistEscrowFail
  <2>2. escrow'.status = escrow.status
    BY <2>1 DEF TypeOK
  <2> QED
    BY <2>1, <2>2, ReturnSide, QuietSides DEF SidesInv
<1>4. CASE SettleEnter(r)
  <2>1. /\ req[r].pc = "settle.read" /\ UNCHANGED <<escrow, chain>>
        /\ bounty \in PaySide \cup {"funded"} /\ bounty' \in PaySide
    BY <1>1, <1>4 DEF SettleEnter, SideKept, PaySide
  <2>2. PICK pc \in {"settle.entered", "settle.legs"} : Goto(r, pc)
    BY <1>4 DEF SettleEnter
  <2>3. req'[r].pc = pc
    BY <2>2, GotoUpdate DEF PCs
  <2>4. SideKept(req[r])'
    BY <2>1, <2>3, PayingSide DEF SettlePCs
  <2> QED
    BY <2>1, <2>4, QuietSides DEF PaySide
<1>5. CASE SettleEnterEscrow(r)
  <2>1. req'[r].pc = "settle.legs"
    BY <1>5, GotoUpdate DEF SettleEnterEscrow, PCs
  <2> QED
    BY <1>2, <1>5, <2>1 DEF SettleEnterEscrow, SettlePCs
<1>6. CASE PrepareLegs(r)
  <2>1. req'[r].pc = "settle.next"
    <3>1. \E payout, fee, todo : req' = [req EXCEPT ![r] =
             [req[r] EXCEPT !.pc = "settle.next", !.payout = payout, !.fee = fee,
                            !.todo = todo]]
      BY <1>6 DEF PrepareLegs
    <3> QED
      BY <1>1, <3>1 DEF Request
  <2> QED
    BY <1>2, <1>6, <2>1 DEF PrepareLegs, SettlePCs
<1>7. ASSUME NEW l \in PayoutLegs, SubmitLeg(r, l)
      PROVE  SidesInv'
  <2>1. req'[r].pc = "settle.send"
    BY <1>1, <1>7, ReqUpdate DEF SubmitLeg, Request
  <2> QED
    BY <1>2, <1>7, <2>1 DEF SubmitLeg, SettlePCs
<1>8. CASE SendLeg(r)
  <2>1. /\ req[r].leg \in PayoutLegs /\ req[r].leg \in Legs
        /\ LegAmount(req[r].leg, req[r].pool) \in Nat
    BY <1>1, <1>8, LegAmountNat DEF SendLeg, RequestHashes, Request
  <2>2. bounty \in PaySide
    BY <1>1, <1>8 DEF SendLeg, SideKept, SettlePCs
  <2>3. req'[r].pc = "settle.confirm"
    BY <1>8, GotoUpdate DEF SendLeg, PCs
  <2>4. SideKept(req[r])'
    BY <1>8, <2>2, <2>3, PayingSide DEF SendLeg, SettlePCs
  <2> QED
    BY <1>8, <2>1, <2>2, <2>4, SendSides DEF SendLeg
<1>9. CASE ConfirmLeg(r)
  <2>1. req'[r].pc = "settle.record"
    BY <1>1, <1>9, ReqUpdate DEF ConfirmLeg, Request
  <2> QED
    BY <1>2, <1>9, <2>1 DEF ConfirmLeg, SettlePCs
<1>10. CASE RecordLeg(r)
  <2>1. req'[r].pc = "settle.next"
    BY <1>1, <1>10, ReqUpdate DEF RecordLeg, Request
  <2> QED
    BY <1>2, <1>10, <2>1 DEF RecordLeg, SettlePCs
<1>11. CASE LegError(r)
  <2>1. req[r].pc \in SettlePCs \ {"settle.read"} /\ UNCHANGED <<bounty, chain>>
    BY <1>11 DEF LegError, SettlePCs
  <2>2. CASE req[r].leg = WINNER
    <3>1. Return(r)
      BY <1>11, <2>2 DEF LegError, Return
    <3>2. bounty \in PaySide /\ bounty # "funded"
      BY <1>1, <2>1 DEF SideKept, PaySide
    <3> QED
      BY <2>1, <3>1, <3>2, ReturnSide, QuietSides
  <2>3. CASE req[r].leg # WINNER
    <3>1. req'[r].pc = "settle.next"
      BY <1>1, <1>11, <2>3, ReqUpdate DEF LegError, Request
    <3> QED
      BY <1>2, <2>1, <3>1 DEF SettlePCs
  <2> QED
    BY <2>2, <2>3
<1>12. CASE SettleTally(r)
  <2>1. req'[r].pc = "settle.finish"
    <3>1. \E t : req' = [req EXCEPT ![r] = [req[r] EXCEPT !.pc = "settle.finish", !.term = t]]
      BY <1>12 DEF SettleTally
    <3> QED
      BY <1>1, <3>1 DEF Request
  <2> QED
    BY <1>2, <1>12, <2>1 DEF SettleTally, SettlePCs
<1>13. CASE SettleFinish(r)
  <2>1. /\ Return(r) /\ UNCHANGED chain /\ req[r].pc = "settle.finish"
        /\ bounty' = req[r].term
    BY <1>13 DEF SettleFinish
  <2>2. bounty \in PaySide /\ bounty' \in PaySide /\ bounty' # "funded"
    BY <1>1, <2>1 DEF SideKept, PaySide, Request, SettlePCs
  <2> QED
    BY <2>1, <2>2, ReturnSide, QuietSides
<1> QED
  BY <1>3, <1>4, <1>5, <1>6, <1>7, <1>8, <1>9, <1>10, <1>11, <1>12, <1>13
     DEF SettleStep

LEMMA RefundStepSides ==
    ASSUME TypeOK, HashInv, SidesInv, NEW r \in Requests, Alone(r), RefundStep(r)
    PROVE  SidesInv'
<1>1. /\ SideKept(req[r]) /\ RequestHashes(req[r]) /\ req[r] \in Request
      /\ req \in [Requests -> Request]
  BY DEF SidesInv, HashInv, TypeOK
<1>2. ASSUME req[r].pc \in RefundPCs \ {"refund.read"}, UNCHANGED <<bounty, chain>>,
             req'[r].pc \in RefundPCs \ {"refund.read"}
      PROVE  SidesInv'
  <2>1. bounty = "refunding"
    BY <1>1, <1>2 DEF SideKept
  <2> QED
    BY <1>2, <2>1, ReturningSide, QuietSides
<1>3. CASE RefundNotCovered(r) \/ RefundError(r) \/ \E l \in RefundLegs : RefundLegNotCovered(r, l)
  <2>1. Return(r) /\ UNCHANGED <<bounty, escrow, chain>>
    BY <1>3 DEF RefundNotCovered, RefundError, RefundLegNotCovered
  <2> QED
    BY <2>1, ReturnSide, QuietSides DEF SidesInv
<1>4. CASE RefundEnter(r)
  <2>1. /\ bounty \in BackSide \cup {"funded"} /\ bounty' = "refunding"
        /\ UNCHANGED chain
    BY <1>1, <1>4 DEF RefundEnter, SideKept, BackSide
  <2>2. req'[r].pc = "refund.entered"
    BY <1>4, GotoUpdate DEF RefundEnter, PCs
  <2>3. SideKept(req[r])'
    BY <2>1, <2>2, ReturningSide DEF RefundPCs
  <2> QED
    BY <2>1, <2>3, QuietSides DEF BackSide
<1>5. CASE RefundEnterEscrow(r)
  <2>1. req'[r].pc = "refund.next"
    BY <1>5, GotoUpdate DEF RefundEnterEscrow, PCs
  <2> QED
    BY <1>2, <1>5, <2>1 DEF RefundEnterEscrow, RefundPCs
<1>6. ASSUME NEW l \in RefundLegs, RefundCheck(r, l)
      PROVE  SidesInv'
  <2>1. req'[r].pc = "refund.send"
    BY <1>1, <1>6, ReqUpdate DEF RefundCheck, Request
  <2> QED
    BY <1>2, <1>6, <2>1 DEF RefundCheck, RefundPCs
<1>7. CASE RefundSend(r)
  <2>1. req[r].leg \in RefundLegs /\ req[r].leg \in Legs /\ LegAmount(req[r].leg, {}) \in Nat
    BY <1>1, <1>7, LegsFacts, LegAmountNat DEF RefundSend, RequestHashes
  <2>2. bounty = "refunding"
    BY <1>1, <1>7 DEF RefundSend, SideKept, RefundPCs
  <2>3. req'[r].pc \in {"refund.next", "refund.mark"}
    BY <1>1, <1>7, ReqUpdate DEF RefundSend, Request
  <2>4. SideKept(req[r])'
    BY <1>7, <2>2, <2>3, ReturningSide DEF RefundSend, RefundPCs
  <2> QED
    BY <1>7, <2>1, <2>2, <2>4, SendSides DEF RefundSend, BackSide
<1>8. CASE RefundMark(r)
  <2>1. req'[r].pc = "refund.next"
    BY <1>1, <1>8, ReqUpdate DEF RefundMark, Request
  <2> QED
    BY <1>2, <1>8, <2>1 DEF RefundMark, RefundPCs
<1>9. CASE RefundFinish(r)
  <2>1. /\ Return(r) /\ UNCHANGED chain /\ req[r].pc = "refund.next"
        /\ bounty' \in {"expired", "cancelled"}
    BY <1>9 DEF RefundFinish
  <2>2. bounty = "refunding"
    BY <1>1, <2>1 DEF SideKept, RefundPCs
  <2> QED
    BY <2>1, <2>2, ReturnSide, QuietSides DEF BackSide
<1> QED
  BY <1>3, <1>4, <1>5, <1>6, <1>7, <1>8, <1>9 DEF RefundStep

LEMMA SidesNext ==
    ASSUME TypeOK, HashInv, SidesInv, \A r, s \in Requests : r = s, [Next]_vars
    PROVE  SidesInv'
<1>1. ASSUME NEW r \in Requests, Handler(r)
      PROVE  SidesInv'
  <2>1. Alone(r)
    BY DEF Alone
  <2>2. CASE Crash(r)
    <3>1. Return(r) /\ UNCHANGED <<bounty, escrow, chain>>
      BY <2>2 DEF Crash
    <3> QED
      BY <2>1, <3>1, ReturnSide, QuietSides DEF SidesInv
  <2> QED
    BY <1>1, <2>1, <2>2, ArriveSides, SettleStepSides, RefundStepSides DEF Handler
<1>2. CASE HookStep \/ (\E l \in Legs : ExpireKey(l)) \/ UNCHANGED vars
  <2>1. UNCHANGED <<bounty, escrow, chain, req>>
    BY <1>2 DEF HookStep, MarkRead, MarkEligible, MarkSkipped, FreezeRead, FreezeRow,
                HookStop, HookCrash, ExpireKey, vars
  <2> QED
    BY <2>1 DEF SidesInv, SideKept, Moved
<1> QED
  BY <1>1, <1>2 DEF Next

\* When the handlers of a bounty do not overlap, money goes to its hunters or
\* back to its funders, never some of each, whatever fails, dies or is tried
\* again, merged or not.  (With overlapping handlers it may: see the violation
\* run of claim against cancel.)
THEOREM PayoutOrRefund ==
    ASSUME \A r, s \in Requests : r = s
    PROVE  Spec => []PayoutXorRefund
<1>1. Init => SidesInv
  BY LegsFacts DEF Init, InitOpen, InitMerged, Start, SidesInv, SideKept, Moved, Idle,
       SettlePCs, RefundPCs
<1>2. TypeOK /\ HashInv /\ SidesInv /\ [Next]_vars => SidesInv'
  BY SidesNext
<1>3. SidesInv => PayoutXorRefund
  BY DEF SidesInv, PayoutXorRefund, PaySide, BackSide
<1> QED
  BY <1>1, <1>2, <1>3, Inductive, PTL DEF Spec
-----------------------------------------------------------------------------
(* Transfers that are repeated                                              *)

\* The row that keeps a retry from transferring a leg again.
OnRow(l) ==
    \/ l \in PayoutLegs /\ ledger[l].tx
    \/ l \in RefundLegs /\ (IF SingleRefund THEN escrow.refundTx ELSE l \in returned)

\* A handler that has the answer of the rail for a leg and has not written it.
Holds(q, l) ==
    \/ q.pc \in {"settle.confirm", "refund.mark"} /\ l = q.leg
    \/ q.pc = "refund.next" /\ SingleRefund /\ q.todo = {} /\ l = REFUND

Held(l) == \E r \in Requests : Holds(req[r], l)

\* Transfers nobody knows of any more.
Owed == {l \in Legs : Moved(l) /\ ~ OnRow(l) /\ ~ Held(l)}

\* A handler may transfer what was recorded behind its back: the rail still
\* remembers the key of a leg that was transferred while the handler ran.
KeyKept(q) ==
    /\ q.pc \in SettlePCs => q.todo \subseteq Planned(q.pool)
    /\ q.pc \in {"settle.next", "settle.send", "settle.confirm", "settle.record"}
          \cup RefundPCs =>
          \A l \in q.todo : OnRow(l) => keys[l] # {}
    /\ q.pc \in {"settle.send", "refund.send"} => q.leg \in q.todo
    /\ q.pc \in {"refund.read", "refund.entered"} /\ SingleRefund /\ q.todo = {} =>
          escrow.refundTx
    /\ q.pc = "settle.record" => ledger[q.leg].tx
    /\ q.payout => ledger[WINNER].tx
    /\ q.fee => ledger[FEE].tx

\* Each repeated transfer, and each one that may be repeated, was paid for.
LossCount == Total(Legs, [l \in Legs |-> Resent(l)]) + Cardinality(Owed) <= errors + crashes

LossInv ==
    /\ LossCount
    /\ \A l \in Legs : Held(l) /\ ~ OnRow(l) => keys[l] # {}
    /\ \A r \in Requests : KeyKept(req[r])
    /\ escrow.payoutTx => ledger[WINNER].tx
    /\ escrow.feeTx => ledger[FEE].tx

LEMMA ResentNat ==
    ASSUME TypeOK
    PROVE  /\ IsFiniteSet(Legs)
           /\ \A l \in Legs : Resent(l) \in Nat
           /\ Total(Legs, [l \in Legs |-> Resent(l)]) = SumOf([l \in Legs |-> Resent(l)], Legs)
           /\ SumOf([l \in Legs |-> Resent(l)], Legs) \in Nat
           /\ IsFiniteSet(Owed) /\ Cardinality(Owed) \in Nat
<1>1. IsFiniteSet(Legs)
  BY LegsFinite, FS_Union DEF Legs
<1>2. \A l \in Legs : Resent(l) \in Nat
  BY DEF TypeOK, Resent
<1> DEFINE f == [l \in Legs |-> Resent(l)]
<1>3. \A l \in Legs : f[l] \in Nat
  BY <1>2
<1>4. Total(Legs, f) = SumOf(f, Legs)
  BY TotalIsSum
<1> HIDE DEF f
<1>5. SumOf(f, Legs) \in Nat
  BY <1>1, <1>3, SumNat
<1>6. IsFiniteSet(Owed) /\ Cardinality(Owed) \in Nat
  BY <1>1, FS_Subset, FS_CardinalityType DEF Owed
<1> QED
  BY <1>1, <1>2, <1>4, <1>5, <1>6 DEF f

\* Rows are only ever added, and a leg comes on a row while its key is known.
RowsGrow ==
    /\ \A l \in Legs : OnRow(l) => OnRow(l)'
    /\ \A l \in Legs : OnRow(l)' => OnRow(l) \/ keys[l] # {}
    /\ \A l \in Legs : keys[l] # {} => keys'[l] # {}
    /\ escrow.refundTx => escrow'.refundTx

LEMMA PayoutRow ==
    \A l \in PayoutLegs : OnRow(l) <=> ledger[l].tx
  BY LegsFacts DEF OnRow

LEMMA OneMore ==
    ASSUME NEW S, IsFiniteSet(S), NEW x, NEW T, T \subseteq S \cup {x}
    PROVE  Cardinality(T) \in Nat /\ Cardinality(T) <= Cardinality(S) + 1
<1>1. /\ IsFiniteSet(S \cup {x}) /\ Cardinality(S) \in Nat
      /\ Cardinality(S \cup {x}) = IF x \in S THEN Cardinality(S) ELSE Cardinality(S) + 1
  BY FS_AddElement, FS_CardinalityType
<1>2. IsFiniteSet(T) /\ Cardinality(T) <= Cardinality(S \cup {x})
  BY <1>1, FS_Subset
<1> QED
  BY <1>1, <1>2, FS_CardinalityType

\* A handler that did not move keeps its keys.
LEMMA OthersKeys ==
    ASSUME TypeOK, HashInv, LossInv, NEW r \in Requests, OthersKept(r), RowsGrow,
           KeyKept(req[r])'
    PROVE  \A s \in Requests : KeyKept(req[s])'
<1> SUFFICES ASSUME NEW s \in Requests, s # r
             PROVE  KeyKept(req[s])'
  OBVIOUS
<1>1. req'[s] = req[s] /\ KeyKept(req[s]) /\ req[s] \in Request /\ RequestHashes(req[s])
  BY DEF OthersKept, LossInv, TypeOK, HashInv
<1>2. \A l \in PayoutLegs : ledger[l].tx => ledger'[l].tx
  BY LegsFacts DEF RowsGrow, OnRow
<1>3. \A l \in req[s].todo : l \in Legs
  BY <1>1 DEF Request
<1>4. req[s].pc \in {"settle.next", "settle.send", "settle.confirm", "settle.record"}
          \cup RefundPCs =>
        \A l \in req[s].todo : OnRow(l)' => keys'[l] # {}
  BY <1>1, <1>3 DEF KeyKept, RowsGrow
<1>5. /\ req[s].pc = "settle.record" => ledger'[req[s].leg].tx
      /\ req[s].payout => ledger'[WINNER].tx
      /\ req[s].fee => ledger'[FEE].tx
  BY <1>1, <1>2, LegsFacts DEF KeyKept, RequestHashes
<1>6. req[s].pc \in {"refund.read", "refund.entered"} /\ SingleRefund /\ req[s].todo = {} =>
        escrow'.refundTx
  BY <1>1 DEF KeyKept, RowsGrow
<1> QED
  BY <1>1, <1>4, <1>5, <1>6 DEF KeyKept

\* Everything but the count.
LEMMA LossStep ==
    ASSUME TypeOK, HashInv, LossInv, NEW r \in Requests, OthersKept(r), RowsGrow,
           \A l \in Legs : Holds(req'[r], l) => OnRow(l)' \/ keys'[l] # {},
           KeyKept(req[r])',
           escrow'.payoutTx => ledger'[WINNER].tx, escrow'.feeTx => ledger'[FEE].tx,
           LossCount'
    PROVE  LossInv'
<1>1. \A s \in Requests : KeyKept(req[s])'
  BY OthersKeys
<1>2. \A l \in Legs : Held(l)' /\ ~ OnRow(l)' => keys'[l] # {}
  <2> SUFFICES ASSUME NEW l \in Legs, NEW s \in Requests, Holds(req'[s], l), ~ OnRow(l)'
               PROVE  keys'[l] # {}
    BY DEF Held
  <2>1. CASE s = r
    BY <2>1
  <2>2. CASE s # r
    <3>1. Holds(req[s], l)
      BY <2>2 DEF OthersKept, Holds
    <3>2. Held(l) /\ ~ OnRow(l)
      BY <3>1 DEF Held, RowsGrow
    <3> QED
      BY <3>2 DEF LossInv, RowsGrow
  <2> QED
    BY <2>1, <2>2
<1> QED
  BY <1>1, <1>2 DEF LossInv

\* When nothing moves, an answer is lost at the price of an error or a crash.
LEMMA CountKept ==
    ASSUME TypeOK, LossCount, UNCHANGED chain, NEW k \in Nat,
           errors \in Nat, crashes \in Nat, errors' \in Nat, crashes' \in Nat,
           errors + crashes + k <= errors' + crashes',
           Cardinality(Owed') \in Nat, Cardinality(Owed') <= Cardinality(Owed) + k
    PROVE  LossCount'
<1> DEFINE f == [l \in Legs |-> Resent(l)]
<1>1. f' = f
  BY DEF Resent
<1>2. /\ Total(Legs, f) \in Nat /\ Cardinality(Owed) \in Nat
      /\ Total(Legs, f) + Cardinality(Owed) <= errors + crashes
  BY ResentNat DEF LossCount
<1> HIDE DEF f
<1>4. Total(Legs, f') = Total(Legs, f)
  BY <1>1
<1> DEFINE t == Total(Legs, f)
           n == Cardinality(Owed)
<1>5. t \in Nat /\ n \in Nat /\ t + n <= errors + crashes
  BY <1>2
<1>6. n' \in Nat /\ n' <= n + k
  OBVIOUS
<1> HIDE DEF t, n
<1>7. t + n' <= errors' + crashes'
  <2>1. PICK e \in Nat, c \in Nat, e1 \in Nat, c1 \in Nat :
           e = errors /\ c = crashes /\ e1 = errors' /\ c1 = crashes'
    OBVIOUS
  <2>2. PICK t0 \in Nat, n0 \in Nat, n1 \in Nat : t0 = t /\ n0 = n /\ n1 = n'
    BY <1>5, <1>6
  <2>3. e + c + k <= e1 + c1 /\ t0 + n0 <= e + c /\ n1 <= n0 + k
    BY <1>5, <1>6, <2>1, <2>2
  <2>4. t0 + n1 <= e1 + c1
    BY <2>3
  <2> QED
    BY <2>1, <2>2, <2>4
<1>8. Total(Legs, f') + Cardinality(Owed') <= errors' + crashes'
  BY <1>4, <1>7 DEF t, n
<1> QED
  BY <1>8 DEF LossCount, f

\* Nothing moves and no answer is lost.
LEMMA LossQuiet ==
    ASSUME TypeOK, HashInv, LossInv, NEW r \in Requests, OthersKept(r), RowsGrow,
           UNCHANGED chain,
           errors' \in Nat, crashes' \in Nat, errors + crashes <= errors' + crashes',
           \A l \in Legs : Holds(req[r], l) => OnRow(l)' \/ Holds(req'[r], l),
           \A l \in Legs : Holds(req'[r], l) => OnRow(l)' \/ keys'[l] # {},
           KeyKept(req[r])',
           escrow'.payoutTx => ledger'[WINNER].tx, escrow'.feeTx => ledger'[FEE].tx
    PROVE  LossInv'
<1>1. \A l \in Legs : Held(l) => OnRow(l)' \/ Held(l)'
  BY DEF Held, OthersKept, Holds
<1>2. Owed' \subseteq Owed
  BY <1>1 DEF Owed, RowsGrow, Moved
<1>3. Cardinality(Owed') <= Cardinality(Owed) /\ Cardinality(Owed') \in Nat
  BY <1>2, ResentNat, FS_Subset, FS_CardinalityType
<1>4. errors + crashes + 0 <= errors' + crashes' /\ Cardinality(Owed') <= Cardinality(Owed) + 0
  <2>1. errors \in Nat /\ crashes \in Nat /\ Cardinality(Owed) \in Nat
    BY ResentNat DEF TypeOK
  <2>2. errors + crashes + 0 = errors + crashes
    BY <2>1
  <2>3. Cardinality(Owed) + 0 = Cardinality(Owed)
    BY <2>1
  <2> QED
    BY <1>3, <2>2, <2>3
<1>5. LossCount'
  BY <1>3, <1>4, CountKept DEF LossInv, TypeOK
<1> QED
  BY <1>5, LossStep

\* An error or a crash loses the answer for one leg at most.
LEMMA LossOne ==
    ASSUME TypeOK, HashInv, LossInv, NEW r \in Requests, OthersKept(r), RowsGrow,
           UNCHANGED chain,
           errors' \in Nat, crashes' \in Nat, errors + crashes + 1 <= errors' + crashes',
           \A l \in Legs : Holds(req'[r], l) => OnRow(l)' \/ keys'[l] # {},
           KeyKept(req[r])',
           escrow'.payoutTx => ledger'[WINNER].tx, escrow'.feeTx => ledger'[FEE].tx
    PROVE  LossInv'
<1>1. PICK x : \A l \in Legs : Holds(req[r], l) => l = x
  BY DEF Holds
<1>2. \A l \in Legs : Held(l) => l = x \/ Held(l)'
  BY <1>1 DEF Held, OthersKept, Holds
<1>3. Owed' \subseteq Owed \cup {x}
  BY <1>2 DEF Owed, RowsGrow, Moved
<1>4. Cardinality(Owed') <= Cardinality(Owed) + 1 /\ Cardinality(Owed') \in Nat
  BY <1>3, OneMore, ResentNat
<1>5. LossCount'
  BY <1>4, CountKept DEF LossInv, TypeOK
<1> QED
  BY <1>5, LossStep

\* A leg is transferred again because nobody knew of its transfer: somebody
\* does now.
LEMMA LossSend ==
    ASSUME TypeOK, HashInv, LossInv, NEW r \in Requests, OthersKept(r),
           NEW l \in Legs, NEW a \in Nat, Transfer(l, a),
           UNCHANGED <<ledger, escrow, returned, errors, crashes>>,
           OnRow(l) => keys[l] # {},
           \A m \in Legs : ~ Holds(req[r], m),
           \A m \in Legs : Holds(req'[r], m) <=> m = l,
           KeyKept(req[r])'
    PROVE  LossInv'
<1>1. /\ chain \in [Legs -> [n: Nat, amt: Nat]] /\ keys \in [Legs -> SUBSET Nat]
      /\ errors \in Nat /\ crashes \in Nat
  BY DEF TypeOK
<1>2. /\ \A m \in Legs : keys[m] # {} => keys'[m] # {}
      /\ keys'[l] # {}
      /\ \A m \in Legs \ {l} : chain'[m] = chain[m]
      /\ keys[l] # {} => chain' = chain
      /\ keys[l] = {} => chain'[l].n = chain[l].n + 1
  <2>1. CASE keys[l] = {}
    BY <1>1, <2>1 DEF Transfer
  <2>2. CASE keys[l] # {}
    BY <1>1, <2>2 DEF Transfer
  <2> QED
    BY <2>1, <2>2
<1>3. \A m \in Legs : OnRow(m)' <=> OnRow(m)
  BY DEF OnRow
<1>4. RowsGrow
  BY <1>2, <1>3 DEF RowsGrow
<1>5. \A m \in Legs : Held(m)' <=> Held(m) \/ m = l
  BY DEF Held, OthersKept, Holds
<1>6. Owed' \subseteq Owed \ {l}
  BY <1>2, <1>3, <1>5 DEF Owed, Moved
<1> DEFINE f == [m \in Legs |-> Resent(m)]
<1>7. f[l] \in Nat /\ \A m \in Legs : f[m] \in Nat /\ f'[m] \in Nat
  <2>1. \A m \in Legs : chain'[m].n \in Nat
    BY <1>1, <1>2
  <2>2. \A m \in Legs : Resent(m)' \in Nat
    BY <2>1 DEF Resent
  <2> QED
    BY <2>2, ResentNat
<1>8. \A m \in Legs \ {l} : f'[m] = f[m]
  BY <1>2 DEF Resent
<1>9. /\ Total(Legs, f) = SumOf(f, Legs) /\ Total(Legs, f') = SumOf(f', Legs)
      /\ SumOf(f, Legs) \in Nat /\ IsFiniteSet(Legs) /\ IsFiniteSet(Owed)
      /\ Cardinality(Owed) \in Nat
      /\ SumOf(f, Legs) + Cardinality(Owed) <= errors + crashes
  BY ResentNat, TotalIsSum DEF LossInv, LossCount
<1>10. \/ f'[l] = f[l]
       \/ f'[l] = f[l] + 1 /\ l \in Owed
  <2>1. CASE keys[l] # {} \/ chain[l].n = 0
    <3>1. Resent(l)' = Resent(l)
      BY <1>1, <1>2, <2>1 DEF Resent
    <3> QED
      BY <3>1
  <2>2. CASE keys[l] = {} /\ chain[l].n # 0
    <3>1. Moved(l) /\ chain[l].n \in Nat
      BY <1>1, <2>2 DEF Moved
    <3>2. l \in Owed
      BY <2>2, <3>1 DEF LossInv, Owed
    <3>3. Resent(l)' = Resent(l) + 1
      BY <1>2, <2>2, <3>1 DEF Resent, Moved
    <3> QED
      BY <3>2, <3>3
  <2> QED
    BY <2>1, <2>2
<1> HIDE DEF f
<1>11. SumOf(f', Legs) = SumOf(f, Legs) - f[l] + f'[l]
  <2> DEFINE h == f'
  <2>1. /\ \A m \in Legs : f[m] \in Nat /\ h[m] \in Nat
        /\ \A m \in Legs \ {l} : h[m] = f[m]
    BY <1>7, <1>8
  <2> HIDE DEF h
  <2>2. SumOf(h, Legs) = SumOf(f, Legs) - f[l] + h[l]
    BY <1>9, <2>1, SumUpdate
  <2> QED
    BY <2>2 DEF h
<1>12. /\ Cardinality(Owed') \in Nat /\ Cardinality(Owed') <= Cardinality(Owed)
       /\ l \in Owed => Cardinality(Owed') <= Cardinality(Owed) - 1
  <2>1. IsFiniteSet(Owed \ {l}) /\ Owed \ {l} \subseteq Owed
    BY <1>9, FS_Subset
  <2>2. /\ Cardinality(Owed \ {l}) <= Cardinality(Owed)
        /\ l \in Owed => Cardinality(Owed \ {l}) = Cardinality(Owed) - 1
    BY <1>9, <2>1, FS_Subset, FS_RemoveElement
  <2>3. IsFiniteSet(Owed') /\ Cardinality(Owed') <= Cardinality(Owed \ {l})
    BY <1>6, <2>1, FS_Subset
  <2> QED
    BY <1>9, <2>1, <2>2, <2>3, FS_CardinalityType
<1>13. Total(Legs, f') + Cardinality(Owed') <= errors' + crashes'
  BY <1>1, <1>7, <1>9, <1>10, <1>11, <1>12
<1>14. LossCount'
  BY <1>13 DEF f, LossCount
<1>15. escrow'.payoutTx => ledger'[WINNER].tx
  BY DEF LossInv
<1>16. escrow'.feeTx => ledger'[FEE].tx
  BY DEF LossInv
<1> QED
  BY <1>2, <1>4, <1>14, <1>15, <1>16, LossStep

LEMMA RowsSame ==
    ASSUME UNCHANGED <<returned, keys>>, escrow'.refundTx = escrow.refundTx,
           \A l \in PayoutLegs : ledger'[l].tx <=> ledger[l].tx
    PROVE  RowsGrow /\ \A l \in Legs : OnRow(l)' <=> OnRow(l)
<1>1. \A l \in Legs : OnRow(l)' <=> OnRow(l)
  BY DEF OnRow
<1> QED
  BY <1>1 DEF RowsGrow

LEMMA ReturnLoss ==
    ASSUME TypeOK, NEW r \in Requests, Return(r)
    PROVE  OthersKept(r) /\ KeyKept(req[r])' /\ \A l \in Legs : ~ Holds(req'[r], l)
<1>1. OthersKept(r) /\ req'[r] = Idle
  BY ReturnUpdate
<1> QED
  BY <1>1 DEF KeyKept, Holds, Idle, SettlePCs, RefundPCs

\* A handler that holds no answer and gets none.
LEMMA LossPlain ==
    ASSUME TypeOK, HashInv, LossInv, NEW r \in Requests, OthersKept(r),
           UNCHANGED <<chain, keys, returned, crashes>>,
           errors' = errors \/ errors' = errors + 1,
           escrow'.refundTx = escrow.refundTx,
           \A l \in PayoutLegs : ledger'[l].tx <=> ledger[l].tx,
           \A l \in Legs : ~ Holds(req[r], l),
           \A l \in Legs : Holds(req'[r], l) => OnRow(l)',
           KeyKept(req[r])',
           escrow'.payoutTx => ledger[WINNER].tx, escrow'.feeTx => ledger[FEE].tx
    PROVE  LossInv'
<1>1. RowsGrow
  BY RowsSame
<1>2. errors' \in Nat /\ crashes' \in Nat /\ errors + crashes <= errors' + crashes'
  BY DEF TypeOK
<1>3. /\ escrow'.payoutTx => ledger'[WINNER].tx
      /\ escrow'.feeTx => ledger'[FEE].tx
  BY LegsFacts
<1> QED
  BY <1>1, <1>2, <1>3, LossQuiet

LEMMA SettleReadLoss ==
    ASSUME TypeOK, HashInv, LossInv, NEW r \in Requests, NEW op \in SettleOps,
           NEW reachable \in SUBSET Members, SettleRead(r, op, reachable)
    PROVE  LossInv'
<1> DEFINE pool == frozen \cap Members
           recorded == {l \in PayoutLegs : \/ l = WINNER /\ escrow.payoutTx
                                           \/ l = FEE /\ escrow.feeTx
                                           \/ l \in memberPaid}
           todo == {l \in Planned(pool) \ recorded :
                      /\ InScope(l, op)
                      /\ op = "all" => l \in {WINNER, FEE} \cup reachable}
           x == [Idle EXCEPT !.pc = "settle.read", !.op = op,
                   !.escrow = escrow.status, !.payout = escrow.payoutTx,
                   !.fee = escrow.feeTx, !.fail = escrow.fail, !.pool = pool,
                   !.winnerRow = WinnerRow \in frozen, !.todo = todo]
<1>1. req'[r] = x /\ OthersKept(r)
  <2>1. req' = [req EXCEPT ![r] = x]
    BY DEF SettleRead
  <2> HIDE DEF x
  <2> QED
    BY <2>1, ReqUpdate
<1>2. /\ UNCHANGED <<chain, keys, returned, errors, crashes, escrow, ledger>>
      /\ req[r].pc = "idle"
  BY DEF SettleRead
<1>3. todo \subseteq Planned(pool)
  OBVIOUS
<1> HIDE DEF todo, pool
<1>4. /\ x.pc = "settle.read" /\ x.todo = todo /\ x.pool = pool
      /\ x.payout = escrow.payoutTx /\ x.fee = escrow.feeTx
  BY DEF Idle
<1> HIDE DEF x
<1>5. /\ req'[r].pc = "settle.read" /\ req'[r].todo \subseteq Planned(req'[r].pool)
      /\ req'[r].payout = escrow.payoutTx /\ req'[r].fee = escrow.feeTx
  BY <1>1, <1>3, <1>4
<1>6. KeyKept(req[r])'
  BY <1>2, <1>5 DEF KeyKept, LossInv, RefundPCs
<1>7. \A l \in Legs : ~ Holds(req[r], l) /\ ~ Holds(req'[r], l)
  BY <1>2, <1>5 DEF Holds
<1> QED
  BY <1>1, <1>2, <1>6, <1>7, LossPlain DEF LossInv

\* ensurePendingLegs and syncEscrowHashesOntoLedger put no new hash on a row.
LEMMA SyncedSame ==
    ASSUME TypeOK, NoRowNoHash, LossInv, NEW r \in Requests, NEW l \in PayoutLegs
    PROVE  Synced(req[r])[l].tx <=> ledger[l].tx
<1> DEFINE q == req[r]
           rows == Inserted(q)
<1>1. ledger[l].tx => Synced(q)[l].tx
  BY SyncedKeeps
<1>2. /\ l = WINNER /\ q.payout => ledger[l].tx
      /\ l = FEE /\ q.fee => ledger[l].tx
  BY DEF LossInv, KeyKept
<1>3. rows[l].tx => ledger[l].tx
  BY DEF Inserted
<1> HIDE DEF rows
<1>4. Synced(q)[l] = IF /\ (l = WINNER /\ q.payout) \/ (l = FEE /\ q.fee)
                        /\ l \in Planned(q.pool) /\ RowFound(rows, q, l) /\ ~ rows[l].tx
                     THEN [rows[l] EXCEPT !.st = "confirmed", !.tx = TRUE]
                     ELSE rows[l]
  BY DEF Synced, rows
<1>5. Synced(q)[l].tx => ledger[l].tx
  BY <1>2, <1>3, <1>4
<1> QED
  BY <1>1, <1>5

\* The loop of settleEscrow takes up the legs that have no hash yet.
LEMMA PrepareLegsLoss ==
    ASSUME TypeOK, HashInv, NoRowNoHash, LossInv, NEW r \in Requests, PrepareLegs(r)
    PROVE  LossInv'
<1> DEFINE q == req[r]
           rows == Synced(q)
           hasHash(l) == l \in Planned(q.pool) /\ RowFound(rows, q, l) /\ rows[l].tx
           payout == q.payout \/ hasHash(WINNER)
           fee    == q.fee \/ hasHash(FEE)
           todo   == {l \in q.todo : /\ RowFound(rows, q, l)
                                     /\ ~ hasHash(l)
                                     /\ l = WINNER => ~ payout
                                     /\ l = FEE => ~ fee}
           x      == [q EXCEPT !.pc = "settle.next", !.payout = payout, !.fee = fee,
                               !.todo = todo]
<1>1. /\ req' = [req EXCEPT ![r] = x] /\ q.pc = "settle.legs" /\ ledger' = rows
      /\ UNCHANGED <<chain, keys, returned, errors, crashes, escrow>>
  BY DEF PrepareLegs
<1>2. q \in Request /\ KeyKept(q) /\ q.todo \subseteq Planned(q.pool)
  BY <1>1 DEF TypeOK, LossInv, KeyKept, SettlePCs
<1>3. \A l \in PayoutLegs : rows[l].tx <=> ledger[l].tx
  BY SyncedSame
<1>4. payout => ledger[WINNER].tx
  BY <1>2, <1>3, LegsFacts DEF KeyKept
<1>5. fee => ledger[FEE].tx
  BY <1>2, <1>3, LegsFacts DEF KeyKept
<1>6. todo \subseteq q.todo /\ \A l \in todo : ~ rows[l].tx
  BY <1>2
<1>7. q.pool \in SUBSET Members /\ Planned(q.pool) \subseteq PayoutLegs
  BY <1>2, LegsFacts DEF Request, Planned, PayoutLegs
<1> HIDE DEF todo, payout, fee, rows
<1>8. /\ x.pc = "settle.next" /\ x.pool = q.pool /\ x.todo = todo
      /\ x.payout = payout /\ x.fee = fee
  BY <1>2 DEF Request
<1> HIDE DEF x
<1>9. OthersKept(r) /\ req'[r] = x
  BY <1>1, ReqUpdate
<1>10. /\ req'[r].pc = "settle.next" /\ req'[r].todo \subseteq Planned(req'[r].pool)
       /\ req'[r].payout => ledger'[WINNER].tx
       /\ req'[r].fee => ledger'[FEE].tx
       /\ \A l \in req'[r].todo : l \in PayoutLegs /\ ~ ledger'[l].tx
  BY <1>1, <1>2, <1>3, <1>4, <1>5, <1>6, <1>7, <1>8, <1>9, LegsFacts
<1>11. KeyKept(req[r])'
  <2>1. \A l \in req'[r].todo : ~ OnRow(l)'
    BY <1>10, LegsFacts DEF OnRow
  <2> QED
    BY <1>10, <2>1 DEF KeyKept, RefundPCs
<1>12. \A l \in Legs : ~ Holds(req[r], l) /\ ~ Holds(req'[r], l)
  BY <1>1, <1>10 DEF Holds
<1>13. \A l \in PayoutLegs : ledger'[l].tx <=> ledger[l].tx
  BY <1>1, <1>3
<1> QED
  BY <1>1, <1>9, <1>11, <1>12, <1>13, LossPlain DEF LossInv

LEMMA SettleStepLoss ==
    ASSUME TypeOK, HashInv, NoRowNoHash, LossInv, NEW r \in Requests, SettleStep(r)
    PROVE  LossInv'
<1>1. /\ KeyKept(req[r]) /\ RequestHashes(req[r])
      /\ req \in [Requests -> Request] /\ req[r] \in Request
      /\ ledger \in [PayoutLegs -> Row]
      /\ escrow.payoutTx => ledger[WINNER].tx
  BY DEF LossInv, HashInv, TypeOK
<1>2. escrow.feeTx => ledger[FEE].tx
  BY DEF LossInv
<1>3. CASE SettleRailDown(r) \/ SettleNotCovered(r) \/ \E l \in PayoutLegs : LegNotCovered(r, l)
  <2>1. /\ Return(r) /\ UNCHANGED <<chain, keys, returned, crashes, ledger>>
        /\ req[r].pc \in {"settle.read", "settle.next"}
        /\ errors' = errors \/ errors' = errors + 1
        /\ escrow' = escrow \/ escrow' = [escrow EXCEPT !.fail = TRUE]
    BY <1>3 DEF SettleRailDown, SettleNotCovered, LegNotCovered, PersistEscrowFail
  <2>2. /\ escrow'.refundTx = escrow.refundTx /\ escrow'.payoutTx = escrow.payoutTx
        /\ escrow'.feeTx = escrow.feeTx
    BY <2>1 DEF TypeOK
  <2>3. \A l \in Legs : ~ Holds(req[r], l)
    BY <2>1 DEF Holds
  <2> QED
    BY <1>1, <1>2, <2>1, <2>2, <2>3, ReturnLoss, LossPlain
<1>4. CASE SettleEnter(r) \/ SettleEnterEscrow(r)
  <2>1. /\ UNCHANGED <<chain, keys, returned, errors, crashes, ledger>>
        /\ req[r].pc \in {"settle.read", "settle.entered"}
        /\ escrow' = escrow \/ escrow' = [escrow EXCEPT !.status = "settling"]
    BY <1>4 DEF SettleEnter, SettleEnterEscrow
  <2>2. PICK pc \in {"settle.entered", "settle.legs"} : Goto(r, pc)
    BY <1>4 DEF SettleEnter, SettleEnterEscrow
  <2>3. OthersKept(r) /\ req'[r] = [req[r] EXCEPT !.pc = pc]
    BY <1>1, <2>2, ReqUpdate DEF Goto
  <2>4. /\ req'[r].pool = req[r].pool /\ req'[r].todo = req[r].todo /\ req'[r].pc = pc
        /\ req'[r].payout = req[r].payout /\ req'[r].fee = req[r].fee
    BY <1>1, <2>3 DEF Request
  <2>5. KeyKept(req[r])'
    BY <1>1, <2>1, <2>4 DEF KeyKept, SettlePCs, RefundPCs
  <2>6. \A l \in Legs : ~ Holds(req[r], l) /\ ~ Holds(req'[r], l)
    BY <2>1, <2>4 DEF Holds
  <2>7. /\ escrow'.refundTx = escrow.refundTx /\ escrow'.payoutTx = escrow.payoutTx
        /\ escrow'.feeTx = escrow.feeTx
    BY <2>1 DEF TypeOK
  <2> QED
    BY <1>1, <1>2, <2>1, <2>3, <2>5, <2>6, <2>7, LossPlain
<1>5. CASE PrepareLegs(r)
  BY <1>5, PrepareLegsLoss
<1>6. ASSUME NEW l \in PayoutLegs, SubmitLeg(r, l)
      PROVE  LossInv'
  <2>1. /\ OthersKept(r) /\ req'[r].pc = "settle.send" /\ req'[r].leg = l
        /\ req'[r].pool = req[r].pool /\ req'[r].todo = req[r].todo
        /\ req'[r].payout = req[r].payout /\ req'[r].fee = req[r].fee
    BY <1>1, <1>6, ReqUpdate DEF SubmitLeg, Request
  <2>2. /\ l \in req[r].todo /\ req[r].pc = "settle.next"
        /\ UNCHANGED <<chain, keys, returned, errors, crashes, escrow>>
    BY <1>6 DEF SubmitLeg, IsNext
  <2>3. \A m \in PayoutLegs : ledger'[m].tx <=> ledger[m].tx
    BY <1>1, <1>6 DEF SubmitLeg, Row
  <2>4. \A m \in Legs : OnRow(m)' <=> OnRow(m)
    BY <2>2, <2>3, RowsSame
  <2>5. KeyKept(req[r])'
    <3>1. \A m \in req[r].todo : m \in Legs /\ (OnRow(m) => keys[m] # {})
      BY <1>1, <2>2 DEF KeyKept, Request
    <3>2. /\ req[r].payout => ledger'[WINNER].tx
          /\ req[r].fee => ledger'[FEE].tx
      BY <1>1, <2>3, LegsFacts DEF KeyKept
    <3>3. req[r].todo \subseteq Planned(req[r].pool)
      BY <1>1, <2>2 DEF KeyKept, SettlePCs
    <3> QED
      BY <2>1, <2>2, <2>4, <3>1, <3>2, <3>3 DEF KeyKept, RefundPCs
  <2>6. \A m \in Legs : ~ Holds(req[r], m) /\ ~ Holds(req'[r], m)
    BY <2>1, <2>2 DEF Holds
  <2> QED
    BY <1>1, <1>2, <2>1, <2>2, <2>3, <2>5, <2>6, LossPlain
<1>7. CASE SendLeg(r)
  <2> DEFINE l == req[r].leg
             a == LegAmount(l, req[r].pool)
  <2>1. /\ l \in Legs /\ l \in req[r].todo /\ a \in Nat
        /\ OnRow(l) => keys[l] # {}
    BY <1>1, <1>7, LegAmountNat DEF SendLeg, KeyKept, Request
  <2>2. /\ OthersKept(r) /\ req'[r].pc = "settle.confirm" /\ req'[r].pool = req[r].pool
        /\ req'[r].todo = req[r].todo /\ req'[r].leg = l
        /\ req'[r].payout = req[r].payout /\ req'[r].fee = req[r].fee
    BY <1>1, <1>7, ReqUpdate DEF SendLeg, Goto, Request
  <2>3. /\ Transfer(l, a) /\ req[r].pc = "settle.send"
        /\ UNCHANGED <<ledger, escrow, returned, errors, crashes>>
    BY <1>7 DEF SendLeg
  <2>4. \A m \in Legs : ~ Holds(req[r], m) /\ (Holds(req'[r], m) <=> m = l)
    BY <2>2, <2>3 DEF Holds
  <2>5. KeyKept(req[r])'
    <3>1. \A m \in Legs : keys[m] # {} => keys'[m] # {}
      BY <2>1, <2>3 DEF Transfer, TypeOK
    <3>2. \A m \in Legs : OnRow(m)' <=> OnRow(m)
      BY <2>3 DEF OnRow
    <3>3. /\ \A m \in req[r].todo : m \in Legs /\ (OnRow(m) => keys[m] # {})
          /\ req[r].todo \subseteq Planned(req[r].pool)
      BY <1>1, <2>3 DEF KeyKept, Request, SettlePCs
    <3> QED
      BY <1>1, <2>2, <2>3, <3>1, <3>2, <3>3 DEF KeyKept, RefundPCs
  <2> HIDE DEF l, a
  <2> QED
    BY <2>1, <2>2, <2>3, <2>4, <2>5, LossSend
\* The answer comes on a row.
<1>8. CASE ConfirmLeg(r)
  <2> DEFINE l == req[r].leg
  <2>1. /\ l \in PayoutLegs /\ l \in Legs /\ req[r].pc = "settle.confirm"
        /\ UNCHANGED <<chain, keys, returned, errors, crashes, escrow>>
    BY <1>1, <1>8, LegsFacts DEF ConfirmLeg, RequestHashes
  <2>2. /\ OthersKept(r) /\ req'[r].pc = "settle.record" /\ req'[r].pool = req[r].pool
        /\ req'[r].todo = req[r].todo /\ req'[r].leg = l
        /\ req'[r].payout = (req[r].payout \/ l = WINNER)
        /\ req'[r].fee = (req[r].fee \/ l = FEE)
    <3> DEFINE p == req[r].payout \/ l = WINNER
               f == req[r].fee \/ l = FEE
    <3>1. req' = [req EXCEPT ![r] = [req[r] EXCEPT !.pc = "settle.record",
                                                   !.payout = p, !.fee = f]]
      BY <1>1, <1>8 DEF ConfirmLeg
    <3> HIDE DEF p, f
    <3>2. /\ OthersKept(r) /\ req'[r].pc = "settle.record" /\ req'[r].pool = req[r].pool
          /\ req'[r].todo = req[r].todo /\ req'[r].leg = l
          /\ req'[r].payout = p /\ req'[r].fee = f
      BY <1>1, <3>1, ReqUpdate DEF Request
    <3> QED
      BY <3>2 DEF p, f
  <2>3. ledger'[l].tx /\ \A m \in PayoutLegs \ {l} : ledger'[m] = ledger[m]
    BY <1>1, <1>8, <2>1 DEF ConfirmLeg, Row
  <2>4. OnRow(l) \/ keys[l] # {}
    BY <2>1 DEF LossInv, Held, Holds
  <2>5. /\ \A m \in Legs \ {l} : OnRow(m)' <=> OnRow(m)
        /\ \A m \in {l} : OnRow(m)'
    <3>1. \A m \in Legs \ {l} : OnRow(m)' <=> OnRow(m)
      BY <2>1, <2>3 DEF OnRow
    <3>2. \A m \in {l} : OnRow(m)'
      BY <2>1, <2>3 DEF OnRow
    <3> QED
      BY <3>1, <3>2
  <2>6. RowsGrow
    BY <2>1, <2>4, <2>5 DEF RowsGrow
  <2>7. KeyKept(req[r])'
    <3>1. \A m \in req[r].todo : m \in Legs /\ (OnRow(m) => keys[m] # {})
      BY <1>1, <2>1 DEF KeyKept, Request
    <3>2. \A m \in req[r].todo : OnRow(m)' => keys'[m] # {}
      BY <2>1, <2>4, <2>5, <3>1
    <3>3. /\ req'[r].payout => ledger'[WINNER].tx
          /\ req'[r].fee => ledger'[FEE].tx
      BY <1>1, <2>2, <2>3, LegsFacts DEF KeyKept
    <3>4. req[r].todo \subseteq Planned(req[r].pool)
      BY <1>1, <2>1 DEF KeyKept, SettlePCs
    <3> QED
      BY <2>2, <2>3, <3>2, <3>3, <3>4 DEF KeyKept, RefundPCs
  <2>8. \A m \in Legs : (Holds(req[r], m) => OnRow(m)') /\ ~ Holds(req'[r], m)
    BY <2>1, <2>2, <2>5 DEF Holds
  <2>9. /\ escrow'.payoutTx => ledger'[WINNER].tx
        /\ escrow'.feeTx => ledger'[FEE].tx
    BY <1>1, <1>2, <2>1, <2>3, LegsFacts
  <2>10. errors' \in Nat /\ crashes' \in Nat /\ errors + crashes <= errors' + crashes'
    BY <2>1 DEF TypeOK
  <2> QED
    BY <2>1, <2>2, <2>6, <2>7, <2>8, <2>9, <2>10, LossQuiet
<1>9. CASE RecordLeg(r)
  <2> DEFINE l == req[r].leg
  <2>1. /\ req[r].pc = "settle.record" /\ ledger[l].tx
        /\ UNCHANGED <<chain, keys, returned, errors, crashes, ledger>>
    BY <1>1, <1>9 DEF RecordLeg, KeyKept
  <2>2. /\ OthersKept(r) /\ req'[r].pc = "settle.next" /\ req'[r].pool = req[r].pool
        /\ req'[r].todo = req[r].todo \ {l}
        /\ req'[r].payout = req[r].payout /\ req'[r].fee = req[r].fee
    BY <1>1, <1>9, ReqUpdate DEF RecordLeg, Request
  <2>3. /\ escrow'.refundTx = escrow.refundTx
        /\ escrow'.payoutTx => escrow.payoutTx \/ l = WINNER
        /\ escrow'.feeTx => escrow.feeTx \/ l = FEE
    BY <1>9 DEF RecordLeg, TypeOK
  <2>4. \A m \in Legs : OnRow(m)' <=> OnRow(m)
    BY <2>1, <2>3 DEF OnRow
  <2>5. KeyKept(req[r])'
    <3>1. /\ \A m \in req[r].todo : m \in Legs /\ (OnRow(m) => keys[m] # {})
          /\ req[r].todo \subseteq Planned(req[r].pool)
      BY <1>1, <2>1 DEF KeyKept, Request, SettlePCs
    <3> QED
      BY <1>1, <2>1, <2>2, <2>4, <3>1 DEF KeyKept, RefundPCs
  <2>6. \A m \in Legs : ~ Holds(req[r], m) /\ ~ Holds(req'[r], m)
    <3>1. ~ (req'[r].pc = "refund.next") /\ req'[r].pc \notin {"settle.confirm", "refund.mark"}
      BY <2>2
    <3> QED
      BY <2>1, <3>1 DEF Holds
  <2> QED
    BY <1>1, <1>2, <2>1, <2>2, <2>3, <2>5, <2>6, LossPlain
\* An answer that is not confirmed is lost, at the price of an error.
<1>10. CASE LegError(r)
  <2> DEFINE l == req[r].leg
  <2>1. /\ req[r].pc \in {"settle.send", "settle.confirm", "settle.record"}
        /\ l \in PayoutLegs /\ l \in Legs
        /\ UNCHANGED <<chain, keys, returned, crashes>>
        /\ \/ req[r].pc = "settle.send" /\ errors' = errors
           \/ errors' = errors + 1
        /\ escrow' = [escrow EXCEPT !.fail = TRUE]
    BY <1>1, <1>10, LegsFacts DEF LegError, RequestHashes, PersistEscrowFail
  <2>2. \A m \in PayoutLegs : ledger'[m].tx <=> ledger[m].tx
    BY <1>1, <1>10 DEF LegError, Row
  <2>3. /\ escrow'.refundTx = escrow.refundTx /\ escrow'.payoutTx = escrow.payoutTx
        /\ escrow'.feeTx = escrow.feeTx
    BY <2>1 DEF TypeOK
  <2>4. RowsGrow /\ \A m \in Legs : OnRow(m)' <=> OnRow(m)
    BY <2>1, <2>2, <2>3, RowsSame
  <2>5. OthersKept(r) /\ KeyKept(req[r])' /\ \A m \in Legs : ~ Holds(req'[r], m)
    <3>1. CASE l = WINNER
      <4>1. Return(r)
        BY <1>10, <3>1 DEF LegError, Return
      <4> QED
        BY <4>1, ReturnLoss
    <3>2. CASE l # WINNER
      <4>1. /\ OthersKept(r) /\ req'[r].pc = "settle.next" /\ req'[r].pool = req[r].pool
            /\ req'[r].todo = req[r].todo \ {l}
            /\ req'[r].payout = req[r].payout /\ req'[r].fee = req[r].fee
        BY <1>1, <1>10, <3>2, ReqUpdate DEF LegError, Request
      <4>2. /\ \A m \in req[r].todo : m \in Legs /\ (OnRow(m) => keys[m] # {})
            /\ req[r].todo \subseteq Planned(req[r].pool)
        BY <1>1, <2>1 DEF KeyKept, Request, SettlePCs
      <4>3. /\ req[r].payout => ledger'[WINNER].tx
            /\ req[r].fee => ledger'[FEE].tx
        BY <1>1, <2>2, LegsFacts DEF KeyKept
      <4>4. KeyKept(req[r])'
        BY <2>1, <2>4, <4>1, <4>2, <4>3 DEF KeyKept, RefundPCs
      <4>5. \A m \in Legs : ~ Holds(req'[r], m)
        BY <4>1 DEF Holds
      <4> QED
        BY <4>1, <4>4, <4>5
    <3> QED
      BY <3>1, <3>2
  <2>6. /\ escrow'.payoutTx => ledger'[WINNER].tx
        /\ escrow'.feeTx => ledger'[FEE].tx
    BY <1>1, <1>2, <2>2, <2>3, LegsFacts
  <2>7. CASE req[r].pc = "settle.send" /\ errors' = errors
    <3>1. \A m \in Legs : ~ Holds(req[r], m)
      BY <2>7 DEF Holds
    <3> QED
      BY <1>1, <1>2, <2>1, <2>2, <2>3, <2>5, <2>7, <3>1, LossPlain
  <2>8. CASE errors' = errors + 1
    <3>1. errors' \in Nat /\ crashes' \in Nat /\ errors + crashes + 1 <= errors' + crashes'
      BY <2>1, <2>8 DEF TypeOK
    <3> QED
      BY <2>1, <2>4, <2>5, <2>6, <3>1, LossOne
  <2> QED
    BY <2>1, <2>7, <2>8
<1>11. CASE SettleTally(r)
  <2>1. /\ OthersKept(r) /\ req'[r].pc = "settle.finish" /\ req'[r].pool = req[r].pool
        /\ req'[r].todo = req[r].todo
        /\ req'[r].payout = req[r].payout /\ req'[r].fee = req[r].fee
    <3> DEFINE t == IF IntendedConfirmed(req[r]) THEN "settled" ELSE "settled_partial"
    <3>1. req' = [req EXCEPT ![r] = [req[r] EXCEPT !.pc = "settle.finish", !.term = t]]
      BY <1>11 DEF SettleTally
    <3> HIDE DEF t
    <3> QED
      BY <1>1, <3>1, ReqUpdate DEF Request
  <2>2. /\ req[r].pc = "settle.next"
        /\ UNCHANGED <<chain, keys, returned, errors, crashes, escrow, ledger>>
    BY <1>11 DEF SettleTally
  <2>3. KeyKept(req[r])'
    BY <1>1, <2>1, <2>2 DEF KeyKept, SettlePCs, RefundPCs
  <2>4. \A l \in Legs : ~ Holds(req[r], l) /\ ~ Holds(req'[r], l)
    BY <2>1, <2>2 DEF Holds
  <2> QED
    BY <1>1, <1>2, <2>1, <2>2, <2>3, <2>4, LossPlain
<1>12. CASE SettleFinish(r)
  <2>1. /\ Return(r) /\ UNCHANGED <<chain, keys, returned, errors, crashes, ledger>>
        /\ req[r].pc = "settle.finish"
    BY <1>12 DEF SettleFinish
  <2>2. /\ escrow'.refundTx = escrow.refundTx
        /\ escrow'.payoutTx => ledger[WINNER].tx
        /\ escrow'.feeTx => ledger[FEE].tx
    BY <1>1, <1>12 DEF SettleFinish, TypeOK, KeyKept
  <2>3. \A l \in Legs : ~ Holds(req[r], l)
    BY <2>1 DEF Holds
  <2> QED
    BY <2>1, <2>2, <2>3, ReturnLoss, LossPlain
<1> QED
  BY <1>3, <1>4, <1>5, <1>6, <1>7, <1>8, <1>9, <1>10, <1>11, <1>12 DEF SettleStep

LEMMA RefundRow ==
    \A l \in RefundLegs :
        /\ l \in Legs /\ l \notin PayoutLegs
        /\ OnRow(l) <=> IF SingleRefund THEN l = REFUND /\ escrow.refundTx ELSE l \in returned
  BY LegsFacts DEF OnRow, RefundLegs

LEMMA RefundReadLoss ==
    ASSUME TypeOK, HashInv, LossInv, NEW r \in Requests, NEW op \in RefundOps,
           RefundRead(r, op)
    PROVE  LossInv'
<1> DEFINE todo == IF SingleRefund THEN {l \in RefundLegs : ~ escrow.refundTx}
                   ELSE Contributors \ returned
           x == [Idle EXCEPT !.pc = "refund.read", !.op = op, !.refund = escrow.refundTx,
                             !.todo = todo]
<1>1. req'[r] = x /\ OthersKept(r)
  <2>1. req' = [req EXCEPT ![r] = x]
    BY DEF RefundRead
  <2> HIDE DEF x
  <2> QED
    BY <2>1, ReqUpdate
<1>2. /\ UNCHANGED <<chain, keys, returned, errors, crashes, escrow, ledger>>
      /\ req[r].pc = "idle"
  BY DEF RefundRead
<1>3. /\ todo \subseteq RefundLegs
      /\ \A l \in todo : ~ OnRow(l)
      /\ SingleRefund /\ todo = {} => escrow.refundTx
  BY RefundRow, LegsFacts DEF RefundLegs
<1> HIDE DEF todo
<1>4. /\ x.pc = "refund.read" /\ x.todo = todo /\ ~ x.payout /\ ~ x.fee
  BY DEF Idle
<1> HIDE DEF x
<1>5. /\ req'[r].pc = "refund.read" /\ req'[r].todo = todo
      /\ ~ req'[r].payout /\ ~ req'[r].fee
  BY <1>1, <1>4
<1>6. \A l \in Legs : OnRow(l)' <=> OnRow(l)
  BY <1>2 DEF OnRow
<1>7. KeyKept(req[r])'
  <2>1. \A l \in req'[r].todo : ~ OnRow(l)'
    BY <1>3, <1>5, <1>6, RefundRow
  <2> QED
    BY <1>2, <1>3, <1>5, <2>1 DEF KeyKept, SettlePCs
<1>8. \A l \in Legs : ~ Holds(req[r], l) /\ ~ Holds(req'[r], l)
  BY <1>2, <1>5 DEF Holds
<1> QED
  BY <1>1, <1>2, <1>7, <1>8, LossPlain DEF LossInv

LEMMA RefundStepLoss ==
    ASSUME TypeOK, HashInv, LossInv, NEW r \in Requests, RefundStep(r)
    PROVE  LossInv'
<1>1. /\ KeyKept(req[r]) /\ RequestHashes(req[r])
      /\ req \in [Requests -> Request] /\ req[r] \in Request
      /\ ledger \in [PayoutLegs -> Row]
      /\ \A l \in req[r].todo : l \in Legs
  BY DEF LossInv, HashInv, TypeOK, Request
<1>2. /\ escrow.payoutTx => ledger[WINNER].tx
      /\ escrow.feeTx => ledger[FEE].tx
  BY DEF LossInv
<1>3. CASE RefundNotCovered(r) \/ \E l \in RefundLegs : RefundLegNotCovered(r, l)
  <2>1. /\ Return(r)
        /\ UNCHANGED <<chain, keys, returned, errors, crashes, ledger, escrow>>
        /\ req[r].pc \in {"refund.read", "refund.next"} /\ req[r].todo # {}
    BY <1>3 DEF RefundNotCovered, RefundLegNotCovered
  <2>2. \A l \in Legs : ~ Holds(req[r], l)
    BY <2>1 DEF Holds
  <2> QED
    BY <1>2, <2>1, <2>2, ReturnLoss, LossPlain
<1>4. CASE RefundEnter(r)
  <2>1. /\ UNCHANGED <<chain, keys, returned, errors, crashes, ledger, escrow>>
        /\ req[r].pc = "refund.read" /\ Goto(r, "refund.entered")
    BY <1>4 DEF RefundEnter
  <2>2. OthersKept(r) /\ req'[r] = [req[r] EXCEPT !.pc = "refund.entered"]
    BY <1>1, <2>1, ReqUpdate DEF Goto
  <2>3. /\ req'[r].todo = req[r].todo /\ req'[r].pc = "refund.entered"
        /\ req'[r].payout = req[r].payout /\ req'[r].fee = req[r].fee
    BY <1>1, <2>2 DEF Request
  <2>4. \A l \in Legs : OnRow(l)' <=> OnRow(l)
    BY <2>1 DEF OnRow
  <2>5. KeyKept(req[r])'
    BY <1>1, <2>1, <2>3, <2>4 DEF KeyKept, SettlePCs, RefundPCs
  <2>6. \A l \in Legs : ~ Holds(req[r], l) /\ ~ Holds(req'[r], l)
    BY <2>1, <2>3 DEF Holds
  <2> QED
    BY <1>2, <2>1, <2>2, <2>5, <2>6, LossPlain
\* Nothing is left to send because the refund was recorded.
<1>5. CASE RefundEnterEscrow(r)
  <2>1. /\ UNCHANGED <<chain, keys, returned, errors, crashes, ledger>>
        /\ escrow' = [escrow EXCEPT !.status = "refunding"]
        /\ req[r].pc = "refund.entered" /\ Goto(r, "refund.next")
    BY <1>5 DEF RefundEnterEscrow
  <2>2. OthersKept(r) /\ req'[r] = [req[r] EXCEPT !.pc = "refund.next"]
    BY <1>1, <2>1, ReqUpdate DEF Goto
  <2>3. /\ req'[r].todo = req[r].todo /\ req'[r].pc = "refund.next"
        /\ req'[r].payout = req[r].payout /\ req'[r].fee = req[r].fee
    BY <1>1, <2>2 DEF Request
  <2>4. /\ escrow'.refundTx = escrow.refundTx /\ escrow'.payoutTx = escrow.payoutTx
        /\ escrow'.feeTx = escrow.feeTx
    BY <2>1 DEF TypeOK
  <2>5. \A l \in Legs : OnRow(l)' <=> OnRow(l)
    BY <2>1, <2>4 DEF OnRow
  <2>6. KeyKept(req[r])'
    BY <1>1, <2>1, <2>3, <2>5 DEF KeyKept, SettlePCs, RefundPCs
  <2>7. \A l \in Legs : ~ Holds(req[r], l)
    BY <2>1 DEF Holds
  <2>8. \A l \in Legs : Holds(req'[r], l) => OnRow(l)'
    <3>1. \A l \in Legs : Holds(req'[r], l) => SingleRefund /\ req[r].todo = {} /\ l = REFUND
      BY <2>3 DEF Holds
    <3>2. SingleRefund /\ req[r].todo = {} => OnRow(REFUND)
      BY <1>1, <2>1 DEF KeyKept, OnRow, RefundLegs
    <3> QED
      BY <2>5, <3>1, <3>2
  <2> QED
    BY <1>2, <2>1, <2>2, <2>4, <2>6, <2>7, <2>8, LossPlain
<1>6. ASSUME NEW l \in RefundLegs, RefundCheck(r, l)
      PROVE  LossInv'
  <2>1. /\ UNCHANGED <<chain, keys, returned, errors, crashes, ledger, escrow>>
        /\ req[r].pc = "refund.next" /\ l \in req[r].todo
    BY <1>6 DEF RefundCheck
  <2>2. /\ OthersKept(r)
        /\ req'[r].todo = req[r].todo /\ req'[r].pc = "refund.send" /\ req'[r].leg = l
        /\ req'[r].payout = req[r].payout /\ req'[r].fee = req[r].fee
    BY <1>1, <1>6, ReqUpdate DEF RefundCheck, Request
  <2>3. \A m \in Legs : OnRow(m)' <=> OnRow(m)
    BY <2>1 DEF OnRow
  <2>4. KeyKept(req[r])'
    BY <1>1, <2>1, <2>2, <2>3 DEF KeyKept, SettlePCs, RefundPCs
  <2>5. \A m \in Legs : ~ Holds(req[r], m) /\ ~ Holds(req'[r], m)
    BY <2>1, <2>2 DEF Holds
  <2> QED
    BY <1>2, <2>1, <2>2, <2>4, <2>5, LossPlain
<1>7. CASE RefundSend(r)
  <2> DEFINE l == req[r].leg
             a == LegAmount(l, {})
  <2>1. /\ l \in RefundLegs /\ l \in Legs /\ l \in req[r].todo
        /\ OnRow(l) => keys[l] # {}
        /\ req[r].pc = "refund.send"
    BY <1>1, <1>7, LegsFacts DEF RefundSend, KeyKept, RefundPCs, RequestHashes
  <2>2. /\ a \in Nat /\ Transfer(l, a)
        /\ UNCHANGED <<ledger, escrow, returned, errors, crashes>>
    BY <1>7, <2>1, LegAmountNat DEF RefundSend
  <2>3. /\ OthersKept(r) /\ req'[r].todo \subseteq req[r].todo
        /\ req'[r].payout = req[r].payout /\ req'[r].fee = req[r].fee
        /\ SingleRefund => req'[r].pc = "refund.next" /\ req'[r].todo = {}
        /\ ~ SingleRefund => req'[r].pc = "refund.mark" /\ req'[r].leg = l
    <3>1. CASE SingleRefund
      BY <1>1, <1>7, <3>1, ReqUpdate DEF RefundSend, Request
    <3>2. CASE ~ SingleRefund
      BY <1>1, <1>7, <3>2, ReqUpdate DEF RefundSend, Request
    <3> QED
      BY <3>1, <3>2
  <2>4. \A m \in Legs : ~ Holds(req[r], m)
    BY <2>1 DEF Holds
  <2>5. \A m \in Legs : Holds(req'[r], m) <=> m = l
    <3>1. SingleRefund => l = REFUND
      BY <2>1 DEF RefundLegs
    <3> QED
      BY <2>3, <3>1 DEF Holds
  <2>6. KeyKept(req[r])'
    <3>1. \A m \in Legs : keys[m] # {} => keys'[m] # {}
      BY <2>1, <2>2 DEF Transfer, TypeOK
    <3>2. \A m \in Legs : OnRow(m)' <=> OnRow(m)
      BY <2>2 DEF OnRow
    <3>3. \A m \in req[r].todo : OnRow(m) => keys[m] # {}
      BY <1>1, <2>1 DEF KeyKept, RefundPCs
    <3>4. \A m \in req'[r].todo : OnRow(m)' => keys'[m] # {}
      BY <1>1, <2>3, <3>1, <3>2, <3>3
    <3>5. req'[r].pc \in {"refund.next", "refund.mark"}
      BY <2>3
    <3>6. /\ req'[r].payout => ledger'[WINNER].tx
          /\ req'[r].fee => ledger'[FEE].tx
      BY <1>1, <2>2, <2>3 DEF KeyKept
    <3> QED
      BY <3>4, <3>5, <3>6 DEF KeyKept, SettlePCs
  <2> HIDE DEF l, a
  <2> QED
    BY <2>1, <2>2, <2>3, <2>4, <2>5, <2>6, LossSend
\* The answer comes on the row of the contribution.
<1>8. CASE RefundMark(r)
  <2> DEFINE l == req[r].leg
  <2>1. /\ l \in RefundLegs /\ l \in Legs /\ ~ SingleRefund /\ req[r].pc = "refund.mark"
        /\ UNCHANGED <<chain, keys, errors, crashes, escrow, ledger>>
        /\ returned' = returned \cup {l}
    BY <1>1, <1>8, LegsFacts DEF RefundMark, RequestHashes
  <2>2. /\ OthersKept(r) /\ req'[r].pc = "refund.next"
        /\ req'[r].todo = req[r].todo \ {l}
        /\ req'[r].payout = req[r].payout /\ req'[r].fee = req[r].fee
    BY <1>1, <1>8, ReqUpdate DEF RefundMark, Request
  <2>3. OnRow(l) \/ keys[l] # {}
    BY <2>1 DEF LossInv, Held, Holds
  <2>4. \A m \in Legs \ {l} : OnRow(m)' <=> OnRow(m)
    BY <2>1 DEF OnRow
  <2>5. \A m \in {l} : OnRow(m)'
    BY <2>1 DEF OnRow
  <2>6. RowsGrow
    BY <2>1, <2>3, <2>4, <2>5 DEF RowsGrow
  <2>7. KeyKept(req[r])'
    <3>1. \A m \in req[r].todo : OnRow(m) => keys[m] # {}
      BY <1>1, <2>1 DEF KeyKept, RefundPCs
    <3>2. \A m \in req'[r].todo : OnRow(m)' => keys'[m] # {}
      BY <1>1, <2>1, <2>2, <2>4, <3>1
    <3>3. /\ req'[r].payout => ledger'[WINNER].tx
          /\ req'[r].fee => ledger'[FEE].tx
      BY <1>1, <2>1, <2>2 DEF KeyKept
    <3> QED
      BY <2>2, <3>2, <3>3 DEF KeyKept, SettlePCs
  <2>8. \A m \in Legs : (Holds(req[r], m) => OnRow(m)') /\ ~ Holds(req'[r], m)
    BY <2>1, <2>2, <2>5 DEF Holds
  <2>9. /\ escrow'.payoutTx => ledger'[WINNER].tx
        /\ escrow'.feeTx => ledger'[FEE].tx
    BY <1>2, <2>1
  <2>10. errors' \in Nat /\ crashes' \in Nat /\ errors + crashes <= errors' + crashes'
    BY <2>1 DEF TypeOK
  <2> QED
    BY <2>1, <2>2, <2>6, <2>7, <2>8, <2>9, <2>10, LossQuiet
<1>9. CASE RefundError(r)
  <2>1. /\ Return(r) /\ errors' = errors + 1
        /\ UNCHANGED <<chain, keys, returned, crashes, ledger, escrow>>
    BY <1>9 DEF RefundError
  <2>2. RowsGrow
    BY <2>1, RowsSame
  <2>3. errors' \in Nat /\ crashes' \in Nat /\ errors + crashes + 1 <= errors' + crashes'
    BY <2>1 DEF TypeOK
  <2> QED
    BY <1>2, <2>1, <2>2, <2>3, ReturnLoss, LossOne
\* The one refund comes on the row of the escrow.
<1>10. CASE RefundFinish(r)
  <2>1. /\ Return(r) /\ req[r].pc = "refund.next" /\ req[r].todo = {}
        /\ UNCHANGED <<chain, keys, returned, errors, crashes>>
        /\ escrow' = [escrow EXCEPT !.status = "refunded", !.refundTx = TRUE]
    BY <1>10 DEF RefundFinish
  <2>2. /\ escrow'.refundTx /\ escrow'.payoutTx = escrow.payoutTx
        /\ escrow'.feeTx = escrow.feeTx
    BY <2>1 DEF TypeOK
  <2>3. \A m \in PayoutLegs : ledger'[m].tx <=> ledger[m].tx
    BY <1>1, <1>10 DEF RefundFinish, Row
  <2>4. SingleRefund => REFUND \in Legs /\ (OnRow(REFUND) \/ keys[REFUND] # {})
    BY <2>1, RefundRow DEF LossInv, Held, Holds, RefundLegs
  <2>5. \A m \in Legs :
        /\ OnRow(m) => OnRow(m)'
        /\ OnRow(m)' => OnRow(m) \/ (SingleRefund /\ m = REFUND)
    BY <2>1, <2>2, <2>3 DEF OnRow, RefundLegs
  <2>6. RowsGrow
    BY <2>1, <2>2, <2>4, <2>5 DEF RowsGrow
  <2>7. SingleRefund => OnRow(REFUND)'
    BY <2>2 DEF OnRow, RefundLegs
  <2>8. OthersKept(r) /\ KeyKept(req[r])' /\ \A m \in Legs : ~ Holds(req'[r], m)
    BY <2>1, ReturnLoss
  <2>9. \A m \in Legs : Holds(req[r], m) => OnRow(m)'
    BY <2>1, <2>7 DEF Holds
  <2>10. /\ escrow'.payoutTx => ledger'[WINNER].tx
         /\ escrow'.feeTx => ledger'[FEE].tx
    BY <1>2, <2>2, <2>3, LegsFacts
  <2>11. errors' \in Nat /\ crashes' \in Nat /\ errors + crashes <= errors' + crashes'
    BY <2>1 DEF TypeOK
  <2> QED
    BY <2>1, <2>6, <2>8, <2>9, <2>10, <2>11, LossQuiet
<1> QED
  BY <1>3, <1>4, <1>5, <1>6, <1>7, <1>8, <1>9, <1>10 DEF RefundStep

\* The rail forgets keys only when no handler is at work.
LEMMA ExpireLoss ==
    ASSUME TypeOK, LossInv, NEW x \in Legs, ExpireKey(x)
    PROVE  LossInv'
<1>1. /\ UNCHANGED <<chain, ledger, escrow, returned, req, errors, crashes>>
      /\ \A r \in Requests : req[r].pc = "idle"
  BY DEF ExpireKey, InFlight
<1>2. \A l \in Legs : (OnRow(l)' <=> OnRow(l)) /\ ~ Held(l) /\ ~ Held(l)'
  BY <1>1 DEF OnRow, Held, Holds
<1>3. Owed' = Owed
  BY <1>1, <1>2 DEF Owed, Moved
<1>4. \A r \in Requests : KeyKept(req[r])'
  BY <1>1 DEF LossInv, KeyKept, SettlePCs, RefundPCs
<1>5. LossCount'
  BY <1>1, <1>3 DEF LossInv, LossCount, Resent
<1> QED
  BY <1>1, <1>2, <1>4, <1>5 DEF LossInv

LEMMA QuietLoss ==
    ASSUME TypeOK, LossInv,
           UNCHANGED <<chain, ledger, escrow, returned, keys, req, errors>>,
           crashes' = crashes \/ crashes' = crashes + 1
    PROVE  LossInv'
<1>1. \A l \in Legs : (OnRow(l)' <=> OnRow(l)) /\ (Held(l)' <=> Held(l))
  BY DEF OnRow, Held, Holds
<1>2. Owed' = Owed
  BY <1>1 DEF Owed, Moved
<1>3. \A r \in Requests : KeyKept(req[r])'
  BY DEF LossInv, KeyKept, OnRow
<1>4. /\ Cardinality(Owed) \in Nat /\ errors \in Nat /\ crashes \in Nat
      /\ errors' \in Nat /\ crashes' \in Nat
  BY ResentNat DEF TypeOK
<1>5. errors + crashes + 0 <= errors' + crashes'
  <2>1. PICK e \in Nat, c \in Nat, e1 \in Nat, c1 \in Nat :
           e = errors /\ c = crashes /\ e1 = errors' /\ c1 = crashes'
    BY <1>4
  <2>2. e1 = e /\ (c1 = c \/ c1 = c + 1)
    BY <2>1
  <2>3. e + c + 0 <= e1 + c1
    BY <2>2
  <2> QED
    BY <2>1, <2>3
<1>6. /\ Cardinality(Owed') \in Nat
      /\ Cardinality(Owed') <= Cardinality(Owed) + 0
  BY <1>2, <1>4
<1>7. LossCount /\ UNCHANGED chain
  BY DEF LossInv
<1>8. LossCount'
  BY <1>4, <1>5, <1>6, <1>7, CountKept
<1> QED
  BY <1>1, <1>3, <1>8 DEF LossInv

LEMMA LossNext ==
    ASSUME TypeOK, HashInv, NoRowNoHash, LossInv, [Next]_vars
    PROVE  LossInv'
<1>1. ASSUME NEW r \in Requests, Handler(r)
      PROVE  LossInv'
  <2>1. CASE Arrive(r)
    BY <2>1, SettleReadLoss, RefundReadLoss DEF Arrive
  <2>2. CASE Crash(r)
    <3>1. /\ Return(r) /\ crashes' = crashes + 1
          /\ UNCHANGED <<chain, keys, returned, errors, ledger, escrow>>
      BY <2>2 DEF Crash
    <3>2. RowsGrow
      BY <3>1, RowsSame
    <3>3. /\ errors' \in Nat /\ crashes' \in Nat
          /\ errors + crashes + 1 <= errors' + crashes'
      BY <3>1 DEF TypeOK
    <3>4. /\ escrow'.payoutTx => ledger'[WINNER].tx
          /\ escrow'.feeTx => ledger'[FEE].tx
      BY <3>1 DEF LossInv
    <3> QED
      BY <3>1, <3>2, <3>3, <3>4, ReturnLoss, LossOne
  <2> QED
    BY <1>1, <2>1, <2>2, SettleStepLoss, RefundStepLoss DEF Handler
<1>2. CASE HookStep \/ UNCHANGED vars
  <2>1. /\ UNCHANGED <<chain, ledger, escrow, returned, keys, req, errors>>
        /\ crashes' = crashes \/ crashes' = crashes + 1
    BY <1>2 DEF HookStep, MarkRead, MarkEligible, MarkSkipped, FreezeRead, FreezeRow,
                HookStop, HookCrash, vars
  <2> QED
    BY <2>1, QuietLoss
<1> QED
  BY <1>1, <1>2, ExpireLoss DEF Next

LEMMA LossStart == Init => LossInv
<1> SUFFICES ASSUME Init
             PROVE  LossInv
  OBVIOUS
<1>1. TypeOK
  BY TypeInit
<1>2. \A l \in Legs : ~ Moved(l) /\ Resent(l) = 0
  BY DEF Init, InitOpen, InitMerged, Start, Moved, Resent
<1>3. /\ \A r \in Requests : KeyKept(req[r]) /\ \A l \in Legs : ~ Holds(req[r], l)
      /\ ~ escrow.payoutTx /\ ~ escrow.feeTx
  BY DEF Init, InitOpen, InitMerged, Start, KeyKept, Holds, Idle, SettlePCs, RefundPCs
<1>4. Cardinality(Owed) = 0
  BY <1>2, FS_EmptySet DEF Owed
<1> DEFINE f == [l \in Legs |-> Resent(l)]
<1>5. Total(Legs, f) = SumOf(f, Legs) /\ IsFiniteSet(Legs)
  BY <1>1, ResentNat
<1>6. \A l \in Legs : f[l] = 0
  BY <1>2
<1> HIDE DEF f
<1>7. SumOf(f, Legs) = 0
  BY <1>5, <1>6, SumZero
<1>8. errors = 0 /\ crashes = 0
  BY DEF Init, InitOpen, InitMerged, Start
<1>9. Total(Legs, f) + Cardinality(Owed) <= errors + crashes
  BY <1>4, <1>5, <1>7, <1>8
<1>10. LossCount
  BY <1>9 DEF f, LossCount
<1> QED
  BY <1>3, <1>10 DEF LossInv, Held

\* A leg is transferred again only after an answer was lost, each time another
\* one (ResendNeedsLoss): however many handlers overlap, with or without the
\* keys of the rail, before and after the merge, a retry that follows a
\* recorded transfer does not pay again.
THEOREM ResendsPaidFor == Spec => []ResendNeedsLoss
<1>1. Init => NoRowNoHash
  BY DEF Init, InitOpen, InitMerged, Start, NoRowNoHash, NoRow
<1>2. TypeOK /\ NoRowNoHash /\ [Next]_vars => NoRowNoHash'
  BY NoRowKept
<1>3. TypeOK /\ HashInv /\ NoRowNoHash /\ LossInv /\ [Next]_vars => LossInv'
  BY LossNext
<1>4. TypeOK /\ LossInv => ResendNeedsLoss
  <2> SUFFICES ASSUME TypeOK, LossInv
               PROVE  ResendNeedsLoss
    OBVIOUS
  <2> DEFINE t == Total(Legs, [l \in Legs |-> Resent(l)])
             n == Cardinality(Owed)
  <2>1. t \in Nat /\ n \in Nat /\ errors \in Nat /\ crashes \in Nat
    BY ResentNat DEF TypeOK
  <2>2. t + n <= errors + crashes
    BY DEF LossInv, LossCount
  <2> HIDE DEF t, n
  <2>3. t <= errors + crashes
    BY <2>1, <2>2
  <2> QED
    BY <2>3 DEF t, ResendNeedsLoss
<1> QED
  BY <1>1, <1>2, <1>3, <1>4, LossStart, Inductive, PTL DEF Spec

-----------------------------------------------------------------------------
(* What the statuses say, for handlers that do not overlap. *)

\* The coverage check counts this row as paid.
Counted(l) == ledger[l].st = "confirmed" \/ ledger[l].tx

\* What the contributions have left over pays for these legs.
PlanAmount == [l \in PayoutLegs |-> LegAmount(l, Pool)]
Fits(S) == S = {} \/ SumOf(PlanAmount, S) <= Face - PaidAtomic
FitsNext(S) == S = {} \/ SumOf(PlanAmount', S) <= Face - PaidAtomic'

\* The ledger has a hash for every leg of the plan.
Carried == \A l \in Planned(Pool) : ledger[l].tx

\* A handler that has moved the bounty to "settling", or found it there.
Entered(q) == q.pc \in SettlePCs \ {"settle.read"}

\* The rows: what they say of each other between the steps of one handler.
BooksInv ==
    /\ \A l \in PayoutLegs : ledger[l].st # "none" => ledger[l].amt = LegAmount(l, Pool)
    /\ escrow.payoutTx => ledger[WINNER].tx
    /\ escrow.feeTx => ledger[FEE].tx
    /\ escrow.status = "settled" => Carried
    /\ bounty = "settling" => escrow.status \in {"funded", "settling"}
    /\ bounty \in {"settled", "settled_partial"} => escrow.status = bounty
    /\ bounty = "refunding" => escrow.status \in {"funded", "refunding"}
    /\ bounty \in {"cancelled", "expired"} => escrow.status = "refunded"
    /\ bounty = "settling" /\ crashes = 0 => escrow.fail \/ \E r \in Requests : Entered(req[r])

\* The handler: what it has read is still so, the legs it has to transfer are paid
\* for, and it calls the bounty settled exactly when the ledger has the plan.
RequestBooks(q) ==
    /\ q.pc \in SettlePCs => /\ q.payout => ledger[WINNER].tx
                             /\ q.fee => ledger[FEE].tx
    /\ q.pc = "settle.read" => q.escrow = escrow.status
    /\ q.pc = "settle.entered" => bounty = "settling"
    /\ q.pc \in SettlePCs \ {"settle.read", "settle.entered"} =>
          escrow.status \in {"settling", "settled_partial", "settled"}
    /\ q.pc \in {"refund.next", "refund.send", "refund.mark"} => escrow.status = "refunding"
    /\ q.pc \in {"settle.entered", "settle.legs", "settle.next", "settle.send",
                 "settle.confirm"} => Fits(q.todo)
    /\ q.pc = "settle.record" => Fits(q.todo \ {q.leg}) /\ ledger[q.leg].tx
    /\ q.pc \in {"settle.next", "settle.send", "settle.confirm", "settle.record"} =>
          \A l \in q.todo : ledger[l].st # "none"
    /\ q.pc \in {"settle.send", "settle.confirm", "settle.record"} => q.leg \in q.todo
    /\ q.pc = "settle.finish" => (q.term = "settled" <=> Carried)

AccountInv == BooksInv /\ \A r \in Requests : RequestBooks(req[r])


\* What the coverage check counts: ledger rows and contributions.
LEMMA PaidIs ==
    PaidAtomic = SumOf([l \in PayoutLegs |-> ledger[l].amt], {l \in PayoutLegs : Counted(l)})
                   + SumOf(Contribution, returned)
  BY TotalIsSum DEF PaidAtomic, Counted

LEMMA PaidIsNext ==
    PaidAtomic' = SumOf([l \in PayoutLegs |-> ledger'[l].amt],
                        {l \in PayoutLegs : Counted(l)'})
                    + SumOf(Contribution, returned')
  BY TotalIsSum DEF PaidAtomic, Counted

LEMMA ReturnedNat ==
    ASSUME TypeOK
    PROVE  SumOf(Contribution, returned) \in Nat
<1>1. IsFiniteSet(Contributors) /\ \A c \in Contributors : Contribution[c] \in Nat
  BY AmountAssumption
<1> QED
  BY <1>1, SumNatSubset DEF TypeOK

LEMMA PaidNat == ASSUME TypeOK PROVE PaidAtomic \in Nat
<1> DEFINE f == [l \in PayoutLegs |-> ledger[l].amt]
           C == {l \in PayoutLegs : Counted(l)}
<1>1. \A l \in PayoutLegs : f[l] \in Nat
  BY DEF TypeOK, Row
<1> HIDE DEF f
<1>2. SumOf(f, C) \in Nat
  BY <1>1, LegsFinite, SumNatSubset
<1> QED
  BY <1>2, PaidIs, ReturnedNat DEF f

LEMMA PaidNatNext == ASSUME TypeOK' PROVE PaidAtomic' \in Nat
<1>1. SumOf([l \in PayoutLegs |-> ledger'[l].amt], {l \in PayoutLegs : Counted(l)'}) \in Nat
  <2> DEFINE g == [l \in PayoutLegs |-> ledger'[l].amt]
  <2>1. \A l \in PayoutLegs : g[l] \in Nat
    BY DEF TypeOK, Row
  <2> HIDE DEF g
  <2>2. SumOf(g, {l \in PayoutLegs : Counted(l)'}) \in Nat
    BY <2>1, LegsFinite, SumNatSubset
  <2> QED
    BY <2>2 DEF g
<1>2. SumOf(Contribution, returned') \in Nat
  <2>1. IsFiniteSet(Contributors) /\ \A c \in Contributors : Contribution[c] \in Nat
    BY AmountAssumption
  <2> QED
    BY <2>1, SumNatSubset DEF TypeOK
<1> QED
  BY <1>1, <1>2, PaidIsNext

\* The rows in T are counted now as they were before.
LEMMA CountedPart ==
    ASSUME TypeOK, TypeOK', NEW T \in SUBSET PayoutLegs,
           \A l \in T : Counted(l) /\ ledger'[l].amt = ledger[l].amt
    PROVE  SumOf([l \in PayoutLegs |-> ledger'[l].amt], T)
             <= SumOf([l \in PayoutLegs |-> ledger[l].amt], {l \in PayoutLegs : Counted(l)})
<1> DEFINE f == [l \in PayoutLegs |-> ledger[l].amt]
           g == [l \in PayoutLegs |-> ledger'[l].amt]
           C == {l \in PayoutLegs : Counted(l)}
<1>1. (\A l \in C : f[l] \in Nat) /\ \A l \in T : g[l] = f[l]
  BY DEF TypeOK, Row
<1>2. IsFiniteSet(C) /\ IsFiniteSet(T) /\ T \subseteq C
  BY LegsFinite, FS_Subset
<1> HIDE DEF f, g, C
<1>3. SumOf(g, T) = SumOf(f, T)
  BY <1>1, <1>2, SumEqual
<1>4. SumOf(f, T) <= SumOf(f, C)
  BY <1>1, <1>2, SumPartLess
<1> QED
  BY <1>3, <1>4 DEF f, g, C

LEMMA PaidNoMore ==
    ASSUME TypeOK, TypeOK', UNCHANGED returned,
           \A l \in PayoutLegs : Counted(l)' => Counted(l) /\ ledger'[l].amt = ledger[l].amt
    PROVE  PaidAtomic' <= PaidAtomic
<1> DEFINE f == [l \in PayoutLegs |-> ledger[l].amt]
           g == [l \in PayoutLegs |-> ledger'[l].amt]
           C == {l \in PayoutLegs : Counted(l)}
           D == {l \in PayoutLegs : Counted(l)'}
<1>1. SumOf(g, D) <= SumOf(f, C)
  BY CountedPart
<1>2. SumOf(f, C) \in Nat /\ SumOf(g, D) \in Nat
  <2>1. \A l \in PayoutLegs : f[l] \in Nat /\ g[l] \in Nat
    BY DEF TypeOK, Row
  <2> HIDE DEF f, g
  <2> QED
    BY <2>1, LegsFinite, SumNatSubset
<1> HIDE DEF f, g, C, D
<1> QED
  BY <1>1, <1>2, PaidIs, PaidIsNext, ReturnedNat DEF f, g, C, D

\* One more row is counted.
LEMMA PaidOneMore ==
    ASSUME TypeOK, TypeOK', UNCHANGED returned, NEW m \in PayoutLegs,
           \A l \in PayoutLegs \ {m} : Counted(l)' => Counted(l) /\ ledger'[l].amt = ledger[l].amt
    PROVE  PaidAtomic' <= PaidAtomic + ledger'[m].amt
<1> DEFINE f == [l \in PayoutLegs |-> ledger[l].amt]
           g == [l \in PayoutLegs |-> ledger'[l].amt]
           C == {l \in PayoutLegs : Counted(l)}
           D == {l \in PayoutLegs : Counted(l)'}
<1>1. SumOf(g, D \ {m}) <= SumOf(f, C)
  BY CountedPart
<1>2. \A l \in PayoutLegs : f[l] \in Nat /\ g[l] \in Nat
  BY DEF TypeOK, Row
<1>3. g[m] = ledger'[m].amt
  OBVIOUS
<1>4. D \subseteq PayoutLegs /\ C \subseteq PayoutLegs /\ IsFiniteSet(D)
  BY LegsFinite, FS_Subset
<1> HIDE DEF f, g, C, D
<1>5. SumOf(f, C) \in Nat /\ SumOf(g, D \ {m}) \in Nat
  BY <1>2, <1>4, LegsFinite, SumNatSubset
<1>6. SumOf(g, D) <= SumOf(g, D \ {m}) + g[m] /\ SumOf(g, D) \in Nat
  <2>1. CASE m \in D
    <3>1. SumOf(g, D) = g[m] + SumOf(g, D \ {m})
      BY <1>2, <1>4, <2>1, SumTake
    <3> QED
      BY <1>2, <1>5, <3>1
  <2>2. CASE m \notin D
    <3>1. D \ {m} = D
      BY <2>2
    <3>2. SumOf(g, D) = SumOf(g, D \ {m}) /\ g[m] \in Nat
      BY <1>2, <3>1
    <3> QED
      BY <1>5, <3>2
  <2> QED
    BY <2>1, <2>2
<1>7. PaidAtomic = SumOf(f, C) + SumOf(Contribution, returned)
      /\ PaidAtomic' = SumOf(g, D) + SumOf(Contribution, returned)
  BY PaidIs, PaidIsNext DEF f, g, C, D
<1> QED
  BY <1>1, <1>2, <1>3, <1>5, <1>6, <1>7, ReturnedNat

LEMMA PlanAmounts ==
    ASSUME TypeOK
    PROVE  /\ \A l \in PayoutLegs : PlanAmount[l] = LegAmount(l, Pool) /\ PlanAmount[l] \in Nat
           /\ \A S \in SUBSET PayoutLegs : IsFiniteSet(S) /\ SumOf(PlanAmount, S) \in Nat
<1>1. \A l \in PayoutLegs : PlanAmount[l] = LegAmount(l, Pool) /\ PlanAmount[l] \in Nat
  BY PlanFacts, LegsFacts DEF PlanAmount
<1> QED
  BY <1>1, LegsFinite, FS_Subset, SumNatSubset

LEMMA CoveredFits ==
    ASSUME TypeOK, NEW q, q.pool = Pool, NEW S \in SUBSET PayoutLegs
    PROVE  Covered(q, S) <=> SumOf(PlanAmount, S) <= Face - PaidAtomic
<1> DEFINE f == [l \in S |-> LegAmount(l, q.pool)]
<1>1. \A l \in S : f[l] = PlanAmount[l]
  BY PlanAmounts
<1>2. Covered(q, S) <=> SumOf(f, S) <= Face - PaidAtomic
  BY TotalIsSum DEF Covered, VerifiedAtomic
<1> HIDE DEF f
<1>3. SumOf(f, S) = SumOf(PlanAmount, S)
  BY <1>1, PlanAmounts, SumEqual
<1> QED
  BY <1>2, <1>3

\* Fewer legs, and no more paid.
LEMMA FitsKept ==
    ASSUME TypeOK, TypeOK', UNCHANGED frozen, PaidAtomic' <= PaidAtomic,
           NEW S \in SUBSET PayoutLegs, NEW T \in SUBSET S, Fits(S)
    PROVE  FitsNext(T)
<1>1. PlanAmount' = PlanAmount /\ PaidAtomic \in Nat /\ Face \in Nat
  BY PaidNat, FaceIsSum DEF PlanAmount, Pool
<1>2. PaidAtomic' \in Nat
  BY PaidNatNext
<1>3. SumOf(PlanAmount, T) <= SumOf(PlanAmount, S)
      /\ SumOf(PlanAmount, S) \in Nat /\ SumOf(PlanAmount, T) \in Nat
  <2>1. IsFiniteSet(S) /\ \A l \in S : PlanAmount[l] \in Nat
    BY PlanAmounts
  <2>2. SumOf(PlanAmount, T) <= SumOf(PlanAmount, S)
    BY <2>1, SumPartLess
  <2> QED
    BY <2>2, PlanAmounts
<1>4. SumOf(PlanAmount', T) = SumOf(PlanAmount, T)
  BY <1>1
<1>5. CASE T = {}
  BY <1>5 DEF Fits, FitsNext
<1>6. CASE T # {}
  <2>1. SumOf(PlanAmount, S) <= Face - PaidAtomic
    BY <1>6 DEF Fits, FitsNext
  <2>2. SumOf(PlanAmount, T) <= Face - PaidAtomic'
    BY <1>1, <1>2, <1>3, <2>1
  <2> QED
    BY <1>4, <2>2 DEF Fits, FitsNext
<1> QED
  BY <1>5, <1>6

\* A leg less, and its amount more paid.
LEMMA FitsOneLess ==
    ASSUME TypeOK, TypeOK', UNCHANGED frozen, NEW S \in SUBSET PayoutLegs, NEW m \in S,
           PaidAtomic' <= PaidAtomic + PlanAmount[m], Fits(S)
    PROVE  FitsNext(S \ {m})
<1>1. PlanAmount' = PlanAmount /\ PaidAtomic \in Nat /\ Face \in Nat /\ PaidAtomic' \in Nat
  BY PaidNat, PaidNatNext, FaceIsSum DEF PlanAmount, Pool
<1>2. SumOf(PlanAmount, S) = PlanAmount[m] + SumOf(PlanAmount, S \ {m})
      /\ PlanAmount[m] \in Nat /\ SumOf(PlanAmount, S \ {m}) \in Nat
  <2>1. IsFiniteSet(S) /\ \A l \in S : PlanAmount[l] \in Nat
    BY PlanAmounts
  <2> QED
    BY <2>1, SumTake, PlanAmounts
<1>3. SumOf(PlanAmount, S) <= Face - PaidAtomic
  BY DEF Fits, FitsNext
<1>4. SumOf(PlanAmount, S \ {m}) <= Face - PaidAtomic'
  BY <1>1, <1>2, <1>3
<1>5. SumOf(PlanAmount', S \ {m}) = SumOf(PlanAmount, S \ {m})
  BY <1>1
<1> QED
  BY <1>4, <1>5 DEF Fits, FitsNext


-----------------------------------------------------------------------------
\* What is known of the rows when one handler works alone.
AccountContext ==
    /\ TypeOK /\ HashInv /\ WinnerFirstInv /\ AmountsInv /\ SidesInv /\ NoRowNoHash
    /\ AccountInv

\* Rows are inserted with the amount of the plan, keep it, and keep their hashes.
RowsGo ==
    \A l \in PayoutLegs :
        /\ ledger'[l].st # "none" => ledger'[l].amt = LegAmount(l, Pool)
        /\ ledger[l].tx => ledger'[l].tx
        /\ ledger[l].st # "none" => ledger'[l].st # "none"

LEMMA RowsStill ==
    ASSUME AccountContext, UNCHANGED ledger
    PROVE  RowsGo /\ \A l \in PayoutLegs : Counted(l)' => Counted(l) /\ ledger'[l].amt = ledger[l].amt
  BY DEF AccountContext, AccountInv, BooksInv, RowsGo, Counted

LEMMA RowsMarked ==
    ASSUME AccountContext, NEW m \in PayoutLegs, ledger[m].st # "none",
           NEW s \in {"submitted", "failed"}, ledger' = [ledger EXCEPT ![m].st = s]
    PROVE  RowsGo /\ \A l \in PayoutLegs : Counted(l)' => Counted(l) /\ ledger'[l].amt = ledger[l].amt
<1>1. ledger \in [PayoutLegs -> Row]
  BY DEF AccountContext, TypeOK
<1>2. \A l \in PayoutLegs : ledger[l].st # "none" => ledger[l].amt = LegAmount(l, Pool)
  BY DEF AccountContext, AccountInv, BooksInv
<1>3. \A l \in PayoutLegs : /\ ledger'[l].tx = ledger[l].tx /\ ledger'[l].amt = ledger[l].amt
                            /\ ledger'[l].st = IF l = m THEN s ELSE ledger[l].st
  BY <1>1 DEF Row
<1> QED
  BY <1>2, <1>3 DEF RowsGo, Counted

LEMMA RowsConfirmed ==
    ASSUME AccountContext, NEW m \in PayoutLegs, ledger[m].st # "none",
           ledger' = [ledger EXCEPT ![m] = [ledger[m] EXCEPT !.st = "confirmed", !.tx = TRUE]]
    PROVE  /\ RowsGo /\ ledger'[m].tx /\ ledger'[m].amt = LegAmount(m, Pool)
           /\ \A l \in PayoutLegs \ {m} :
                Counted(l)' => Counted(l) /\ ledger'[l].amt = ledger[l].amt
<1>1. ledger \in [PayoutLegs -> Row]
  BY DEF AccountContext, TypeOK
<1>2. \A l \in PayoutLegs : ledger[l].st # "none" => ledger[l].amt = LegAmount(l, Pool)
  BY DEF AccountContext, AccountInv, BooksInv
<1>3. /\ ledger'[m].tx /\ ledger'[m].amt = ledger[m].amt /\ ledger'[m].st = "confirmed"
      /\ \A l \in PayoutLegs \ {m} : ledger'[l] = ledger[l]
  BY <1>1 DEF Row
<1> QED
  BY <1>2, <1>3 DEF RowsGo, Counted

\* No hash of the escrow is missing from the ledger, so PrepareLegs only inserts.
LEMMA RowsPrepared ==
    ASSUME AccountContext, NEW r \in Requests, req[r].pc = "settle.legs",
           ledger' = Synced(req[r])
    PROVE  RowsGo /\ \A l \in PayoutLegs : Counted(l)' => Counted(l) /\ ledger'[l].amt = ledger[l].amt
<1> DEFINE q == req[r]
<1>1. /\ q.payout => ledger[WINNER].tx
      /\ q.fee => ledger[FEE].tx
      /\ q.pool = Pool
  BY DEF AccountContext, AccountInv, RequestBooks, AmountsInv, PlanKept, SettlePCs
<1>2. ASSUME NEW l \in PayoutLegs
      PROVE  \/ ledger'[l] = ledger[l]
             \/ /\ ledger[l].st = "none"
                /\ ledger'[l].st = "pending" /\ ledger'[l].tx = FALSE
                /\ ledger'[l].amt = LegAmount(l, Pool)
  <2> DEFINE new == Inserted(q)
  <2>1. ledger[l].tx => ledger[l].st # "none"
    BY DEF AccountContext, NoRowNoHash
  <2>2. new[l] = IF l \in Planned(q.pool) /\ ledger[l].st = "none"
                 THEN [st |-> "pending", tx |-> FALSE, amt |-> LegAmount(l, q.pool),
                       bound |-> l = WINNER /\ q.winnerRow]
                 ELSE ledger[l]
    BY DEF Inserted
  <2>3. ledger'[l] = IF /\ (l = WINNER /\ q.payout) \/ (l = FEE /\ q.fee)
                        /\ l \in Planned(q.pool) /\ RowFound(new, q, l) /\ ~ new[l].tx
                     THEN [new[l] EXCEPT !.st = "confirmed", !.tx = TRUE]
                     ELSE new[l]
    BY DEF Synced
  <2>4. (l = WINNER /\ q.payout) \/ (l = FEE /\ q.fee) => new[l].tx
    BY <1>1, <2>1, <2>2
  <2>5. ledger'[l] = new[l]
    <3> HIDE DEF new
    <3> QED
      BY <2>3, <2>4
  <2> QED
    BY <1>1, <2>2, <2>5
<1>3. \A l \in PayoutLegs : /\ ledger[l].st # "none" => ledger[l].amt = LegAmount(l, Pool)
                            /\ ledger[l].tx => ledger[l].st # "none"
  BY DEF AccountContext, AccountInv, BooksInv, NoRowNoHash
<1> QED
  BY <1>2, <1>3 DEF RowsGo, Counted

\* The statuses of the bounty and of its escrow agree.
StatusesAgree ==
    /\ bounty = "settling" => escrow.status \in {"funded", "settling"}
    /\ bounty \in {"settled", "settled_partial"} => escrow.status = bounty
    /\ bounty = "refunding" => escrow.status \in {"funded", "refunding"}
    /\ bounty \in {"cancelled", "expired"} => escrow.status = "refunded"

\* What a step has to show of the rows.
LEMMA BooksStep ==
    ASSUME AccountContext, NEW r \in Requests, Alone(r), UNCHANGED frozen, RowsGo,
           escrow'.payoutTx => escrow.payoutTx \/ ledger'[WINNER].tx,
           escrow'.feeTx => escrow.feeTx \/ ledger'[FEE].tx,
           escrow'.status = "settled" => escrow.status = "settled" \/ Carried',
           StatusesAgree',
           bounty' = "settling" /\ crashes' = 0 => escrow'.fail \/ Entered(req'[r]),
           RequestBooks(req[r])'
    PROVE  AccountInv'
<1>1. Pool' = Pool
  BY DEF Pool
<1>2. BooksInv
  BY DEF AccountContext, AccountInv
<1>3. (\A l \in PayoutLegs : ledger[l].st # "none" => ledger[l].amt = LegAmount(l, Pool))'
  BY <1>1 DEF RowsGo
<1>4. escrow'.payoutTx => ledger'[WINNER].tx
  BY <1>2, LegsFacts DEF BooksInv, RowsGo
<1>5. escrow'.feeTx => ledger'[FEE].tx
  BY <1>2, LegsFacts DEF BooksInv, RowsGo
<1>6. Carried => Carried'
  BY <1>1, PlanFacts DEF Carried, RowsGo, AccountContext
<1>7. escrow'.status = "settled" => Carried'
  BY <1>2, <1>6 DEF BooksInv
<1>8. BooksInv'
  BY <1>3, <1>4, <1>5, <1>7 DEF BooksInv, StatusesAgree, Entered
<1> QED
  BY <1>8 DEF AccountInv, Alone

\* Where the bounty is, whoever works.
LEMMA BooksFacts ==
    ASSUME AccountContext, NEW r \in Requests
    PROVE  /\ RequestBooks(req[r]) /\ SideKept(req[r]) /\ PlanKept(req[r])
           /\ RequestHashes(req[r]) /\ WinnerKept(req[r])
           /\ req[r] \in Request /\ req \in [Requests -> Request]
           /\ ledger \in [PayoutLegs -> Row] /\ escrow.status \in EscrowStatus
           /\ bounty \in BountyStatus /\ crashes \in Nat
           /\ StatusesAgree /\ (bounty = "funded" => escrow.status = "funded")
  BY DEF AccountContext, AccountInv, BooksInv, StatusesAgree, SidesInv, AmountsInv, HashInv,
         WinnerFirstInv, TypeOK

\* A handler that ends with the rows as they are, or that dies.
LEMMA ReturnBooks ==
    ASSUME AccountContext, NEW r \in Requests, Alone(r), Return(r),
           UNCHANGED <<frozen, ledger, bounty>>, escrow'.status = escrow.status,
           escrow'.payoutTx = escrow.payoutTx, escrow'.feeTx = escrow.feeTx,
           \/ escrow'.fail
           \/ escrow'.fail = escrow.fail /\ crashes' = crashes /\ ~ Entered(req[r])
           \/ bounty # "settling"
           \/ crashes' # 0
    PROVE  AccountInv'
<1>1. req'[r] = Idle
  BY ReturnUpdate DEF AccountContext
<1>2. RequestBooks(req[r])'
  BY <1>1 DEF RequestBooks, Idle, SettlePCs
<1>3. bounty' = "settling" /\ crashes' = 0 => escrow'.fail
  <2>1. Entered(req[r]) \/ ~ \E s \in Requests : Entered(req[s])
    BY DEF Alone
  <2> QED
    BY <2>1 DEF AccountContext, AccountInv, BooksInv
<1>4. StatusesAgree'
  BY BooksFacts DEF StatusesAgree
<1> QED
  BY <1>2, <1>3, <1>4, RowsStill, BooksStep

\* A handler that goes on with the rows as they are, after its first check.
LEMMA GoesOnBooks ==
    ASSUME AccountContext, NEW r \in Requests, Alone(r), UNCHANGED <<frozen, bounty>>, RowsGo,
           escrow'.status = escrow.status, escrow'.payoutTx => escrow.payoutTx \/ ledger'[WINNER].tx,
           escrow'.feeTx => escrow.feeTx \/ ledger'[FEE].tx,
           Entered(req'[r]), RequestBooks(req[r])'
    PROVE  AccountInv'
<1>1. StatusesAgree'
  BY BooksFacts DEF StatusesAgree
<1> QED
  BY <1>1, BooksStep


LEMMA SettleReadBooks ==
    ASSUME AccountContext, NEW r \in Requests, Alone(r), NEW op \in SettleOps,
           NEW reachable \in SUBSET Members, SettleRead(r, op, reachable)
    PROVE  AccountInv'
<1> DEFINE recorded == {l \in PayoutLegs : \/ l = WINNER /\ escrow.payoutTx
                                           \/ l = FEE /\ escrow.feeTx
                                           \/ l \in memberPaid}
           todo == {l \in Planned(Pool) \ recorded :
                      /\ InScope(l, op)
                      /\ op = "all" => l \in {WINNER, FEE} \cup reachable}
           x == [Idle EXCEPT !.pc = "settle.read", !.op = op,
                   !.escrow = escrow.status, !.payout = escrow.payoutTx,
                   !.fee = escrow.feeTx, !.fail = escrow.fail, !.pool = Pool,
                   !.winnerRow = WinnerRow \in frozen, !.todo = todo]
<1>1. req'[r] = x
  <2>1. req' = [req EXCEPT ![r] = x]
    BY DEF SettleRead, Pool
  <2> HIDE DEF x
  <2> QED
    BY <2>1, ReqUpdate DEF AccountContext
<1>2. UNCHANGED <<frozen, ledger, bounty, escrow, crashes>> /\ req[r].pc = "idle"
  BY DEF SettleRead
<1>3. x.pc = "settle.read" /\ x.escrow = escrow.status /\ x.payout = escrow.payoutTx
      /\ x.fee = escrow.feeTx
  <2> HIDE DEF todo
  <2> QED
    BY DEF Idle
<1> HIDE DEF x
<1>4. /\ escrow.payoutTx => ledger[WINNER].tx
      /\ escrow.feeTx => ledger[FEE].tx
      /\ bounty = "settling" /\ crashes = 0 => escrow.fail \/ \E s \in Requests : Entered(req[s])
  BY DEF AccountContext, AccountInv, BooksInv
<1>5. RequestBooks(req[r])'
  BY <1>1, <1>2, <1>3, <1>4 DEF RequestBooks, SettlePCs
<1>6. bounty' = "settling" /\ crashes' = 0 => escrow'.fail
  BY <1>2, <1>4 DEF Alone, Entered, SettlePCs
<1>7. StatusesAgree'
  BY <1>2, BooksFacts DEF StatusesAgree
<1> QED
  BY <1>2, <1>5, <1>6, <1>7, RowsStill, BooksStep

LEMMA RefundReadBooks ==
    ASSUME AccountContext, NEW r \in Requests, Alone(r), NEW op \in RefundOps,
           RefundRead(r, op)
    PROVE  AccountInv'
<1>1. UNCHANGED <<frozen, ledger, bounty, escrow, crashes>> /\ req[r].pc = "idle"
      /\ bounty \in {"funded", "refunding"}
  BY DEF RefundRead, REFUNDABLE
<1>2. req'[r].pc = "refund.read"
  BY DEF RefundRead, AccountContext, TypeOK, Idle
<1>3. RequestBooks(req[r])'
  BY <1>2 DEF RequestBooks, SettlePCs
<1>4. StatusesAgree'
  BY <1>1, BooksFacts DEF StatusesAgree
<1> QED
  BY <1>1, <1>3, <1>4, RowsStill, BooksStep

\* A handler that has to transfer these legs has them paid for.
LEMMA EnterFits ==
    ASSUME AccountContext, NEW r \in Requests, SettleEnter(r)
    PROVE  Fits(req[r].todo)
<1>1. req[r].pool = Pool /\ req[r].todo \subseteq PayoutLegs
  BY BooksFacts, PlanFacts DEF SettleEnter, PlanKept, SettlePCs, AccountContext
<1>2. req[r].todo = {} \/ Covered(req[r], req[r].todo)
  BY DEF SettleEnter
<1> QED
  BY <1>1, <1>2, CoveredFits DEF Fits, AccountContext

\* The check before each leg cannot fail when the first one passed.
LEMMA NextIsCovered ==
    ASSUME AccountContext, NEW r \in Requests, NEW l \in PayoutLegs
    PROVE  ~ LegNotCovered(r, l)
<1> SUFFICES ASSUME LegNotCovered(r, l)
             PROVE  FALSE
  OBVIOUS
<1> DEFINE S == req[r].todo
<1>1. /\ req[r].pool = Pool /\ S \subseteq PayoutLegs /\ l \in S /\ Fits(S)
      /\ ~ Covered(req[r], {l})
  BY BooksFacts, PlanFacts
     DEF LegNotCovered, IsNext, PlanKept, SettlePCs, RequestBooks, AccountContext
<1>2. SumOf(PlanAmount, S) <= Face - PaidAtomic
  BY <1>1 DEF Fits
<1>3. TypeOK
  BY DEF AccountContext
<1> HIDE DEF S
<1>4. SumOf(PlanAmount, {l}) <= SumOf(PlanAmount, S)
  <2>1. IsFiniteSet(S) /\ (\A m \in S : PlanAmount[m] \in Nat) /\ {l} \subseteq S
    BY <1>1, <1>3, PlanAmounts
  <2> QED
    BY <2>1, SumPartLess
<1>5. SumOf(PlanAmount, {l}) \in Nat /\ SumOf(PlanAmount, S) \in Nat
      /\ PaidAtomic \in Nat /\ Face \in Nat
  BY <1>1, <1>3, PlanAmounts, PaidNat, FaceIsSum
<1>6. SumOf(PlanAmount, {l}) <= Face - PaidAtomic
  BY <1>2, <1>4, <1>5
<1> QED
  BY <1>1, <1>3, <1>6, CoveredFits

\* The tally of a handler that works alone is the ledger's.
LEMMA TallyIsCarried ==
    ASSUME AccountContext, NEW r \in Requests, req[r].pc = "settle.next"
    PROVE  IntendedConfirmed(req[r]) <=> Carried
<1> DEFINE q == req[r]
<1>1. /\ q.pool = Pool /\ q.winnerRow /\ q.winnerRow \in BOOLEAN
      /\ q.payout => ledger[WINNER].tx
      /\ q.fee => ledger[FEE].tx
  BY BooksFacts DEF PlanKept, WinnerKept, RequestBooks, SettlePCs, Request
<1>2. /\ \A l \in PayoutLegs : ledger[l].tx => ledger[l].st # "none"
      /\ ledger[WINNER].st # "none" => ledger[WINNER].bound
      /\ ledger[WINNER].bound \in BOOLEAN
  BY LegsFacts DEF AccountContext, NoRowNoHash, WinnerFirstInv, TypeOK, Row
<1>3. \A l \in Planned(Pool) : ledger[l].tx => RowFound(ledger, q, l)
  BY <1>1, <1>2, PlanFacts DEF RowFound, AccountContext
<1> QED
  BY <1>1, <1>3 DEF IntendedConfirmed, Carried

LEMMA SettleStepBooks ==
    ASSUME AccountContext, TypeOK', NEW r \in Requests, Alone(r), SettleStep(r)
    PROVE  AccountInv'
<1> DEFINE q == req[r]
           old == /\ \A l \in PayoutLegs :
                       Counted(l)' => Counted(l) /\ ledger'[l].amt = ledger[l].amt
                  /\ UNCHANGED returned
<1>1. /\ RequestBooks(q) /\ SideKept(q) /\ PlanKept(q) /\ RequestHashes(q) /\ WinnerKept(q)
      /\ q \in Request /\ req \in [Requests -> Request]
      /\ escrow.status \in EscrowStatus /\ bounty \in BountyStatus /\ crashes \in Nat
      /\ StatusesAgree /\ (bounty = "funded" => escrow.status = "funded")
  BY BooksFacts
<1>2. TypeOK /\ escrow \in [status: EscrowStatus, payoutTx: BOOLEAN, feeTx: BOOLEAN,
                            refundTx: BOOLEAN, fail: BOOLEAN]
      /\ ledger \in [PayoutLegs -> Row]
  BY DEF AccountContext, TypeOK
<1>3. q.pc \in SettlePCs => q.pool = Pool /\ q.todo \subseteq PayoutLegs
  BY <1>1, <1>2, PlanFacts DEF PlanKept
\* The legs that are left still fit when no row came to be counted.
<1>4. ASSUME q.pc \in SettlePCs, UNCHANGED frozen, old, NEW T \in SUBSET q.todo, Fits(q.todo)
      PROVE  FitsNext(T)
  BY <1>2, <1>3, <1>4, PaidNoMore, FitsKept
<1>5. CASE SettleRailDown(r)
  <2>1. escrow'.fail /\ escrow'.status = escrow.status /\ escrow'.payoutTx = escrow.payoutTx
        /\ escrow'.feeTx = escrow.feeTx
    BY <1>2, <1>5 DEF SettleRailDown, PersistEscrowFail
  <2> QED
    BY <1>5, <2>1, ReturnBooks DEF SettleRailDown
<1>6. CASE SettleNotCovered(r)
  BY <1>6, ReturnBooks DEF SettleNotCovered, Entered
<1>7. ASSUME NEW l \in PayoutLegs, LegNotCovered(r, l)
      PROVE  AccountInv'
  BY <1>7, NextIsCovered
<1>8. CASE SettleEnter(r)
  <2>1. UNCHANGED <<frozen, ledger, returned, escrow, crashes>> /\ q.pc = "settle.read"
        /\ q.escrow = escrow.status
    BY <1>1, <1>8 DEF SettleEnter, RequestBooks
  <2>2. old /\ RowsGo
    BY <2>1, RowsStill
  <2>3. FitsNext(q.todo)
    BY <1>4, <1>8, <2>1, <2>2, EnterFits DEF SettlePCs
  <2>4. bounty \in PaySide \cup {"funded"}
    BY <1>1, <2>1 DEF SideKept
  <2>5. CASE escrow.status = "funded"
    <3>1. bounty' = "settling" /\ Goto(r, "settle.entered")
      BY <1>1, <1>8, <2>1, <2>4, <2>5 DEF SettleEnter, StatusesAgree, PaySide
    <3>2. /\ req'[r].pc = "settle.entered" /\ req'[r].todo = q.todo
          /\ req'[r].payout = q.payout /\ req'[r].fee = q.fee
      BY <1>2, <3>1, GotoUpdate DEF PCs
    <3>3. RequestBooks(req[r])' /\ Entered(req'[r])
      BY <1>1, <2>1, <2>3, <3>1, <3>2 DEF RequestBooks, Fits, FitsNext, Entered, SettlePCs
    <3>4. StatusesAgree'
      BY <2>1, <2>5, <3>1 DEF StatusesAgree
    <3> QED
      BY <2>1, <2>2, <3>3, <3>4, BooksStep
  <2>6. CASE escrow.status # "funded"
    <3>1. bounty' = bounty /\ Goto(r, "settle.legs")
      BY <1>8, <2>1, <2>6 DEF SettleEnter
    <3>2. /\ req'[r].pc = "settle.legs" /\ req'[r].todo = q.todo
          /\ req'[r].payout = q.payout /\ req'[r].fee = q.fee
      BY <1>2, <3>1, GotoUpdate DEF PCs
    <3>3. escrow.status \in {"settling", "settled_partial", "settled"}
      BY <1>1, <2>4, <2>6 DEF StatusesAgree, PaySide
    <3>4. RequestBooks(req[r])' /\ Entered(req'[r])
      BY <1>1, <2>1, <2>3, <3>2, <3>3 DEF RequestBooks, Fits, FitsNext, Entered, SettlePCs
    <3> QED
      BY <2>1, <2>2, <3>1, <3>4, GoesOnBooks
  <2> QED
    BY <2>5, <2>6
<1>9. CASE SettleEnterEscrow(r)
  <2>1. UNCHANGED <<frozen, ledger, returned, bounty, crashes>> /\ q.pc = "settle.entered"
        /\ bounty = "settling" /\ Fits(q.todo)
    BY <1>1, <1>9 DEF SettleEnterEscrow, RequestBooks
  <2>2. escrow'.status = "settling" /\ escrow'.payoutTx = escrow.payoutTx
        /\ escrow'.feeTx = escrow.feeTx
    BY <1>2, <1>9 DEF SettleEnterEscrow
  <2>3. old /\ RowsGo
    BY <2>1, RowsStill
  <2>4. FitsNext(q.todo)
    BY <1>4, <2>1, <2>3 DEF SettlePCs
  <2>5. /\ req'[r].pc = "settle.legs" /\ req'[r].todo = q.todo
        /\ req'[r].payout = q.payout /\ req'[r].fee = q.fee
    BY <1>2, <1>9, GotoUpdate DEF SettleEnterEscrow, PCs
  <2>6. RequestBooks(req[r])' /\ Entered(req'[r])
    BY <1>1, <2>1, <2>2, <2>4, <2>5 DEF RequestBooks, Fits, FitsNext, Entered, SettlePCs
  <2>7. StatusesAgree'
    BY <2>1, <2>2 DEF StatusesAgree
  <2> QED
    BY <2>1, <2>2, <2>3, <2>6, <2>7, BooksStep
<1>10. CASE PrepareLegs(r)
  <2> DEFINE rows == Synced(q)
             hasHash(l) == l \in Planned(q.pool) /\ RowFound(rows, q, l) /\ rows[l].tx
             payout == q.payout \/ hasHash(WINNER)
             fee    == q.fee \/ hasHash(FEE)
             todo   == {l \in q.todo : /\ RowFound(rows, q, l)
                                       /\ ~ hasHash(l)
                                       /\ l = WINNER => ~ payout
                                       /\ l = FEE => ~ fee}
             x      == [q EXCEPT !.pc = "settle.next", !.payout = payout, !.fee = fee,
                                 !.todo = todo]
  <2>1. req' = [req EXCEPT ![r] = x] /\ q.pc = "settle.legs" /\ ledger' = rows
        /\ UNCHANGED <<frozen, bounty, escrow, returned, crashes>>
    BY <1>10 DEF PrepareLegs
  <2>2. RowsGo /\ old
    BY <2>1, RowsPrepared
  <2>3. todo \subseteq q.todo /\ \A l \in todo : rows[l].st # "none"
    BY DEF RowFound
  <2>4. /\ payout => q.payout \/ rows[WINNER].tx
        /\ fee => q.fee \/ rows[FEE].tx
    OBVIOUS
  <2> HIDE DEF todo, payout, fee, rows
  <2>5. x.pc = "settle.next" /\ x.todo = todo /\ x.payout = payout /\ x.fee = fee
    BY <1>1 DEF Request
  <2> HIDE DEF x
  <2>6. req'[r] = x
    BY <1>2, <2>1, ReqUpdate
  <2>7. FitsNext(todo)
    BY <1>1, <1>4, <2>1, <2>2, <2>3 DEF SettlePCs, RequestBooks
  <2>8. /\ q.payout => ledger'[WINNER].tx
        /\ q.fee => ledger'[FEE].tx
        /\ escrow.status \in {"settling", "settled_partial", "settled"}
    BY <1>1, <2>1, <2>2, LegsFacts DEF RequestBooks, SettlePCs, RowsGo
  <2>9. RequestBooks(req[r])' /\ Entered(req'[r])
    BY <2>1, <2>3, <2>4, <2>5, <2>6, <2>7, <2>8 DEF RequestBooks, Fits, FitsNext, Entered, SettlePCs
  <2> QED
    BY <2>1, <2>2, <2>9, GoesOnBooks
<1>11. ASSUME NEW l \in PayoutLegs, SubmitLeg(r, l)
      PROVE  AccountInv'
  <2>1. q.pc = "settle.next" /\ l \in q.todo /\ ledger' = [ledger EXCEPT ![l].st = "submitted"]
        /\ UNCHANGED <<frozen, bounty, escrow, returned, crashes>>
    BY <1>11 DEF SubmitLeg, IsNext
  <2>2. ledger[l].st # "none" /\ Fits(q.todo)
    BY <1>1, <2>1 DEF RequestBooks
  <2>3. RowsGo /\ old
    BY <2>1, <2>2, RowsMarked
  <2>4. FitsNext(q.todo)
    BY <1>4, <2>1, <2>2, <2>3 DEF SettlePCs
  <2>5. /\ req'[r].pc = "settle.send" /\ req'[r].leg = l /\ req'[r].todo = q.todo
        /\ req'[r].payout = q.payout /\ req'[r].fee = q.fee
    BY <1>1, <1>2, <1>11, ReqUpdate DEF SubmitLeg, Request
  <2>6. /\ q.payout => ledger'[WINNER].tx
        /\ q.fee => ledger'[FEE].tx
        /\ escrow.status \in {"settling", "settled_partial", "settled"}
        /\ \A m \in q.todo : ledger'[m].st # "none"
    BY <1>1, <1>3, <2>1, <2>3, LegsFacts DEF RequestBooks, SettlePCs, RowsGo
  <2>7. RequestBooks(req[r])' /\ Entered(req'[r])
    BY <2>1, <2>4, <2>5, <2>6 DEF RequestBooks, Fits, FitsNext, Entered, SettlePCs
  <2> QED
    BY <2>1, <2>3, <2>7, GoesOnBooks
<1>12. CASE SendLeg(r)
  <2>1. q.pc = "settle.send" /\ UNCHANGED <<frozen, ledger, bounty, escrow, returned, crashes>>
    BY <1>12 DEF SendLeg
  <2>2. RowsGo /\ old
    BY <2>1, RowsStill
  <2>3. /\ req'[r].pc = "settle.confirm" /\ req'[r].leg = q.leg /\ req'[r].todo = q.todo
        /\ req'[r].payout = q.payout /\ req'[r].fee = q.fee
    BY <1>2, <1>12, GotoUpdate DEF SendLeg, PCs
  <2>4. FitsNext(q.todo)
    BY <1>1, <1>4, <2>1, <2>2 DEF SettlePCs, RequestBooks
  <2>5. RequestBooks(req[r])' /\ Entered(req'[r])
    BY <1>1, <2>1, <2>3, <2>4 DEF RequestBooks, Fits, FitsNext, Entered, SettlePCs
  <2> QED
    BY <2>1, <2>2, <2>5, GoesOnBooks
<1>13. CASE ConfirmLeg(r)
  <2> DEFINE l == q.leg
  <2>1. q.pc = "settle.confirm"
        /\ ledger' = [ledger EXCEPT ![l] = [ledger[l] EXCEPT !.st = "confirmed", !.tx = TRUE]]
        /\ UNCHANGED <<frozen, bounty, escrow, returned, crashes>>
    BY <1>13 DEF ConfirmLeg
  <2>2. l \in PayoutLegs /\ l \in q.todo /\ ledger[l].st # "none" /\ Fits(q.todo)
    BY <1>1, <2>1 DEF RequestBooks, RequestHashes
  <2> HIDE DEF l
  <2>3. /\ RowsGo /\ ledger'[l].tx /\ ledger'[l].amt = LegAmount(l, Pool)
        /\ \A m \in PayoutLegs \ {l} :
             Counted(m)' => Counted(m) /\ ledger'[m].amt = ledger[m].amt
    BY <2>1, <2>2, RowsConfirmed
  <2>4. FitsNext(q.todo \ {l})
    <3>1. PaidAtomic' <= PaidAtomic + PlanAmount[l]
      BY <1>2, <2>1, <2>2, <2>3, PaidOneMore, PlanAmounts
    <3> QED
      BY <1>2, <1>3, <2>1, <2>2, <3>1, FitsOneLess DEF SettlePCs
  <2>5. /\ req'[r].pc = "settle.record" /\ req'[r].leg = l /\ req'[r].todo = q.todo
        /\ req'[r].payout = (q.payout \/ l = WINNER) /\ req'[r].fee = (q.fee \/ l = FEE)
    BY <1>1, <1>2, <1>13, ReqUpdate DEF ConfirmLeg, Request, l
  <2>6. /\ q.payout \/ l = WINNER => ledger'[WINNER].tx
        /\ q.fee \/ l = FEE => ledger'[FEE].tx
        /\ escrow.status \in {"settling", "settled_partial", "settled"}
        /\ \A m \in q.todo : ledger'[m].st # "none"
    BY <1>1, <1>3, <2>1, <2>3, LegsFacts DEF RequestBooks, SettlePCs, RowsGo
  <2>7. RequestBooks(req[r])' /\ Entered(req'[r])
    <3>1. Fits(req[r].todo \ {req[r].leg})' /\ ledger'[l].tx
      BY <2>3, <2>4, <2>5 DEF Fits, FitsNext
    <3> QED
      BY <2>1, <2>2, <2>5, <2>6, <3>1 DEF RequestBooks, Entered, SettlePCs
  <2> QED
    BY <2>1, <2>3, <2>7, GoesOnBooks
<1>14. CASE RecordLeg(r)
  <2> DEFINE l == q.leg
  <2>1. q.pc = "settle.record" /\ UNCHANGED <<frozen, ledger, bounty, returned, crashes>>
    BY <1>14 DEF RecordLeg
  <2>2. /\ escrow'.status = escrow.status
        /\ escrow'.payoutTx => escrow.payoutTx \/ l = WINNER
        /\ escrow'.feeTx => escrow.feeTx \/ l = FEE
    BY <1>2, <1>14 DEF RecordLeg
  <2>3. RowsGo /\ old
    BY <2>1, RowsStill
  <2>4. /\ req'[r].pc = "settle.next" /\ req'[r].todo = q.todo \ {l}
        /\ req'[r].payout = q.payout /\ req'[r].fee = q.fee
    BY <1>1, <1>2, <1>14, ReqUpdate DEF RecordLeg, Request
  <2>5. FitsNext(q.todo \ {l})
    <3>1. Fits(q.todo \ {l}) /\ q.todo \ {l} \in SUBSET PayoutLegs
      BY <1>1, <1>3, <2>1 DEF RequestBooks, SettlePCs
    <3> QED
      BY <1>2, <2>1, <2>3, <3>1, PaidNoMore, FitsKept
  <2>6. l \in PayoutLegs /\ ledger[l].tx
    BY <1>1, <2>1 DEF RequestHashes, RequestBooks
  <2>7. RequestBooks(req[r])' /\ Entered(req'[r])
    BY <1>1, <2>1, <2>2, <2>4, <2>5 DEF RequestBooks, Fits, FitsNext, Entered, SettlePCs
  <2> QED
    BY <2>1, <2>2, <2>3, <2>6, <2>7, GoesOnBooks
<1>15. CASE LegError(r)
  <2> DEFINE l == q.leg
  <2>1. /\ q.pc \in {"settle.send", "settle.confirm", "settle.record"}
        /\ ledger' = [ledger EXCEPT ![l].st = "failed"]
        /\ escrow' = [escrow EXCEPT !.fail = TRUE]
        /\ UNCHANGED <<frozen, bounty, returned, crashes>>
    BY <1>15 DEF LegError, PersistEscrowFail
  <2>2. l \in PayoutLegs /\ l \in q.todo /\ ledger[l].st # "none"
        /\ escrow.status \in {"settling", "settled_partial", "settled"}
    BY <1>1, <2>1 DEF RequestBooks, RequestHashes, SettlePCs
  <2>3. RowsGo /\ old
    BY <2>1, <2>2, RowsMarked
  <2>4. /\ escrow'.status = escrow.status /\ escrow'.payoutTx = escrow.payoutTx
        /\ escrow'.feeTx = escrow.feeTx /\ escrow'.fail
    BY <1>2, <2>1
  <2>5. CASE l = WINNER
    <3>1. req'[r] = Idle
      BY <1>2, <1>15, <2>5, ReqUpdate DEF LegError
    <3>2. RequestBooks(req[r])'
      BY <3>1 DEF RequestBooks, Idle, SettlePCs
    <3>3. StatusesAgree'
      BY <1>1, <2>1, <2>4 DEF StatusesAgree
    <3> QED
      BY <2>1, <2>3, <2>4, <3>2, <3>3, BooksStep
  <2>6. CASE l # WINNER
    <3>1. /\ req'[r].pc = "settle.next" /\ req'[r].todo = q.todo \ {l}
          /\ req'[r].payout = q.payout /\ req'[r].fee = q.fee
      BY <1>1, <1>2, <1>15, <2>6, ReqUpdate DEF LegError, Request
    <3>2. FitsNext(q.todo \ {l})
      <4>1. CASE q.pc = "settle.record"
        <5>1. Fits(q.todo \ {l}) /\ q.todo \ {l} \in SUBSET PayoutLegs
          BY <1>1, <1>3, <4>1 DEF RequestBooks, SettlePCs
        <5> QED
          BY <1>2, <2>1, <2>3, <5>1, PaidNoMore, FitsKept
      <4>2. CASE q.pc # "settle.record"
        BY <1>1, <1>4, <2>1, <2>3, <4>2 DEF RequestBooks, SettlePCs
      <4> QED
        BY <4>1, <4>2
    <3>3. /\ q.payout => ledger'[WINNER].tx
          /\ q.fee => ledger'[FEE].tx
          /\ \A m \in q.todo : ledger'[m].st # "none"
      BY <1>1, <1>3, <2>1, <2>3, LegsFacts DEF RequestBooks, SettlePCs, RowsGo
    <3>4. RequestBooks(req[r])' /\ Entered(req'[r])
      BY <2>2, <2>4, <3>1, <3>2, <3>3 DEF RequestBooks, Fits, FitsNext, Entered, SettlePCs
    <3> QED
      BY <2>1, <2>3, <2>4, <3>4, GoesOnBooks
  <2> QED
    BY <2>5, <2>6
<1>16. CASE SettleTally(r)
  <2>1. q.pc = "settle.next" /\ UNCHANGED <<frozen, ledger, bounty, escrow, returned, crashes>>
    BY <1>16 DEF SettleTally
  <2>2. /\ req'[r].pc = "settle.finish" /\ req'[r].payout = q.payout /\ req'[r].fee = q.fee
        /\ req'[r].term = IF IntendedConfirmed(q) THEN "settled" ELSE "settled_partial"
    <3> DEFINE t == IF IntendedConfirmed(q) THEN "settled" ELSE "settled_partial"
    <3>1. req' = [req EXCEPT ![r] = [q EXCEPT !.pc = "settle.finish", !.term = t]]
      BY <1>16 DEF SettleTally
    <3> HIDE DEF t
    <3>2. req'[r] = [q EXCEPT !.pc = "settle.finish", !.term = t]
      BY <1>2, <3>1, ReqUpdate
    <3>3. /\ req'[r].pc = "settle.finish" /\ req'[r].payout = q.payout
          /\ req'[r].fee = q.fee /\ req'[r].term = t
      BY <1>1, <3>2 DEF Request
    <3> QED
      BY <3>3 DEF t
  <2>3. req'[r].term = "settled" <=> Carried
    BY <2>1, <2>2, TallyIsCarried
  <2>4. Carried' = Carried
    BY <2>1 DEF Carried, Pool
  <2>5. RequestBooks(req[r])' /\ Entered(req'[r])
    BY <1>1, <2>1, <2>2, <2>3, <2>4 DEF RequestBooks, Fits, FitsNext, Entered, SettlePCs
  <2> QED
    BY <2>1, <2>5, RowsStill, GoesOnBooks
<1>17. CASE SettleFinish(r)
  <2>1. q.pc = "settle.finish" /\ UNCHANGED <<frozen, ledger, crashes>> /\ bounty' = q.term
        /\ Return(r)
    BY <1>17 DEF SettleFinish
  <2>2. escrow'.status = q.term /\ escrow'.payoutTx = q.payout /\ escrow'.feeTx = q.fee
        /\ q.term \in {"settled", "settled_partial"}
    BY <1>1, <1>2, <1>17 DEF SettleFinish, Request
  <2>3. /\ q.payout => ledger'[WINNER].tx
        /\ q.fee => ledger'[FEE].tx
        /\ q.term = "settled" => Carried'
    BY <1>1, <2>1 DEF RequestBooks, SettlePCs, Carried, Pool
  <2>4. req'[r] = Idle
    BY <1>2, <2>1, ReturnUpdate
  <2>5. RequestBooks(req[r])'
    BY <2>4 DEF RequestBooks, Idle, SettlePCs
  <2>6. StatusesAgree' /\ bounty' # "settling"
    BY <2>1, <2>2 DEF StatusesAgree
  <2> QED
    BY <2>1, <2>2, <2>3, <2>5, <2>6, RowsStill, BooksStep
<1> QED
  BY <1>5, <1>6, <1>7, <1>8, <1>9, <1>10, <1>11, <1>12, <1>13, <1>14, <1>15, <1>16, <1>17
     DEF SettleStep


LEMMA RefundStepBooks ==
    ASSUME AccountContext, NEW r \in Requests, Alone(r), RefundStep(r)
    PROVE  AccountInv'
<1> DEFINE q == req[r]
<1>1. /\ RequestBooks(q) /\ SideKept(q) /\ RequestHashes(q)
      /\ q \in Request /\ req \in [Requests -> Request]
      /\ StatusesAgree /\ (bounty = "funded" => escrow.status = "funded")
  BY BooksFacts
<1>2. TypeOK /\ escrow \in [status: EscrowStatus, payoutTx: BOOLEAN, feeTx: BOOLEAN,
                            refundTx: BOOLEAN, fail: BOOLEAN]
      /\ ledger \in [PayoutLegs -> Row]
  BY DEF AccountContext, TypeOK
\* A step between the two sides of the refund that leaves the rows as they are.
<1>3. ASSUME q.pc \in {"refund.next", "refund.send", "refund.mark"},
             req'[r].pc \in {"refund.next", "refund.send", "refund.mark"},
             UNCHANGED <<frozen, ledger, bounty, escrow, crashes>>
      PROVE  AccountInv'
  <2>1. bounty = "refunding" /\ escrow.status = "refunding"
    BY <1>1, <1>3 DEF SideKept, RequestBooks, RefundPCs
  <2>2. RequestBooks(req[r])' /\ StatusesAgree'
    BY <1>3, <2>1 DEF RequestBooks, SettlePCs, StatusesAgree
  <2> QED
    BY <1>3, <2>1, <2>2, RowsStill, BooksStep
<1>4. CASE RefundNotCovered(r) \/ RefundError(r) \/ \E l \in RefundLegs : RefundLegNotCovered(r, l)
  <2>1. Return(r) /\ UNCHANGED <<frozen, ledger, bounty, escrow, crashes>>
    BY <1>4 DEF RefundNotCovered, RefundError, RefundLegNotCovered
  <2>2. ~ Entered(q)
    BY <1>4 DEF RefundNotCovered, RefundError, RefundLegNotCovered, Entered, SettlePCs
  <2> QED
    BY <2>1, <2>2, ReturnBooks
<1>5. CASE RefundEnter(r)
  <2>1. UNCHANGED <<frozen, ledger, escrow, crashes>> /\ bounty' = "refunding"
        /\ q.pc = "refund.read" /\ bounty \in {"funded", "refunding"}
    BY <1>1, <1>5 DEF RefundEnter, SideKept
  <2>2. req'[r].pc = "refund.entered"
    BY <1>2, <1>5, GotoUpdate DEF RefundEnter, PCs
  <2>3. RequestBooks(req[r])' /\ StatusesAgree'
    BY <1>1, <2>1, <2>2 DEF RequestBooks, SettlePCs, StatusesAgree
  <2> QED
    BY <2>1, <2>3, RowsStill, BooksStep
<1>6. CASE RefundEnterEscrow(r)
  <2>1. UNCHANGED <<frozen, ledger, bounty, crashes>> /\ bounty = "refunding"
    BY <1>1, <1>6 DEF RefundEnterEscrow, SideKept, RefundPCs
  <2>2. escrow'.status = "refunding" /\ escrow'.payoutTx = escrow.payoutTx
        /\ escrow'.feeTx = escrow.feeTx
    BY <1>2, <1>6 DEF RefundEnterEscrow
  <2>3. req'[r].pc = "refund.next"
    BY <1>2, <1>6, GotoUpdate DEF RefundEnterEscrow, PCs
  <2>4. RequestBooks(req[r])' /\ StatusesAgree'
    BY <2>1, <2>2, <2>3 DEF RequestBooks, SettlePCs, StatusesAgree
  <2> QED
    BY <2>1, <2>2, <2>4, RowsStill, BooksStep
<1>7. ASSUME NEW l \in RefundLegs, RefundCheck(r, l)
      PROVE  AccountInv'
  <2>1. req'[r].pc = "refund.send"
    BY <1>1, <1>2, <1>7, ReqUpdate DEF RefundCheck, Request
  <2> QED
    BY <1>3, <1>7, <2>1 DEF RefundCheck
<1>8. CASE RefundSend(r)
  <2>1. req'[r].pc \in {"refund.next", "refund.mark"}
    BY <1>1, <1>2, <1>8, ReqUpdate DEF RefundSend, Request
  <2> QED
    BY <1>3, <1>8, <2>1 DEF RefundSend
<1>9. CASE RefundMark(r)
  <2>1. req'[r].pc = "refund.next"
    BY <1>1, <1>2, <1>9, ReqUpdate DEF RefundMark, Request
  <2> QED
    BY <1>3, <1>9, <2>1 DEF RefundMark
<1>10. CASE RefundFinish(r)
  <2>1. /\ UNCHANGED <<frozen, crashes>> /\ Return(r)
        /\ bounty' \in {"expired", "cancelled"}
    BY <1>10 DEF RefundFinish
  <2>2. escrow'.status = "refunded" /\ escrow'.payoutTx = escrow.payoutTx
        /\ escrow'.feeTx = escrow.feeTx
    BY <1>2, <1>10 DEF RefundFinish
  <2>3. RowsGo
    <3>1. \A l \in PayoutLegs : /\ ledger'[l].tx = ledger[l].tx
                                /\ ledger'[l].amt = ledger[l].amt
                                /\ ledger[l].st = "none" <=> ledger'[l].st = "none"
      BY <1>2, <1>10 DEF RefundFinish, Row
    <3>2. \A l \in PayoutLegs : ledger[l].st # "none" => ledger[l].amt = LegAmount(l, Pool)
      BY DEF AccountContext, AccountInv, BooksInv
    <3> QED
      BY <3>1, <3>2 DEF RowsGo
  <2>4. req'[r] = Idle
    BY <1>2, <2>1, ReturnUpdate
  <2>5. RequestBooks(req[r])' /\ StatusesAgree'
    BY <2>1, <2>2, <2>4 DEF RequestBooks, Idle, SettlePCs, StatusesAgree
  <2> QED
    BY <2>1, <2>2, <2>3, <2>5, BooksStep
<1> QED
  BY <1>4, <1>5, <1>6, <1>7, <1>8, <1>9, <1>10 DEF RefundStep

LEMMA AccountNext ==
    ASSUME AccountContext, TypeOK', \A r, s \in Requests : r = s, [NextMerged]_vars
    PROVE  AccountInv'
<1>1. ASSUME NEW r \in Requests, Handler(r)
      PROVE  AccountInv'
  <2>1. Alone(r)
    BY DEF Alone
  <2>2. CASE Arrive(r)
    BY <2>1, <2>2, SettleReadBooks, RefundReadBooks DEF Arrive
  <2>3. CASE Crash(r)
    <3>1. Return(r) /\ UNCHANGED <<frozen, ledger, bounty, escrow>> /\ crashes' # 0
      BY <2>3 DEF Crash, AccountContext, TypeOK
    <3> QED
      BY <2>1, <3>1, ReturnBooks
  <2> QED
    BY <1>1, <2>1, <2>2, <2>3, SettleStepBooks, RefundStepBooks DEF Handler
<1>2. CASE (\E l \in Legs : ExpireKey(l)) \/ UNCHANGED vars
  <2>1. UNCHANGED <<bounty, escrow, ledger, frozen, returned, req, crashes>>
    BY <1>2 DEF ExpireKey, vars
  <2>2. /\ Pool' = Pool /\ PlanAmount' = PlanAmount /\ PaidAtomic' = PaidAtomic
    BY <2>1, PaidIs, PaidIsNext DEF Pool, PlanAmount, Counted
  <2>3. \A r \in Requests : RequestBooks(req[r])'
    BY <2>1, <2>2 DEF AccountContext, AccountInv, RequestBooks, Fits, Carried
  <2>4. BooksInv'
    BY <2>1, <2>2 DEF AccountContext, AccountInv, BooksInv, Carried, Entered
  <2> QED
    BY <2>3, <2>4 DEF AccountInv
<1> QED
  BY <1>1, <1>2 DEF NextMerged

\* Each of the four writes of escrows.status goes the way of the ALLOWED table.
LEMMA AccountStatus ==
    ASSUME AccountContext, [NextMerged]_vars, escrow'.status # escrow.status
    PROVE  escrow'.status \in Allowed[escrow.status]
<1>1. PICK r \in Requests : SettleEnterEscrow(r) \/ SettleFinish(r)
                            \/ RefundEnterEscrow(r) \/ RefundFinish(r)
  <2>1. escrow \in [status: EscrowStatus, payoutTx: BOOLEAN, feeTx: BOOLEAN,
                    refundTx: BOOLEAN, fail: BOOLEAN]
    BY DEF AccountContext, TypeOK
  <2>2. escrow' # escrow
    OBVIOUS
  <2>3. ASSUME NEW r \in Requests, SettleRailDown(r) \/ LegError(r) \/ RecordLeg(r)
        PROVE  FALSE
    BY <2>1, <2>3 DEF SettleRailDown, LegError, RecordLeg, PersistEscrowFail
  <2>4. PICK r \in Requests : SettleStep(r) \/ RefundStep(r)
    BY <2>2 DEF NextMerged, Handler, Arrive, SettleRead, RefundRead, Crash, ExpireKey, vars
  <2>5. CASE SettleStep(r)
    BY <2>2, <2>3, <2>5 DEF SettleStep, SettleNotCovered, SettleEnter, PrepareLegs, SubmitLeg,
         LegNotCovered, SendLeg, ConfirmLeg, SettleTally
  <2>6. CASE RefundStep(r)
    BY <2>2, <2>6 DEF RefundStep, RefundNotCovered, RefundEnter, RefundCheck,
         RefundLegNotCovered, RefundSend, RefundMark, RefundError
  <2> QED
    BY <2>4, <2>5, <2>6
<1>2. /\ RequestBooks(req[r]) /\ SideKept(req[r]) /\ req[r] \in Request /\ StatusesAgree
      /\ escrow.status \in EscrowStatus
      /\ escrow.status = "settled" => Carried
  BY BooksFacts DEF AccountContext, AccountInv, BooksInv
<1>3. escrow \in [status: EscrowStatus, payoutTx: BOOLEAN, feeTx: BOOLEAN,
                  refundTx: BOOLEAN, fail: BOOLEAN]
  BY DEF AccountContext, TypeOK
<1>4. CASE SettleEnterEscrow(r)
  <2>1. escrow'.status = "settling" /\ escrow.status = "funded"
    BY <1>2, <1>3, <1>4 DEF SettleEnterEscrow, RequestBooks, StatusesAgree
  <2> QED
    BY <2>1 DEF Allowed, EscrowStatus
<1>5. CASE SettleFinish(r)
  <2>1. /\ escrow'.status = req[r].term /\ req[r].term \in {"settled", "settled_partial"}
        /\ escrow.status \in {"settling", "settled_partial", "settled"}
        /\ req[r].term = "settled" <=> Carried
    BY <1>2, <1>3, <1>5 DEF SettleFinish, RequestBooks, SettlePCs, Request
  <2>2. escrow.status # "settled"
    BY <1>2, <2>1
  <2> QED
    BY <2>1, <2>2 DEF Allowed, EscrowStatus
<1>6. CASE RefundEnterEscrow(r)
  <2>1. escrow'.status = "refunding" /\ escrow.status = "funded"
    BY <1>2, <1>3, <1>6 DEF RefundEnterEscrow, SideKept, RefundPCs, StatusesAgree
  <2> QED
    BY <2>1 DEF Allowed, EscrowStatus
<1>7. CASE RefundFinish(r)
  <2>1. escrow'.status = "refunded" /\ escrow.status = "refunding"
    BY <1>2, <1>3, <1>7 DEF RefundFinish, RequestBooks
  <2> QED
    BY <2>1 DEF Allowed, EscrowStatus
<1> QED
  BY <1>1, <1>4, <1>5, <1>6, <1>7

LEMMA AccountStarts == InitMerged => AccountInv
<1> SUFFICES ASSUME NEW eligible \in SUBSET Members, Start("eligible", {WinnerRow} \cup eligible)
             PROVE  AccountInv
  BY DEF InitMerged
<1>1. /\ \A r \in Requests : req[r] = Idle
      /\ \A l \in PayoutLegs : ledger[l] = NoRow
      /\ bounty = "funded" /\ escrow.status = "funded" /\ ~ escrow.payoutTx /\ ~ escrow.feeTx
  BY DEF Start
<1>2. \A r \in Requests : RequestBooks(req[r])
  BY <1>1 DEF RequestBooks, Idle, SettlePCs
<1> QED
  BY <1>1, <1>2 DEF AccountInv, BooksInv, NoRow

\* When the handlers of a bounty do not overlap, the statuses have a reason and a way,
\* whatever fails or dies: a bounty left in "settling" by a handler that did not die
\* has a fail code (persistSettleRailFail), although one of its ends writes none, and
\* escrows.status moves along the ALLOWED table of state.ts, although no write of it
\* looks at what it was.
THEOREM StatusIsAccounted ==
    ASSUME \A r, s \in Requests : r = s
    PROVE  SpecMerged => StatusAccounted
<1>1. SpecMerged => Spec
  BY MergedIsSpec
<1>2. InitMerged => SidesInv
  BY LegsFacts DEF InitMerged, Start, SidesInv, SideKept, Moved, Idle, SettlePCs, RefundPCs
<1>3. InitMerged => NoRowNoHash
  BY DEF InitMerged, Start, NoRowNoHash, NoRow
<1>4. [NextMerged]_vars => [Next]_vars
  BY DEF NextMerged, Next
<1>5. TypeOK /\ HashInv /\ SidesInv /\ [NextMerged]_vars => SidesInv'
  BY <1>4, SidesNext
<1>6. TypeOK /\ NoRowNoHash /\ [NextMerged]_vars => NoRowNoHash'
  BY <1>4, NoRowKept
<1>7. SpecMerged => [](TypeOK /\ HashInv /\ WinnerFirstInv /\ AmountsInv
                        /\ SidesInv /\ NoRowNoHash)
  BY <1>1, <1>2, <1>3, <1>5, <1>6, Inductive, WinnerFirstInductive, AmountsInductive, PTL
     DEF SpecMerged
<1>8. /\ TypeOK /\ HashInv /\ WinnerFirstInv /\ AmountsInv /\ SidesInv /\ NoRowNoHash
      /\ AccountInv /\ TypeOK' /\ [NextMerged]_vars
      => AccountInv'
  BY AccountNext DEF AccountContext
<1>9. SpecMerged => []AccountInv
  BY <1>7, <1>8, AccountStarts, PTL DEF SpecMerged
<1>10. AccountInv => SettlingExplained
  BY DEF AccountInv, BooksInv, SettlingExplained, Entered, InFlight, SettlePCs
<1>11. /\ TypeOK /\ HashInv /\ WinnerFirstInv /\ AmountsInv /\ SidesInv /\ NoRowNoHash
       /\ AccountInv /\ [NextMerged]_vars
       => [escrow'.status # escrow.status => escrow'.status \in Allowed[escrow.status]]_vars
  BY AccountStatus DEF AccountContext
<1> QED
  BY <1>7, <1>9, <1>10, <1>11, PTL DEF SpecMerged, StatusAccounted, EscrowTransitions


-----------------------------------------------------------------------------
(* What is paid out when nothing fails, while the pool still freezes *)

Unfailing == errors + crashes = 0

\* The row of a member was written for a pool that has only grown since.
RowsPlanned(P) ==
    \A m \in Members : ledger[m].st # "none" => m \in P /\ LegAmount(m, P) <= ledger[m].amt

\* A handler that has seen to the rows.
PastLegs(q) == q.pc \in {"settle.next", "settle.send", "settle.confirm", "settle.record",
                         "settle.finish"}

ChainAmount == [l \in PayoutLegs |-> chain[l].amt]

\* What the chain and the ledger say whatever fails.
ChainInv ==
    /\ \A l \in Legs : chain[l].n = 0 => chain[l].amt = 0
    /\ \A l \in RefundLegs : chain[l].amt = chain[l].n * LegAmount(l, {})
    /\ \A l \in PayoutLegs : ledger[l].st = "confirmed" => ledger[l].tx

\* The rows cover what has moved.
CoverRows ==
    /\ \A l \in PayoutLegs : ledger[l].tx => chain[l].amt <= ledger[l].amt
    /\ SumOf(ChainAmount, PayoutLegs) <= Face
    /\ ledger[FEE].st # "none" => LegAmount(FEE, {}) <= ledger[FEE].amt
    /\ RowsPlanned(Pool)
    /\ ~ ledger[WINNER].tx => \A l \in PayoutLegs : ~ ledger[l].tx
    /\ ~ ledger[WINNER].tx /\ (\A r \in Requests : ~ PastLegs(req[r])) =>
          ledger[WINNER].st = "none"

\* The handler transfers no more than its rows say and the check found left.
CoverKept(q) ==
    /\ q.pc \in SettlePCs =>
          q.pool \subseteq Pool /\ (WINNER \notin q.todo => ledger[WINNER].tx)
    /\ q.pc \in {"settle.read", "settle.entered", "settle.legs"} => RowsPlanned(q.pool)
    /\ q.pc \in {"settle.next", "settle.send", "settle.confirm", "settle.record"} =>
          \A l \in q.todo : LegAmount(l, q.pool) <= ledger[l].amt
    /\ q.pc \in {"settle.next", "settle.send", "settle.confirm"} =>
          \A l \in q.todo : ~ ledger[l].tx
    /\ q.pc = "settle.record" => \A l \in q.todo \ {q.leg} : ~ ledger[l].tx
    /\ q.pc \in {"settle.send", "settle.confirm", "settle.record"} =>
          q.leg \in q.todo /\ (q.leg # WINNER => WINNER \notin q.todo)
    /\ q.pc = "settle.send" => LegAmount(q.leg, q.pool) <= Face - PaidAtomic
    /\ q.pc = "settle.confirm" => chain[q.leg].amt <= LegAmount(q.leg, q.pool)
    /\ q.pc = "settle.finish" => ledger[WINNER].tx

Covers == CoverRows /\ \A r \in Requests : CoverKept(req[r])

CoverInv == ChainInv /\ (Unfailing => Covers)

CoverContext ==
    TypeOK /\ HashInv /\ SidesInv /\ NoRowNoHash /\ LossInv /\ CoverInv

\* When nothing has failed a leg has moved once at most, and somebody knows.
LEMMA NothingLost ==
    ASSUME TypeOK, LossInv, Unfailing
    PROVE  \A l \in Legs : chain[l].n <= 1 /\ (Moved(l) => OnRow(l) \/ Held(l))
<1> DEFINE f == [l \in Legs |-> Resent(l)]
<1>1. /\ IsFiniteSet(Legs) /\ \A l \in Legs : f[l] \in Nat
      /\ Total(Legs, f) = SumOf(f, Legs) /\ SumOf(f, Legs) \in Nat
      /\ IsFiniteSet(Owed) /\ Cardinality(Owed) \in Nat
  BY ResentNat
<1>2. SumOf(f, Legs) + Cardinality(Owed) <= 0
  <2>1. Total(Legs, f) + Cardinality(Owed) <= errors + crashes
    BY DEF LossInv, LossCount
  <2> HIDE DEF f
  <2> QED
    BY <1>1, <2>1 DEF Unfailing
<1>3. SumOf(f, Legs) = 0 /\ Cardinality(Owed) = 0
  <2> DEFINE s == SumOf(f, Legs)
             n == Cardinality(Owed)
  <2>1. s \in Nat /\ n \in Nat /\ s + n <= 0
    BY <1>1, <1>2
  <2> HIDE DEF s, n
  <2>2. s = 0 /\ n = 0
    BY <2>1
  <2> QED
    BY <2>2 DEF s, n
<1>4. Owed = {}
  BY <1>1, <1>3, FS_EmptySet
<1>5. ASSUME NEW l \in Legs
      PROVE  Resent(l) = 0
  <2>1. f[l] <= SumOf(f, Legs) /\ f[l] \in Nat
    <3> HIDE DEF f
    <3> QED
      BY <1>1, SumTermLess
  <2>2. f[l] = 0
    <3> HIDE DEF f
    <3> QED
      BY <1>3, <2>1
  <2> QED
    BY <2>2
<1>6. \A l \in Legs : chain[l].n \in Nat
  BY DEF TypeOK
<1> QED
  BY <1>4, <1>5, <1>6 DEF Owed, Resent

\* A plan for more members gives each of them no more.
LEMMA PlannedGrows ==
    ASSUME NEW P \in SUBSET Members, NEW R \in SUBSET Members, P \subseteq R,
           NEW m \in P
    PROVE  LegAmount(m, R) <= LegAmount(m, P)
<1> DEFINE n == Cardinality(P)
           k == Cardinality(R)
<1>1. IsFiniteSet(R) /\ IsFiniteSet(P)
  BY FS_Subset, AmountAssumption
<1>2. n \in Nat /\ k \in Nat /\ n <= k /\ k <= MaxPaid
  BY <1>1, FS_Subset, FS_CardinalityType, AmountAssumption
<1>3. n > 0
  BY <1>1, <1>2, FS_EmptySet
<1>4. /\ Face \in Nat /\ MaxPaid \in Nat
      /\ FeeBps \in 0 .. BpsDenominator /\ PoolBps \in 0 .. BpsDenominator
  BY FaceIsSum, AmountAssumption
<1>5. /\ LegAmount(m, R) = ShareAtomic(Face, k, FeeBps, PoolBps, MaxPaid)
      /\ LegAmount(m, P) = ShareAtomic(Face, n, FeeBps, PoolBps, MaxPaid)
  BY LegAmounts
<1> HIDE DEF n, k
<1> QED
  BY <1>2, <1>3, <1>4, <1>5, ShareMonotone

LEMMA RowsPlannedGrows ==
    ASSUME TypeOK, NEW P \in SUBSET Members, NEW R \in SUBSET Members, P \subseteq R,
           RowsPlanned(P)
    PROVE  RowsPlanned(R)
<1> SUFFICES ASSUME NEW m \in Members, ledger[m].st # "none"
             PROVE  m \in R /\ LegAmount(m, R) <= ledger[m].amt
  BY DEF RowsPlanned
<1>1. m \in P /\ LegAmount(m, P) <= ledger[m].amt
  BY DEF RowsPlanned
<1>2. LegAmount(m, R) <= LegAmount(m, P)
  BY <1>1, PlannedGrows
<1>3. LegAmount(m, R) \in Nat /\ LegAmount(m, P) \in Nat /\ ledger[m].amt \in Nat
  BY LegAmountNat, LegsFacts DEF TypeOK, Row
<1> QED
  BY <1>1, <1>2, <1>3

\* The fee and the winner's part, whatever the pool.
LEMMA FixedAmounts ==
    ASSUME NEW P \in SUBSET Members
    PROVE  /\ LegAmount(FEE, P) = LegAmount(FEE, {})
           /\ LegAmount(WINNER, P) \in Nat /\ LegAmount(WINNER, P) <= Face
<1> DEFINE n == Cardinality(P)
<1>1. n \in Nat
  BY FS_Subset, FS_CardinalityType, AmountAssumption
<1>2. /\ Face \in Nat /\ MaxPaid \in Nat
      /\ FeeBps \in 0 .. BpsDenominator /\ PoolBps \in 0 .. BpsDenominator
  BY FaceIsSum, AmountAssumption
<1>3. LegAmount(FEE, P) = LegAmount(FEE, {})
  BY LegAmounts
<1> DEFINE w == WinnerAtomic(Face, n, FeeBps, PoolBps, MaxPaid)
           e == FeeAtomic(Face, FeeBps)
           s == ShareAtomic(Face, n, FeeBps, PoolBps, MaxPaid)
           k == PaidCount(n, MaxPaid)
<1>4. LegAmount(WINNER, P) = w
  BY LegAmounts
<1>5. e + w + s * k = Face /\ e \in Nat /\ w \in Nat /\ s \in Nat /\ k \in Nat
  <2> HIDE DEF n
  <2> QED
    BY <1>1, <1>2, SplitConserves, PaidCountBounds
<1> HIDE DEF w, e, s, k
<1>6. s * k \in Nat
  BY <1>5
<1>7. w <= Face
  BY <1>2, <1>5, <1>6
<1> QED
  BY <1>3, <1>4, <1>5, <1>7

\* What a transfer leaves on the chain.
LEMMA TransferAmount ==
    ASSUME TypeOK, NEW l \in Legs, NEW a \in Nat, Transfer(l, a)
    PROVE  /\ \A m \in Legs \ {l} : chain'[m] = chain[m]
           /\ keys[l] # {} => chain' = chain
           /\ keys[l] = {} => chain'[l].n = chain[l].n + 1 /\ chain'[l].amt = chain[l].amt + a
<1>1. chain \in [Legs -> [n: Nat, amt: Nat]]
  BY DEF TypeOK
<1> QED
  BY <1>1 DEF Transfer

LEMMA OneMoreOf ==
    ASSUME NEW n \in Nat, NEW a \in Nat
    PROVE  n * a + a = (n + 1) * a /\ n + 1 # 0
  OBVIOUS

LEMMA ChainTransfer ==
    ASSUME TypeOK, ChainInv, NEW l \in Legs, NEW a \in Nat, Transfer(l, a),
           l \in RefundLegs => a = LegAmount(l, {}),
           UNCHANGED ledger
    PROVE  ChainInv'
<1>1. \A m \in Legs : chain[m].n \in Nat /\ chain[m].amt \in Nat
  BY DEF TypeOK
<1>2. ASSUME NEW m \in Legs
      PROVE  /\ chain'[m].n = 0 => chain'[m].amt = 0
             /\ m \in RefundLegs => chain'[m].amt = chain'[m].n * LegAmount(m, {})
  <2>1. CASE m # l \/ keys[l] # {}
    <3>1. chain'[m] = chain[m]
      BY <2>1, TransferAmount
    <3> QED
      BY <3>1 DEF ChainInv
  <2>2. CASE m = l /\ keys[l] = {}
    <3> DEFINE n == chain[l].n
    <3>1. chain'[m].n = n + 1 /\ chain'[m].amt = chain[l].amt + a /\ n \in Nat
      BY <1>1, <2>2, TransferAmount
    <3>2. l \in RefundLegs => chain[l].amt = n * a
      BY DEF ChainInv
    <3>3. n * a + a = (n + 1) * a /\ n + 1 # 0
      BY <3>1, OneMoreOf
    <3> QED
      BY <2>2, <3>1, <3>2, <3>3
  <2> QED
    BY <2>1, <2>2
<1> QED
  BY <1>2, LegsFacts DEF ChainInv

LEMMA ChainRows ==
    ASSUME ChainInv, UNCHANGED chain,
           \A l \in PayoutLegs : ledger'[l].st = "confirmed" => ledger'[l].tx
    PROVE  ChainInv'
  BY DEF ChainInv

LEMMA SyncedConfirmed ==
    ASSUME TypeOK, ChainInv, NEW r \in Requests, NEW l \in PayoutLegs,
           Synced(req[r])[l].st = "confirmed"
    PROVE  Synced(req[r])[l].tx
<1> DEFINE q == req[r]
           rows == Inserted(q)
<1>1. ledger[l] \in Row /\ q.pool \in SUBSET Members /\ q.winnerRow \in BOOLEAN
  BY DEF TypeOK, Request
<1>2. LegAmount(l, q.pool) \in Nat
  BY <1>1, LegAmountNat, LegsFacts
<1>3. rows[l] = IF l \in Planned(q.pool) /\ ledger[l].st = "none"
                THEN [st |-> "pending", tx |-> FALSE, amt |-> LegAmount(l, q.pool),
                      bound |-> l = WINNER /\ q.winnerRow]
                ELSE ledger[l]
  BY DEF Inserted
<1>4. rows[l] \in Row /\ (rows[l].st = "confirmed" => rows[l].tx)
  BY <1>1, <1>2, <1>3 DEF ChainInv, Row
<1> HIDE DEF rows
<1>5. Synced(q)[l] = IF /\ (l = WINNER /\ q.payout) \/ (l = FEE /\ q.fee)
                        /\ l \in Planned(q.pool) /\ RowFound(rows, q, l) /\ ~ rows[l].tx
                     THEN [rows[l] EXCEPT !.st = "confirmed", !.tx = TRUE]
                     ELSE rows[l]
  BY DEF Synced, rows
<1> QED
  BY <1>4, <1>5 DEF Row

LEMMA ChainNext ==
    ASSUME TypeOK, HashInv, ChainInv, [Next]_vars
    PROVE  ChainInv'
<1>1. ledger \in [PayoutLegs -> Row]
      /\ \A l \in PayoutLegs : ledger[l].st = "confirmed" => ledger[l].tx
  BY DEF TypeOK, ChainInv
<1>2. CASE UNCHANGED <<chain, ledger>>
  BY <1>2 DEF ChainInv
<1>3. ASSUME NEW r \in Requests, SettleStep(r)
      PROVE  ChainInv'
  <2>1. CASE PrepareLegs(r)
    <3>1. ledger' = Synced(req[r]) /\ UNCHANGED chain
      BY <2>1 DEF PrepareLegs
    <3>2. \A l \in PayoutLegs : ledger'[l].st = "confirmed" => ledger'[l].tx
      BY <3>1, SyncedConfirmed
    <3> QED
      BY <3>1, <3>2, ChainRows
  <2>2. CASE (\E l \in PayoutLegs : SubmitLeg(r, l)) \/ LegError(r)
    <3>1. \E l : \E s \in {"submitted", "failed"} :
             ledger' = [ledger EXCEPT ![l].st = s] /\ UNCHANGED chain
      <4>1. CASE \E l \in PayoutLegs : SubmitLeg(r, l)
        BY <4>1 DEF SubmitLeg
      <4>2. CASE LegError(r)
        <5>1. ledger' = [ledger EXCEPT ![req[r].leg].st = "failed"] /\ UNCHANGED chain
          BY <4>2 DEF LegError
        <5> QED
          BY <5>1
      <4> QED
        BY <2>2, <4>1, <4>2
    <3>2. \A m \in PayoutLegs : ledger'[m].st = "confirmed" => ledger'[m].tx
      BY <1>1, <3>1 DEF Row
    <3> QED
      BY <3>1, <3>2, ChainRows
  <2>3. CASE SendLeg(r)
    <3>1. req[r].leg \in PayoutLegs /\ req[r].pool \in SUBSET Members
      BY <2>3 DEF SendLeg, HashInv, RequestHashes, TypeOK, Request
    <3>2. req[r].leg \in Legs /\ req[r].leg \notin RefundLegs
          /\ LegAmount(req[r].leg, req[r].pool) \in Nat
      BY <3>1, LegsFacts, LegAmountNat
    <3> QED
      BY <2>3, <3>2, ChainTransfer DEF SendLeg
  <2>4. CASE ConfirmLeg(r)
    <3>1. PICK l : /\ ledger' = [ledger EXCEPT ![l] =
                          [ledger[l] EXCEPT !.st = "confirmed", !.tx = TRUE]]
                   /\ l \in PayoutLegs /\ UNCHANGED chain
      BY <2>4 DEF ConfirmLeg, HashInv, RequestHashes
    <3>2. \A m \in PayoutLegs : ledger'[m].st = "confirmed" => ledger'[m].tx
      BY <1>1, <3>1 DEF Row
    <3> QED
      BY <3>1, <3>2, ChainRows
  <2>5. CASE UNCHANGED <<chain, ledger>>
    BY <1>2, <2>5
  <2> QED
    BY <1>3, <2>1, <2>2, <2>3, <2>4, <2>5
       DEF SettleStep, SettleRailDown, SettleNotCovered, SettleEnter, SettleEnterEscrow,
           LegNotCovered, RecordLeg, SettleTally, SettleFinish
<1>4. ASSUME NEW r \in Requests, RefundStep(r)
      PROVE  ChainInv'
  <2>1. CASE RefundSend(r)
    <3>1. req[r].leg \in RefundLegs
      BY <2>1 DEF RefundSend, HashInv, RequestHashes
    <3>2. req[r].leg \in Legs /\ LegAmount(req[r].leg, {}) \in Nat
      BY <3>1, LegsFacts, LegAmountNat
    <3> QED
      BY <2>1, <3>2, ChainTransfer DEF RefundSend
  <2>2. CASE RefundFinish(r)
    <3>1. /\ UNCHANGED chain
          /\ ledger' = [l \in PayoutLegs |->
                IF ledger[l].st \in {"pending", "submitted", "failed"} /\ ~ ledger[l].tx
                THEN [ledger[l] EXCEPT !.st = "failed"]
                ELSE ledger[l]]
      BY <2>2 DEF RefundFinish
    <3>2. \A m \in PayoutLegs : ledger'[m].st = "confirmed" => ledger'[m].tx
      BY <1>1, <3>1 DEF Row
    <3> QED
      BY <3>1, <3>2, ChainRows
  <2>3. CASE UNCHANGED <<chain, ledger>>
    BY <1>2, <2>3
  <2> QED
    BY <1>4, <2>1, <2>2, <2>3
       DEF RefundStep, RefundNotCovered, RefundEnter, RefundEnterEscrow, RefundCheck,
           RefundLegNotCovered, RefundMark, RefundError
<1>5. CASE (\E r \in Requests : Arrive(r) \/ Crash(r)) \/ HookStep
             \/ (\E l \in Legs : ExpireKey(l)) \/ UNCHANGED vars
  <2>1. UNCHANGED <<chain, ledger>>
    BY <1>5 DEF Arrive, SettleRead, RefundRead, Crash, HookStep, MarkRead, MarkEligible,
         MarkSkipped, FreezeRead, FreezeRow, HookStop, HookCrash, ExpireKey, vars
  <2> QED
    BY <1>2, <2>1
<1> QED
  BY <1>3, <1>4, <1>5 DEF Next, Handler

-----------------------------------------------------------------------------
LEMMA CoverFacts ==
    ASSUME CoverContext, Unfailing, NEW r \in Requests
    PROVE  /\ CoverKept(req[r]) /\ KeyKept(req[r]) /\ RequestHashes(req[r]) /\ SideKept(req[r])
           /\ req[r] \in Request /\ req \in [Requests -> Request]
           /\ ledger \in [PayoutLegs -> Row] /\ CoverRows
           /\ Pool \in SUBSET Members /\ req[r].pool \in SUBSET Members
           /\ req[r].todo \subseteq Legs
  BY DEF CoverContext, CoverInv, Covers, LossInv, HashInv, SidesInv, TypeOK, Pool, Request

\* A leg that is about to be transferred has not moved, and the rail has no key.
LEMMA NotMovedYet ==
    ASSUME CoverContext, Unfailing, NEW r \in Requests, Alone(r), req[r].pc = "settle.send"
    PROVE  /\ req[r].leg \in PayoutLegs /\ req[r].leg \in Planned(req[r].pool)
           /\ ~ Moved(req[r].leg) /\ keys[req[r].leg] = {}
           /\ chain[req[r].leg].n = 0 /\ chain[req[r].leg].amt = 0
<1> DEFINE l == req[r].leg
<1>1. l \in PayoutLegs /\ l \in req[r].todo /\ ~ ledger[l].tx /\ l \in Planned(req[r].pool)
  BY CoverFacts DEF RequestHashes, CoverKept, KeyKept, SettlePCs
<1>2. ~ OnRow(l)
  BY <1>1, PayoutRow
<1>3. ~ Held(l)
  BY DEF Held, Holds, Alone
<1>4. l \in Legs
  BY <1>1, LegsFacts
<1>5. ~ Moved(l)
  BY <1>2, <1>3, <1>4, NothingLost DEF CoverContext
<1>6. keys[l] = {}
  BY <1>4, <1>5 DEF CoverContext, HashInv
<1>7. chain[l].n = 0 /\ chain[l].amt = 0
  <2>1. chain[l].n \in Nat
    BY <1>4 DEF CoverContext, TypeOK
  <2> QED
    BY <1>4, <1>5, <2>1 DEF CoverContext, CoverInv, ChainInv, Moved
<1> QED
  BY <1>1, <1>5, <1>6, <1>7

LEMMA ChainNat ==
    ASSUME TypeOK
    PROVE  /\ \A l \in PayoutLegs : ChainAmount[l] = chain[l].amt /\ ChainAmount[l] \in Nat
           /\ SumOf(ChainAmount, PayoutLegs) \in Nat
<1>1. \A l \in PayoutLegs : ChainAmount[l] = chain[l].amt /\ ChainAmount[l] \in Nat
  BY LegsFacts DEF TypeOK, ChainAmount
<1> QED
  BY <1>1, LegsFinite, SumNat

\* What has moved is on the rows that the coverage check counts.
LEMMA ChainCovered ==
    ASSUME CoverContext, Unfailing, NEW r \in Requests, Alone(r), req[r].pc = "settle.send"
    PROVE  SumOf(ChainAmount, PayoutLegs) <= PaidAtomic
<1> DEFINE C == {l \in PayoutLegs : Counted(l)}
           f == ChainAmount
           g == [l \in PayoutLegs |-> ledger[l].amt]
<1>1. TypeOK /\ ledger \in [PayoutLegs -> Row]
  BY DEF CoverContext, TypeOK
<1>2. \A l \in PayoutLegs : f[l] = chain[l].amt /\ f[l] \in Nat /\ g[l] = ledger[l].amt /\ g[l] \in Nat
  BY <1>1, ChainNat DEF Row
<1>3. ASSUME NEW l \in PayoutLegs \ C
      PROVE  f[l] = 0
  <2>1. ~ ledger[l].tx /\ l \in Legs
    BY <1>3, LegsFacts DEF Counted
  <2>2. ~ OnRow(l) /\ ~ Held(l)
    BY <2>1, PayoutRow DEF Held, Holds, Alone
  <2>3. ~ Moved(l) /\ chain[l].n \in Nat
    BY <1>1, <2>1, <2>2, NothingLost DEF CoverContext, TypeOK
  <2>4. chain[l].amt = 0
    BY <2>1, <2>3 DEF CoverContext, CoverInv, ChainInv, Moved
  <2> QED
    BY <1>2, <2>4
<1>4. ASSUME NEW l \in C
      PROVE  f[l] <= g[l]
  <2>1. ledger[l].tx
    BY DEF Counted, CoverContext, CoverInv, ChainInv
  <2> QED
    BY <1>2, <2>1, CoverFacts DEF CoverRows
<1>5. C \in SUBSET PayoutLegs /\ IsFiniteSet(C) /\ IsFiniteSet(PayoutLegs \ C)
  BY LegsFinite, FS_Subset
<1>6. PaidAtomic = SumOf(g, C) + SumOf(Contribution, returned)
  BY PaidIs
<1>7. SumOf(Contribution, returned) \in Nat
  BY <1>1, ReturnedNat
<1> HIDE DEF f, g, C
<1>8. SumOf(f, PayoutLegs) = SumOf(f, C) + SumOf(f, PayoutLegs \ C)
  BY <1>2, <1>5, LegsFinite, SumParts
<1>9. SumOf(f, PayoutLegs \ C) = 0
  BY <1>3, <1>5, SumZero
<1>10. SumOf(f, C) <= SumOf(g, C)
  BY <1>2, <1>4, <1>5, SumLess
<1>11. SumOf(f, C) \in Nat /\ SumOf(g, C) \in Nat
  BY <1>2, <1>5, SumNat
<1>12. SumOf(f, PayoutLegs) <= PaidAtomic
  BY <1>6, <1>7, <1>8, <1>9, <1>10, <1>11
<1> QED
  BY <1>12 DEF f

LEMMA CoveredOne ==
    ASSUME NEW q, q.pool \in SUBSET Members, NEW l \in PayoutLegs
    PROVE  Covered(q, {l}) <=> LegAmount(l, q.pool) <= Face - PaidAtomic
<1> DEFINE f == [m \in {l} |-> LegAmount(m, q.pool)]
<1>1. Covered(q, {l}) <=> SumOf(f, {l}) <= Face - PaidAtomic
  BY TotalIsSum DEF Covered, VerifiedAtomic
<1>2. f[l] = LegAmount(l, q.pool) /\ f[l] \in Nat
  BY LegAmountNat, LegsFacts
<1> HIDE DEF f
<1>3. SumOf(f, {l}) = f[l] + SumOf(f, {l} \ {l})
  <2> DEFINE S == {l}
  <2>1. IsFiniteSet(S) /\ l \in S /\ \A x \in S : f[x] \in Nat
    BY <1>2, FS_Singleton
  <2> HIDE DEF S
  <2>2. SumOf(f, S) = f[l] + SumOf(f, S \ {l})
    BY <2>1, SumTake
  <2> QED
    BY <2>2 DEF S
<1>4. {l} \ {l} = {}
  OBVIOUS
<1>5. SumOf(f, {l}) = f[l]
  BY <1>2, <1>3, <1>4, SumEmpty
<1> QED
  BY <1>1, <1>2, <1>5

\* The winner's leg is always covered: nothing was paid before it.
LEMMA WinnerCovered ==
    ASSUME CoverContext, Unfailing, NEW r \in Requests, req[r].pc = "settle.next",
           WINNER \in req[r].todo
    PROVE  Covered(req[r], {WINNER})
<1>1. /\ CoverKept(req[r]) /\ CoverRows /\ SideKept(req[r]) /\ req[r].pool \in SUBSET Members
  BY CoverFacts
<1>2. \A l \in PayoutLegs : ~ Counted(l)
  <2>1. \A l \in PayoutLegs : ~ ledger[l].tx
    BY <1>1 DEF CoverKept, CoverRows
  <2> QED
    BY <2>1 DEF Counted, CoverContext, CoverInv, ChainInv
<1>3. returned = {}
  <2>1. bounty \in PaySide
    BY <1>1 DEF SideKept, SettlePCs
  <2>2. ASSUME NEW l \in returned
        PROVE  FALSE
    <3>1. l \in RefundLegs /\ Moved(l)
      BY DEF CoverContext, HashInv, HashBackedByChain
    <3>2. bounty \in BackSide
      BY <3>1 DEF CoverContext, SidesInv
    <3> QED
      BY <2>1, <3>2 DEF PaySide, BackSide
  <2> QED
    BY <2>2
<1>4. PaidAtomic = 0
  <2>1. {l \in PayoutLegs : Counted(l)} = {}
    BY <1>2
  <2> QED
    BY <1>3, <2>1, PaidIs, SumEmpty
<1>5. LegAmount(WINNER, req[r].pool) \in Nat /\ LegAmount(WINNER, req[r].pool) <= Face /\ Face \in Nat
  BY <1>1, FixedAmounts, FaceIsSum
<1> QED
  BY <1>1, <1>4, <1>5, CoveredOne, LegsFacts

\* A step that leaves the rows, the chain and the pool as they are.
LEMMA CoverQuiet ==
    ASSUME CoverContext, Unfailing, NEW r \in Requests, Alone(r),
           UNCHANGED <<ledger, chain, frozen>>, CoverKept(req[r])',
           PastLegs(req[r]) => PastLegs(req'[r]) \/ ledger[WINNER].tx
    PROVE  Covers'
<1>1. CoverRows
  BY CoverFacts
<1>2. RowsPlanned(Pool)' /\ ChainAmount' = ChainAmount
  BY <1>1 DEF CoverRows, RowsPlanned, Pool, ChainAmount
<1>3. ~ ledger'[WINNER].tx /\ (\A s \in Requests : ~ PastLegs(req'[s])) =>
         ledger'[WINNER].st = "none"
  BY <1>1 DEF CoverRows, Alone
<1>4. CoverRows'
  BY <1>1, <1>2, <1>3 DEF CoverRows
<1> QED
  BY <1>4 DEF Covers, Alone

\* A handler that ends with the winner paid, or before it wrote a row.
LEMMA CoverReturn ==
    ASSUME CoverContext, Unfailing, NEW r \in Requests, Alone(r), Return(r),
           UNCHANGED <<ledger, chain, frozen>>,
           ~ PastLegs(req[r]) \/ ledger[WINNER].tx
    PROVE  Covers'
<1>1. req'[r] = Idle
  BY ReturnUpdate DEF CoverContext
<1>2. CoverKept(req[r])'
  BY <1>1 DEF CoverKept, Idle, SettlePCs
<1> QED
  BY <1>2, CoverQuiet

\* The row of a leg of the plan is marked, or confirmed.
LEMMA CoverRow ==
    ASSUME CoverContext, Unfailing, NEW r \in Requests, Alone(r),
           UNCHANGED <<chain, frozen>>,
           NEW m \in PayoutLegs, m \in req[r].todo, m \in Planned(req[r].pool),
           req[r].pc \in {"settle.next", "settle.confirm"},
           NEW x \in Row, ledger' = [ledger EXCEPT ![m] = x],
           x.amt = ledger[m].amt, ledger[m].tx => x.tx,
           x.tx => /\ chain[m].amt <= x.amt
                   /\ m # WINNER => ledger[WINNER].tx,
           PastLegs(req'[r]), CoverKept(req[r])'
    PROVE  Covers'
<1> DEFINE q == req[r]
<1>1. /\ CoverKept(q) /\ CoverRows /\ ledger \in [PayoutLegs -> Row]
      /\ Pool \in SUBSET Members /\ q.pool \in SUBSET Members
  BY CoverFacts
<1>2. q.pool \subseteq Pool /\ LegAmount(m, q.pool) <= ledger[m].amt
  BY <1>1 DEF CoverKept, SettlePCs
<1>3. /\ ledger'[m] = x
      /\ \A l \in PayoutLegs \ {m} : ledger'[l] = ledger[l]
  BY <1>1
<1>4. \A l \in PayoutLegs : ledger'[l].tx => chain'[l].amt <= ledger'[l].amt
  BY <1>1, <1>3 DEF CoverRows
<1>5. SumOf(ChainAmount, PayoutLegs)' <= Face
  <2>1. ChainAmount' = ChainAmount
    BY DEF ChainAmount
  <2> QED
    BY <1>1, <2>1 DEF CoverRows
<1>6. ledger'[FEE].st # "none" => LegAmount(FEE, {}) <= ledger'[FEE].amt
  BY <1>1, <1>2, <1>3, FixedAmounts, LegsFacts DEF CoverRows
<1>7. RowsPlanned(Pool)'
  <2>1. Pool' = Pool
    BY DEF Pool
  <2> SUFFICES ASSUME NEW k \in Members, ledger'[k].st # "none"
               PROVE  k \in Pool /\ LegAmount(k, Pool) <= ledger'[k].amt
    BY <2>1 DEF RowsPlanned
  <2>2. CASE k = m
    <3>1. m \in q.pool
      BY <2>2, LegsFacts DEF Planned
    <3>2. LegAmount(m, Pool) <= LegAmount(m, q.pool)
      BY <1>1, <1>2, <3>1, PlannedGrows
    <3>3. /\ LegAmount(m, Pool) \in Nat /\ LegAmount(m, q.pool) \in Nat /\ ledger[m].amt \in Nat
      BY <1>1, LegsFacts, LegAmountNat DEF Row
    <3> QED
      BY <1>2, <1>3, <2>2, <3>1, <3>2, <3>3
  <2>3. CASE k # m
    BY <1>1, <1>3, <2>3, LegsFacts DEF CoverRows, RowsPlanned
  <2> QED
    BY <2>2, <2>3
<1>8. ~ ledger'[WINNER].tx => \A l \in PayoutLegs : ~ ledger'[l].tx
  BY <1>1, <1>3, LegsFacts DEF CoverRows
<1>9. CoverRows'
  BY <1>4, <1>5, <1>6, <1>7, <1>8 DEF CoverRows
<1> QED
  BY <1>9 DEF Covers, Alone

\* A handler reads the pool, and the winner as paid only if the ledger has it so.
LEMMA SettleReadCovers ==
    ASSUME CoverContext, Unfailing, NEW r \in Requests, Alone(r), NEW op \in SettleOps,
           NEW reachable \in SUBSET Members, SettleRead(r, op, reachable)
    PROVE  Covers'
<1> DEFINE pool == frozen \cap Members
           recorded == {l \in PayoutLegs : \/ l = WINNER /\ escrow.payoutTx
                                           \/ l = FEE /\ escrow.feeTx
                                           \/ l \in memberPaid}
           todo == {l \in Planned(pool) \ recorded :
                      /\ InScope(l, op)
                      /\ op = "all" => l \in {WINNER, FEE} \cup reachable}
           x == [Idle EXCEPT !.pc = "settle.read", !.op = op,
                   !.escrow = escrow.status, !.payout = escrow.payoutTx,
                   !.fee = escrow.feeTx, !.fail = escrow.fail, !.pool = pool,
                   !.winnerRow = WinnerRow \in frozen, !.todo = todo]
<1>1. req'[r] = x
  <2>1. req' = [req EXCEPT ![r] = x]
    BY DEF SettleRead
  <2> HIDE DEF x
  <2> QED
    BY <2>1, ReqUpdate DEF CoverContext
<1>2. /\ UNCHANGED <<ledger, chain, frozen>> /\ req[r].pc = "idle"
      /\ op \in Members => escrow.payoutTx
  BY DEF SettleRead
<1>3. WINNER \notin todo => ledger[WINNER].tx
  <2>1. WINNER \in Planned(pool) /\ WINNER \notin Members /\ WINNER # FEE
    BY LegsFacts DEF Planned
  <2>2. WINNER \in recorded => ledger[WINNER].tx
    <3>1. memberPaid \subseteq Members
      BY DEF CoverContext, TypeOK
    <3> QED
      BY <2>1, <3>1 DEF CoverContext, LossInv
  <2>3. ~ InScope(WINNER, op) => ledger[WINNER].tx
    BY <1>2 DEF InScope, SettleOps, CoverContext, LossInv
  <2> QED
    BY <2>1, <2>2, <2>3
<1> HIDE DEF todo
<1>4. /\ x.pc = "settle.read" /\ x.pool = Pool /\ x.todo = todo
  BY DEF Idle, Pool
<1> HIDE DEF x
<1>5. Pool' = Pool /\ RowsPlanned(Pool)'
  BY <1>2, CoverFacts DEF Pool, CoverRows, RowsPlanned
<1>6. CoverKept(req[r])'
  BY <1>1, <1>2, <1>3, <1>4, <1>5 DEF CoverKept, RowsPlanned
<1>7. ~ PastLegs(req[r])
  BY <1>2 DEF PastLegs
<1> QED
  BY <1>2, <1>6, <1>7, CoverQuiet

\* PrepareLegs inserts rows and does nothing else: the ledger has the hashes already.
LEMMA PreparedRow ==
    ASSUME CoverContext, Unfailing, NEW r \in Requests, NEW l \in PayoutLegs
    PROVE  /\ l \in Planned(req[r].pool) /\ ledger[l].st = "none" =>
                 /\ Synced(req[r])[l].st = "pending" /\ Synced(req[r])[l].tx = FALSE
                 /\ Synced(req[r])[l].amt = LegAmount(l, req[r].pool)
                 /\ l = WINNER => Synced(req[r])[l].bound = req[r].winnerRow
           /\ l \notin Planned(req[r].pool) \/ ledger[l].st # "none" =>
                 Synced(req[r])[l] = ledger[l]
<1> DEFINE q == req[r]
           new == Inserted(q)
<1>1. /\ q.payout => ledger[WINNER].tx
      /\ q.fee => ledger[FEE].tx
      /\ ledger[l].tx => ledger[l].st # "none"
  BY CoverFacts DEF KeyKept, CoverContext, NoRowNoHash
<1>2. new[l] = IF l \in Planned(q.pool) /\ ledger[l].st = "none"
               THEN [st |-> "pending", tx |-> FALSE, amt |-> LegAmount(l, q.pool),
                     bound |-> l = WINNER /\ q.winnerRow]
               ELSE ledger[l]
  BY DEF Inserted
<1>3. Synced(q)[l] = IF /\ (l = WINNER /\ q.payout) \/ (l = FEE /\ q.fee)
                        /\ l \in Planned(q.pool) /\ RowFound(new, q, l) /\ ~ new[l].tx
                     THEN [new[l] EXCEPT !.st = "confirmed", !.tx = TRUE]
                     ELSE new[l]
  BY DEF Synced
<1>4. (l = WINNER /\ q.payout) \/ (l = FEE /\ q.fee) => new[l].tx
  BY <1>1, <1>2
<1>5. Synced(q)[l] = new[l]
  <2> HIDE DEF new
  <2> QED
    BY <1>3, <1>4
<1>6. q.winnerRow \in BOOLEAN
  BY CoverFacts DEF Request
<1> HIDE DEF new, q
<1> QED
  BY <1>2, <1>5, <1>6 DEF q

LEMMA PrepareLegsCovers ==
    ASSUME CoverContext, Unfailing, NEW r \in Requests, Alone(r), PrepareLegs(r)
    PROVE  Covers'
<1> DEFINE q == req[r]
           rows == Synced(q)
           hasHash(l) == l \in Planned(q.pool) /\ RowFound(rows, q, l) /\ rows[l].tx
           payout == q.payout \/ hasHash(WINNER)
           fee    == q.fee \/ hasHash(FEE)
           todo   == {l \in q.todo : /\ RowFound(rows, q, l)
                                     /\ ~ hasHash(l)
                                     /\ l = WINNER => ~ payout
                                     /\ l = FEE => ~ fee}
           x      == [q EXCEPT !.pc = "settle.next", !.payout = payout, !.fee = fee,
                               !.todo = todo]
<1>1. /\ req' = [req EXCEPT ![r] = x] /\ q.pc = "settle.legs" /\ ledger' = rows
      /\ UNCHANGED <<chain, frozen>>
  BY DEF PrepareLegs
<1>2. /\ CoverKept(q) /\ CoverRows /\ KeyKept(q) /\ q \in Request /\ ledger \in [PayoutLegs -> Row]
      /\ Pool \in SUBSET Members /\ q.pool \in SUBSET Members
  BY CoverFacts
<1>3. /\ q.pool \subseteq Pool /\ (WINNER \notin q.todo => ledger[WINNER].tx)
      /\ RowsPlanned(q.pool) /\ q.todo \subseteq Planned(q.pool)
      /\ Planned(q.pool) \subseteq PayoutLegs /\ WINNER \in Planned(q.pool)
  BY <1>1, <1>2, LegsFacts DEF CoverKept, KeyKept, SettlePCs, Planned, PayoutLegs
<1>4. \A l \in PayoutLegs :
         /\ l \in Planned(q.pool) /\ ledger[l].st = "none" =>
               /\ rows[l].st = "pending" /\ rows[l].tx = FALSE
               /\ rows[l].amt = LegAmount(l, q.pool)
               /\ l = WINNER => rows[l].bound = q.winnerRow
         /\ l \notin Planned(q.pool) \/ ledger[l].st # "none" => rows[l] = ledger[l]
  BY PreparedRow
<1>5. \A l \in PayoutLegs : /\ ledger[l].tx => ledger[l].st # "none"
                            /\ rows[l].tx <=> ledger[l].tx
  <2>1. \A l \in PayoutLegs : ledger[l].tx => ledger[l].st # "none"
    BY DEF CoverContext, NoRowNoHash
  <2> HIDE DEF rows
  <2> QED
    BY <1>4, <2>1
<1>6. ~ ledger[WINNER].tx => ledger[WINNER].st = "none"
  BY <1>1, <1>2 DEF CoverRows, PastLegs, Alone
<1>7. WINNER \notin todo => ledger[WINNER].tx
  <2> SUFFICES ASSUME ~ ledger[WINNER].tx
               PROVE  WINNER \in todo
    OBVIOUS
  <2>1. /\ WINNER \in q.todo /\ ~ q.payout
        /\ rows[WINNER].st = "pending" /\ rows[WINNER].tx = FALSE
        /\ rows[WINNER].bound = q.winnerRow
    <3> HIDE DEF rows
    <3> QED
      BY <1>2, <1>3, <1>4, <1>6, LegsFacts DEF KeyKept
  <2> HIDE DEF rows
  <2>2. RowFound(rows, q, WINNER) /\ ~ hasHash(WINNER)
    BY <2>1 DEF RowFound
  <2>3. ~ payout
    BY <2>1, <2>2
  <2>4. WINNER # FEE
    BY LegsFacts
  <2> HIDE DEF payout, hasHash, fee
  <2> QED
    BY <2>1, <2>2, <2>3, <2>4
<1>8. todo \subseteq q.todo /\ \A l \in todo : RowFound(rows, q, l) /\ ~ hasHash(l)
  <2> HIDE DEF rows, hasHash, payout, fee
  <2> QED
    OBVIOUS
<1>9. \A l \in todo : l \in PayoutLegs /\ l \in Planned(q.pool) /\ ~ rows[l].tx
  <2> HIDE DEF rows, todo
  <2> QED
    BY <1>3, <1>8
<1> HIDE DEF todo, payout, fee, rows, hasHash
<1>10. ASSUME NEW l \in todo
       PROVE  LegAmount(l, q.pool) <= rows[l].amt
  <2>1. l \in PayoutLegs /\ l \in Planned(q.pool) /\ ~ ledger[l].tx
    BY <1>5, <1>9
  <2>2. CASE ledger[l].st = "none"
    <3>1. LegAmount(l, q.pool) \in Nat
      BY <1>2, <2>1, LegAmountNat, LegsFacts
    <3>2. rows[l].amt = LegAmount(l, q.pool)
      BY <1>4, <2>1, <2>2
    <3> QED
      BY <3>1, <3>2
  <2>3. CASE ledger[l].st # "none"
    <3>1. rows[l] = ledger[l] /\ l # WINNER
      BY <1>4, <1>6, <2>1, <2>3
    <3>2. CASE l = FEE
      BY <1>2, <2>3, <3>1, <3>2, FixedAmounts DEF CoverRows
    <3>3. CASE l \in Members
      BY <1>3, <2>3, <3>1, <3>3 DEF RowsPlanned
    <3> QED
      BY <2>1, <3>1, <3>2, <3>3 DEF PayoutLegs
  <2> QED
    BY <2>2, <2>3
<1>11. x.pc = "settle.next" /\ x.pool = q.pool /\ x.todo = todo
  BY <1>2 DEF Request
<1> HIDE DEF x
<1>12. req'[r] = x
  BY <1>1, ReqUpdate DEF CoverContext
<1>13. CoverKept(req[r])'
  <2>1. Pool' = Pool
    BY <1>1 DEF Pool
  <2>2. WINNER \notin todo => ledger'[WINNER].tx
    BY <1>1, <1>5, <1>7, LegsFacts
  <2>3. \A l \in todo : LegAmount(l, q.pool) <= ledger'[l].amt /\ ~ ledger'[l].tx
    BY <1>1, <1>9, <1>10
  <2> QED
    BY <1>3, <1>11, <1>12, <2>1, <2>2, <2>3 DEF CoverKept
<1>14. \A l \in PayoutLegs : ledger'[l].tx => chain'[l].amt <= ledger'[l].amt
  <2> SUFFICES ASSUME NEW l \in PayoutLegs, ledger'[l].tx
               PROVE  chain[l].amt <= ledger'[l].amt
    BY <1>1
  <2>1. ledger[l].tx /\ rows[l] = ledger[l]
    BY <1>1, <1>4, <1>5
  <2> QED
    BY <1>1, <1>2, <2>1 DEF CoverRows
<1>15. SumOf(ChainAmount, PayoutLegs)' <= Face
  <2>1. ChainAmount' = ChainAmount
    BY <1>1 DEF ChainAmount
  <2> QED
    BY <1>2, <2>1 DEF CoverRows
<1>16. ledger'[FEE].st # "none" => LegAmount(FEE, {}) <= ledger'[FEE].amt
  <2>1. CASE FEE \in Planned(q.pool) /\ ledger[FEE].st = "none"
    <3>1. rows[FEE].amt = LegAmount(FEE, q.pool)
      BY <1>4, <2>1, LegsFacts
    <3>2. LegAmount(FEE, q.pool) = LegAmount(FEE, {}) /\ LegAmount(FEE, q.pool) \in Nat
      BY <1>2, FixedAmounts, LegAmountNat, LegsFacts
    <3> QED
      BY <1>1, <3>1, <3>2
  <2>2. CASE ~ (FEE \in Planned(q.pool) /\ ledger[FEE].st = "none")
    <3>1. rows[FEE] = ledger[FEE]
      BY <1>4, <2>2, LegsFacts
    <3> QED
      BY <1>1, <1>2, <3>1 DEF CoverRows
  <2> QED
    BY <2>1, <2>2
<1>17. RowsPlanned(Pool)'
  <2>1. Pool' = Pool
    BY <1>1 DEF Pool
  <2> SUFFICES ASSUME NEW k \in Members, rows[k].st # "none"
               PROVE  k \in Pool /\ LegAmount(k, Pool) <= rows[k].amt
    BY <1>1, <2>1 DEF RowsPlanned
  <2>2. CASE k \in Planned(q.pool) /\ ledger[k].st = "none"
    <3>1. rows[k].amt = LegAmount(k, q.pool) /\ k \in q.pool
      BY <1>4, <2>2, LegsFacts DEF Planned
    <3>2. LegAmount(k, Pool) <= LegAmount(k, q.pool)
      BY <1>2, <1>3, <3>1, PlannedGrows
    <3> QED
      BY <1>3, <3>1, <3>2
  <2>3. CASE ~ (k \in Planned(q.pool) /\ ledger[k].st = "none")
    <3>1. rows[k] = ledger[k]
      BY <1>4, <2>3, LegsFacts
    <3> QED
      BY <1>2, <3>1 DEF CoverRows, RowsPlanned
  <2> QED
    BY <2>2, <2>3
<1>18. ~ ledger'[WINNER].tx => \A l \in PayoutLegs : ~ ledger'[l].tx
  BY <1>1, <1>2, <1>5, LegsFacts DEF CoverRows
<1>19. PastLegs(req'[r])
  BY <1>11, <1>12 DEF PastLegs
<1>20. CoverRows'
  BY <1>14, <1>15, <1>16, <1>17, <1>18, <1>19 DEF CoverRows
<1> QED
  BY <1>13, <1>20 DEF Covers, Alone

\* A behaviour without a failure so far has no failing step.
LEMMA NoFailure ==
    ASSUME TypeOK, TypeOK', Unfailing, Unfailing'
    PROVE  errors = 0 /\ crashes = 0 /\ errors' = 0 /\ crashes' = 0
<1>1. errors \in Nat /\ crashes \in Nat /\ errors' \in Nat /\ crashes' \in Nat
  BY DEF TypeOK
<1>2. errors + crashes = 0 /\ errors' + crashes' = 0
  BY DEF Unfailing
<1>3. \A m, n \in Nat : m + n = 0 => m = 0 /\ n = 0
  OBVIOUS
<1> QED
  BY <1>1, <1>2, <1>3, Zenon

\* The check found that the leg fits into what is left.
LEMMA SubmitLegCovers ==
    ASSUME CoverContext, TypeOK', Unfailing, NEW r \in Requests, Alone(r),
           NEW l \in PayoutLegs, SubmitLeg(r, l)
    PROVE  Covers'
<1> DEFINE q == req[r]
           x == [ledger[l] EXCEPT !.st = "submitted"]
<1>1. /\ q.pc = "settle.next" /\ IsNext(l, q.todo) /\ Covered(q, {l})
      /\ req' = [req EXCEPT ![r] = [q EXCEPT !.pc = "settle.send", !.leg = l]]
      /\ ledger' = [ledger EXCEPT ![l].st = "submitted"]
      /\ UNCHANGED <<chain, frozen, returned>>
  BY DEF SubmitLeg
<1>2. /\ CoverKept(q) /\ CoverRows /\ KeyKept(q) /\ q \in Request
      /\ ledger \in [PayoutLegs -> Row] /\ q.pool \in SUBSET Members /\ TypeOK
  BY CoverFacts DEF CoverContext
<1>3. /\ l \in q.todo /\ l \in Planned(q.pool) /\ ~ ledger[l].tx
      /\ l # WINNER => WINNER \notin q.todo
  BY <1>1, <1>2 DEF IsNext, KeyKept, CoverKept, SettlePCs
<1>4. /\ x \in Row /\ ledger' = [ledger EXCEPT ![l] = x]
      /\ x.amt = ledger[l].amt /\ x.tx = ledger[l].tx /\ x.st = "submitted"
  BY <1>1, <1>2 DEF Row
<1>5. \A k \in PayoutLegs : /\ ledger'[k].amt = ledger[k].amt /\ ledger'[k].tx = ledger[k].tx
                            /\ ledger'[k].st = "confirmed" => ledger[k].st = "confirmed"
  <2> HIDE DEF x
  <2> QED
    BY <1>2, <1>4
<1> HIDE DEF x
<1>6. /\ req'[r].pc = "settle.send" /\ req'[r].leg = l
      /\ req'[r].pool = q.pool /\ req'[r].todo = q.todo
  <2>1. req'[r] = [q EXCEPT !.pc = "settle.send", !.leg = l]
    BY <1>1, <1>2, ReqUpdate
  <2> QED
    BY <1>2, <2>1 DEF Request
<1>7. LegAmount(l, q.pool) <= Face - PaidAtomic'
  <2>1. PaidAtomic' <= PaidAtomic
    <3>1. \A k \in PayoutLegs : Counted(k)' => Counted(k)
      BY <1>5 DEF Counted
    <3> QED
      BY <1>1, <1>2, <1>5, <3>1, PaidNoMore
  <2>2. LegAmount(l, q.pool) <= Face - PaidAtomic
    BY <1>1, <1>2, CoveredOne
  <2>3. /\ LegAmount(l, q.pool) \in Nat /\ Face \in Nat
        /\ PaidAtomic \in Nat /\ PaidAtomic' \in Nat
    BY <1>2, LegAmountNat, LegsFacts, FaceIsSum, PaidNat, PaidNatNext
  <2> QED
    BY <2>1, <2>2, <2>3
<1>8. CoverKept(req[r])'
  <2>1. Pool' = Pool
    BY <1>1 DEF Pool
  <2>2. q.pool \subseteq Pool /\ (WINNER \notin q.todo => ledger'[WINNER].tx)
    BY <1>1, <1>2, <1>5, LegsFacts DEF CoverKept, SettlePCs
  <2>3. q.todo \subseteq PayoutLegs
    BY <1>1, <1>2, LegsFacts DEF KeyKept, SettlePCs, Planned, PayoutLegs
  <2>4. \A k \in q.todo : LegAmount(k, q.pool) <= ledger'[k].amt /\ ~ ledger'[k].tx
    BY <1>1, <1>2, <1>5, <2>3 DEF CoverKept
  <2> QED
    BY <1>3, <1>6, <1>7, <2>1, <2>2, <2>4 DEF CoverKept
<1>9. PastLegs(req'[r])
  BY <1>6 DEF PastLegs
<1> QED
  BY <1>1, <1>3, <1>4, <1>8, <1>9, CoverRow

\* The transfer is the first of its leg, and what it adds was left over.
LEMMA SendLegCovers ==
    ASSUME CoverContext, Unfailing, NEW r \in Requests, Alone(r), SendLeg(r)
    PROVE  Covers'
<1> DEFINE q == req[r]
           l == q.leg
           a == LegAmount(l, q.pool)
<1>1. /\ q.pc = "settle.send" /\ Transfer(l, a) /\ Goto(r, "settle.confirm")
      /\ UNCHANGED <<ledger, frozen, returned>>
  BY DEF SendLeg
<1>2. /\ CoverKept(q) /\ CoverRows /\ KeyKept(q) /\ q \in Request
      /\ ledger \in [PayoutLegs -> Row] /\ q.pool \in SUBSET Members /\ TypeOK
  BY CoverFacts DEF CoverContext
<1>3. l \in PayoutLegs /\ l \in Legs /\ keys[l] = {} /\ chain[l].amt = 0 /\ ~ ledger[l].tx
  BY <1>1, <1>2, NotMovedYet, LegsFacts DEF CoverKept
<1>4. a \in Nat
  BY <1>2, <1>3, LegAmountNat
<1>5. (\A m \in Legs \ {l} : chain'[m] = chain[m]) /\ chain'[l].amt = a
  <2> HIDE DEF a, l
  <2>1. chain'[l].amt = 0 + a
    BY <1>1, <1>2, <1>3, <1>4, TransferAmount
  <2> QED
    BY <1>1, <1>2, <1>3, <1>4, <2>1, TransferAmount
<1>6. /\ req'[r].pc = "settle.confirm" /\ req'[r].leg = l
      /\ req'[r].pool = q.pool /\ req'[r].todo = q.todo
  <2>1. req'[r] = [q EXCEPT !.pc = "settle.confirm"]
    BY <1>1, <1>2, ReqUpdate DEF Goto
  <2> QED
    BY <1>2, <2>1 DEF Request
<1>7. SumOf(ChainAmount, PayoutLegs)' <= Face
  <2> DEFINE f == ChainAmount
             h == ChainAmount'
  <2>1. /\ IsFiniteSet(PayoutLegs)
        /\ \A k \in PayoutLegs : f[k] = chain[k].amt /\ f[k] \in Nat
        /\ \A k \in PayoutLegs : h[k] = chain'[k].amt
    BY <1>2, ChainNat, LegsFinite DEF ChainAmount
  <2>2. h[l] = a /\ f[l] = 0 /\ \A k \in PayoutLegs \ {l} : h[k] = f[k]
    BY <1>3, <1>5, <2>1, LegsFacts
  <2>3. SumOf(f, PayoutLegs) <= PaidAtomic /\ a <= Face - PaidAtomic
    BY <1>1, <1>2, ChainCovered DEF CoverKept
  <2>4. SumOf(f, PayoutLegs) \in Nat /\ PaidAtomic \in Nat /\ Face \in Nat
    BY <1>2, ChainNat, PaidNat, FaceIsSum
  <2>5. SumOf(ChainAmount, PayoutLegs)' = SumOf(h, PayoutLegs)
    OBVIOUS
  <2> HIDE DEF f, h, a, l
  <2>6. \A k \in PayoutLegs : f[k] \in Nat /\ h[k] \in Nat
    BY <1>4, <2>1, <2>2
  <2>7. SumOf(h, PayoutLegs) = SumOf(f, PayoutLegs) - f[l] + h[l]
    <3>1. l \in PayoutLegs /\ IsFiniteSet(PayoutLegs)
          /\ \A k \in PayoutLegs \ {l} : h[k] = f[k]
      BY <1>3, <2>1, <2>2
    <3> QED
      BY <2>6, <3>1, SumUpdate
  <2> QED
    BY <1>4, <2>2, <2>3, <2>4, <2>5, <2>7
<1>8. CoverKept(req[r])'
  <2>1. Pool' = Pool
    BY <1>1 DEF Pool
  <2> HIDE DEF a
  <2>2. a <= a
    BY <1>4
  <2> QED
    BY <1>1, <1>2, <1>5, <1>6, <2>1, <2>2 DEF CoverKept, SettlePCs, a
<1>9. \A k \in PayoutLegs : ledger'[k].tx => chain'[k].amt <= ledger'[k].amt
  BY <1>1, <1>2, <1>3, <1>5, LegsFacts DEF CoverRows
<1>10. RowsPlanned(Pool)'
  BY <1>1, <1>2 DEF CoverRows, RowsPlanned, Pool
<1>11. PastLegs(req'[r])
  BY <1>6 DEF PastLegs
<1>12. CoverRows'
  BY <1>1, <1>2, <1>7, <1>9, <1>10, <1>11 DEF CoverRows
<1> QED
  BY <1>8, <1>12 DEF Covers, Alone

\* The row says at least what the transfer moved.
LEMMA ConfirmLegCovers ==
    ASSUME CoverContext, Unfailing, NEW r \in Requests, Alone(r), ConfirmLeg(r)
    PROVE  Covers'
<1> DEFINE q == req[r]
           l == q.leg
           x == [ledger[l] EXCEPT !.st = "confirmed", !.tx = TRUE]
           y == [q EXCEPT !.pc = "settle.record", !.payout = @ \/ l = WINNER,
                          !.fee = @ \/ l = FEE]
<1>1. /\ q.pc = "settle.confirm" /\ ledger' = [ledger EXCEPT ![l] = x]
      /\ req' = [req EXCEPT ![r] = y] /\ UNCHANGED <<chain, frozen>>
  BY DEF ConfirmLeg
<1>2. /\ CoverKept(q) /\ CoverRows /\ KeyKept(q) /\ q \in Request /\ RequestHashes(q)
      /\ ledger \in [PayoutLegs -> Row] /\ q.pool \in SUBSET Members /\ TypeOK
  BY CoverFacts DEF CoverContext
<1>3. /\ l \in PayoutLegs /\ l \in Legs /\ l \in q.todo /\ l \in Planned(q.pool)
      /\ l # WINNER => WINNER \notin q.todo
      /\ LegAmount(l, q.pool) <= ledger[l].amt /\ chain[l].amt <= LegAmount(l, q.pool)
  BY <1>1, <1>2, LegsFacts DEF KeyKept, CoverKept, RequestHashes, SettlePCs
<1>4. x \in Row /\ x.amt = ledger[l].amt /\ x.tx = TRUE
  BY <1>2, <1>3 DEF Row
<1>5. chain[l].amt <= x.amt /\ (l # WINNER => ledger[WINNER].tx)
  <2>1. chain[l].amt \in Nat /\ LegAmount(l, q.pool) \in Nat /\ ledger[l].amt \in Nat
    BY <1>2, <1>3, LegAmountNat DEF TypeOK, Row
  <2> HIDE DEF x
  <2>2. chain[l].amt <= x.amt
    BY <1>3, <1>4, <2>1
  <2> QED
    BY <1>1, <1>2, <1>3, <2>2 DEF CoverKept, SettlePCs
<1>6. \A k \in PayoutLegs \ {l} : ledger'[k] = ledger[k]
  <2> HIDE DEF x
  <2> QED
    BY <1>1, <1>2
<1>7. ledger'[l] = x
  <2> HIDE DEF x
  <2> QED
    BY <1>1, <1>2, <1>3
<1>8. /\ req'[r].pc = "settle.record" /\ req'[r].leg = l
      /\ req'[r].pool = q.pool /\ req'[r].todo = q.todo
  <2>1. req'[r] = y
    <3> HIDE DEF y
    <3> QED
      BY <1>1, <1>2, ReqUpdate
  <2> QED
    BY <1>2, <2>1 DEF Request
<1> HIDE DEF x, y
<1>9. CoverKept(req[r])'
  <2>1. Pool' = Pool
    BY <1>1 DEF Pool
  <2>2. q.pool \subseteq Pool /\ (WINNER \notin q.todo => ledger'[WINNER].tx)
    BY <1>1, <1>2, <1>3, <1>4, <1>6, LegsFacts DEF CoverKept, SettlePCs
  <2>3. q.todo \subseteq PayoutLegs
    BY <1>1, <1>2, LegsFacts DEF KeyKept, SettlePCs, Planned, PayoutLegs
  <2>4. \A k \in q.todo : LegAmount(k, q.pool) <= ledger'[k].amt
    BY <1>1, <1>2, <1>4, <1>6, <1>7, <2>3 DEF CoverKept
  <2>5. \A k \in q.todo \ {l} : ~ ledger'[k].tx
    BY <1>1, <1>2, <1>6, <2>3 DEF CoverKept
  <2> QED
    BY <1>3, <1>8, <2>1, <2>2, <2>4, <2>5 DEF CoverKept
<1>10. PastLegs(req'[r])
  BY <1>8 DEF PastLegs
<1> HIDE DEF l
<1> QED
  BY <1>1, <1>3, <1>4, <1>5, <1>9, <1>10, CoverRow

\* The leg comes off the list when its row has the hash.
LEMMA RecordLegCovers ==
    ASSUME CoverContext, Unfailing, NEW r \in Requests, Alone(r), RecordLeg(r)
    PROVE  Covers'
<1> DEFINE q == req[r]
<1>1. /\ q.pc = "settle.record" /\ UNCHANGED <<ledger, chain, frozen>>
      /\ req' = [req EXCEPT ![r] = [q EXCEPT !.pc = "settle.next", !.todo = @ \ {q.leg},
                                             !.leg = WINNER]]
  BY DEF RecordLeg
<1>2. CoverKept(q) /\ KeyKept(q) /\ q \in Request /\ TypeOK
  BY CoverFacts DEF CoverContext
<1>3. /\ req'[r].pc = "settle.next" /\ req'[r].pool = q.pool
      /\ req'[r].todo = q.todo \ {q.leg}
  <2>1. req'[r] = [q EXCEPT !.pc = "settle.next", !.todo = @ \ {q.leg}, !.leg = WINNER]
    BY <1>1, <1>2, ReqUpdate
  <2> QED
    BY <1>2, <2>1 DEF Request
<1>4. ledger[q.leg].tx
  BY <1>1, <1>2 DEF KeyKept
<1>5. CoverKept(req[r])'
  <2>1. Pool' = Pool
    BY <1>1 DEF Pool
  <2> QED
    BY <1>1, <1>2, <1>3, <1>4, <2>1 DEF CoverKept, SettlePCs
<1>6. PastLegs(req'[r])
  BY <1>3 DEF PastLegs
<1> QED
  BY <1>1, <1>5, <1>6, CoverQuiet

\* The steps that only go on to the next one.
LEMMA SettleGoesOn ==
    ASSUME CoverContext, Unfailing, NEW r \in Requests, Alone(r),
           SettleEnter(r) \/ SettleEnterEscrow(r) \/ SettleTally(r)
    PROVE  Covers'
<1> DEFINE q == req[r]
<1>1. CoverKept(q) /\ q \in Request /\ TypeOK
  BY CoverFacts DEF CoverContext
<1>2. UNCHANGED <<ledger, chain, frozen>>
  BY DEF SettleEnter, SettleEnterEscrow, SettleTally
<1>3. Pool' = Pool
  BY <1>2 DEF Pool
<1>4. CASE SettleEnter(r) \/ SettleEnterEscrow(r)
  <2>1. /\ q.pc \in {"settle.read", "settle.entered"}
        /\ Goto(r, "settle.entered") \/ Goto(r, "settle.legs")
    BY <1>4 DEF SettleEnter, SettleEnterEscrow
  <2>2. /\ req'[r].pc \in {"settle.entered", "settle.legs"} /\ req'[r].pool = q.pool
        /\ req'[r].todo = q.todo
    <3>1. \/ req'[r] = [q EXCEPT !.pc = "settle.entered"]
          \/ req'[r] = [q EXCEPT !.pc = "settle.legs"]
      BY <1>1, <2>1, ReqUpdate DEF Goto
    <3> QED
      BY <1>1, <3>1 DEF Request
  <2>3. RowsPlanned(q.pool) /\ q.pool \subseteq Pool /\ (WINNER \notin q.todo => ledger[WINNER].tx)
    BY <1>1, <2>1 DEF CoverKept, SettlePCs
  <2>4. CoverKept(req[r])'
    BY <1>2, <1>3, <2>2, <2>3 DEF CoverKept, RowsPlanned
  <2>5. ~ PastLegs(req[r])
    BY <2>1 DEF PastLegs
  <2> QED
    BY <1>2, <2>4, <2>5, CoverQuiet
<1>5. CASE SettleTally(r)
  <2> DEFINE t == IF IntendedConfirmed(q) THEN "settled" ELSE "settled_partial"
  <2>1. /\ q.pc = "settle.next" /\ q.todo = {}
        /\ req' = [req EXCEPT ![r] = [q EXCEPT !.pc = "settle.finish", !.term = t]]
    BY <1>5 DEF SettleTally
  <2> HIDE DEF t
  <2>2. /\ req'[r].pc = "settle.finish" /\ req'[r].pool = q.pool /\ req'[r].todo = q.todo
    <3>1. req'[r] = [q EXCEPT !.pc = "settle.finish", !.term = t]
      BY <1>1, <2>1, ReqUpdate
    <3> QED
      BY <1>1, <3>1 DEF Request
  <2>3. CoverKept(req[r])'
    BY <1>1, <1>2, <1>3, <2>1, <2>2 DEF CoverKept, SettlePCs
  <2>4. PastLegs(req'[r])
    BY <2>2 DEF PastLegs
  <2> QED
    BY <1>2, <2>3, <2>4, CoverQuiet
<1> QED
  BY <1>4, <1>5

\* The check may turn away a member's share, never what comes before the winner.
LEMMA LegNotCoveredCovers ==
    ASSUME CoverContext, Unfailing, NEW r \in Requests, Alone(r),
           NEW l \in PayoutLegs, LegNotCovered(r, l)
    PROVE  Covers'
<1>1. /\ req[r].pc = "settle.next" /\ IsNext(l, req[r].todo) /\ ~ Covered(req[r], {l})
      /\ Return(r) /\ UNCHANGED <<ledger, chain, frozen>>
  BY DEF LegNotCovered
<1>2. l # WINNER
  BY <1>1, WinnerCovered DEF IsNext
<1>3. ledger[WINNER].tx
  BY <1>1, <1>2, CoverFacts DEF IsNext, CoverKept, SettlePCs
<1> QED
  BY <1>1, <1>3, CoverReturn

LEMMA SettleStepCovers ==
    ASSUME CoverContext, TypeOK', Unfailing, Unfailing', NEW r \in Requests, Alone(r),
           SettleStep(r)
    PROVE  Covers'
<1>1. errors' = 0 /\ errors = 0
  BY NoFailure DEF CoverContext
<1>2. ASSUME errors' = errors + 1
      PROVE  FALSE
  BY <1>1, <1>2
<1>3. CASE SettleRailDown(r)
  BY <1>2, <1>3 DEF SettleRailDown
<1>4. CASE SettleNotCovered(r)
  <2>1. /\ req[r].pc = "settle.read" /\ Return(r) /\ UNCHANGED <<ledger, chain, frozen>>
    BY <1>4 DEF SettleNotCovered
  <2>2. ~ PastLegs(req[r])
    BY <2>1 DEF PastLegs
  <2> QED
    BY <2>1, <2>2, CoverReturn
<1>5. CASE SettleEnter(r) \/ SettleEnterEscrow(r) \/ SettleTally(r)
  BY <1>5, SettleGoesOn
<1>6. CASE PrepareLegs(r)
  BY <1>6, PrepareLegsCovers
<1>7. CASE \E l \in PayoutLegs : SubmitLeg(r, l) \/ LegNotCovered(r, l)
  BY <1>7, SubmitLegCovers, LegNotCoveredCovers
<1>8. CASE SendLeg(r) \/ ConfirmLeg(r) \/ RecordLeg(r)
  BY <1>8, SendLegCovers, ConfirmLegCovers, RecordLegCovers
<1>9. CASE LegError(r)
  <2>1. req[r].pc = "settle.send" /\ ~ (keys[req[r].leg] \subseteq {LegAmount(req[r].leg, req[r].pool)})
    BY <1>2, <1>9 DEF LegError
  <2> QED
    BY <2>1, NotMovedYet
<1>10. CASE SettleFinish(r)
  <2>1. /\ req[r].pc = "settle.finish" /\ Return(r) /\ UNCHANGED <<ledger, chain, frozen>>
    BY <1>10 DEF SettleFinish
  <2>2. ledger[WINNER].tx
    BY <2>1, CoverFacts DEF CoverKept
  <2> QED
    BY <2>1, <2>2, CoverReturn
<1> QED
  BY <1>3, <1>4, <1>5, <1>6, <1>7, <1>8, <1>9, <1>10 DEF SettleStep

-----------------------------------------------------------------------------
\* A handler of a refund has no rows to see to: it may mark those that were
\* never paid as failed.
LEMMA CoverElsewhere ==
    ASSUME CoverContext, Unfailing, NEW r \in Requests, Alone(r), UNCHANGED frozen,
           req[r].pc \in RefundPCs \cup {"idle"}, req'[r].pc \in RefundPCs \cup {"idle"},
           \A l \in PayoutLegs :
               /\ chain'[l] = chain[l]
               /\ ledger'[l].amt = ledger[l].amt /\ ledger'[l].tx = ledger[l].tx
               /\ ledger[l].st = "none" <=> ledger'[l].st = "none"
    PROVE  Covers'
<1>1. CoverRows
  BY CoverFacts
<1>2. CoverKept(req[r])'
  BY DEF CoverKept, RefundPCs, SettlePCs
<1>3. ChainAmount' = ChainAmount
  BY DEF ChainAmount
<1>4. RowsPlanned(Pool)'
  BY <1>1, LegsFacts DEF CoverRows, RowsPlanned, Pool
<1>5. ~ ledger'[WINNER].tx => ledger'[WINNER].st = "none"
  <2>1. \A s \in Requests : ~ PastLegs(req[s])
    BY DEF PastLegs, RefundPCs, Alone
  <2> QED
    BY <1>1, <2>1, LegsFacts DEF CoverRows
<1>6. CoverRows'
  BY <1>1, <1>3, <1>4, <1>5, LegsFacts DEF CoverRows
<1> QED
  BY <1>2, <1>6 DEF Covers, Alone

LEMMA RefundStepCovers ==
    ASSUME CoverContext, TypeOK', Unfailing, Unfailing', NEW r \in Requests, Alone(r),
           RefundStep(r)
    PROVE  Covers'
<1>1. errors' = 0 /\ errors = 0
  BY NoFailure DEF CoverContext
<1>2. TypeOK /\ req[r] \in Request /\ RequestHashes(req[r])
  BY CoverFacts DEF CoverContext
<1>3. CASE RefundError(r)
  BY <1>1, <1>3 DEF RefundError
<1>4. CASE \/ RefundNotCovered(r) \/ RefundEnter(r) \/ RefundEnterEscrow(r)
           \/ \E l \in RefundLegs : RefundCheck(r, l) \/ RefundLegNotCovered(r, l)
           \/ RefundMark(r)
  <2>1. UNCHANGED <<ledger, chain, frozen>> /\ req[r].pc \in RefundPCs
    BY <1>4 DEF RefundNotCovered, RefundEnter, RefundEnterEscrow, RefundCheck,
         RefundLegNotCovered, RefundMark, RefundPCs
  <2>2. \/ Return(r)
        \/ \E pc \in RefundPCs : \E l, T :
              req' = [req EXCEPT ![r] = [req[r] EXCEPT !.pc = pc, !.leg = l, !.todo = T]]
    <3>1. CASE RefundNotCovered(r) \/ \E l \in RefundLegs : RefundLegNotCovered(r, l)
      BY <3>1 DEF RefundNotCovered, RefundLegNotCovered
    <3>2. CASE RefundEnter(r) \/ RefundEnterEscrow(r)
      <4>1. \E pc \in RefundPCs : req' = [req EXCEPT ![r].pc = pc]
        BY <3>2 DEF RefundEnter, RefundEnterEscrow, Goto, RefundPCs
      <4>2. PICK pc \in RefundPCs : req' = [req EXCEPT ![r] = [req[r] EXCEPT !.pc = pc]]
        BY <4>1
      <4>3. [req[r] EXCEPT !.pc = pc] =
               [req[r] EXCEPT !.pc = pc, !.leg = req[r].leg, !.todo = req[r].todo]
        BY <1>2 DEF Request
      <4> QED
        BY <4>2, <4>3
    <3>3. CASE \E l \in RefundLegs : RefundCheck(r, l)
      <4>1. PICK l : req' = [req EXCEPT ![r] = [req[r] EXCEPT !.pc = "refund.send", !.leg = l]]
        BY <3>3 DEF RefundCheck
      <4>2. [req[r] EXCEPT !.pc = "refund.send", !.leg = l] =
               [req[r] EXCEPT !.pc = "refund.send", !.leg = l, !.todo = req[r].todo]
        BY <1>2 DEF Request
      <4> QED
        BY <4>1, <4>2 DEF RefundPCs
    <3>4. CASE RefundMark(r)
      <4>1. req' = [req EXCEPT ![r] = [req[r] EXCEPT !.pc = "refund.next", !.leg = WINNER,
                                          !.todo = @ \ {req[r].leg}]]
        BY <3>4 DEF RefundMark
      <4> QED
        BY <4>1 DEF RefundPCs
    <3> QED
      BY <1>4, <3>1, <3>2, <3>3, <3>4
  <2>3. req'[r].pc \in RefundPCs \cup {"idle"}
    <3>1. CASE Return(r)
      BY <1>2, <3>1, ReturnUpdate DEF Idle
    <3>2. ASSUME NEW pc \in RefundPCs, NEW l, NEW T,
                 req' = [req EXCEPT ![r] = [req[r] EXCEPT !.pc = pc, !.leg = l, !.todo = T]]
          PROVE  req'[r].pc \in RefundPCs
      <4>1. req'[r] = [req[r] EXCEPT !.pc = pc, !.leg = l, !.todo = T]
        BY <1>2, <3>2, ReqUpdate
      <4> QED
        BY <1>2, <4>1 DEF Request
    <3> QED
      BY <2>2, <3>1, <3>2
  <2> QED
    BY <2>1, <2>3, CoverElsewhere
<1>5. CASE RefundSend(r)
  <2>1. /\ req[r].pc = "refund.send" /\ UNCHANGED <<ledger, frozen>>
        /\ Transfer(req[r].leg, LegAmount(req[r].leg, {}))
    BY <1>5 DEF RefundSend
  <2>2. req[r].leg \in RefundLegs /\ req[r].leg \in Legs
    BY <1>2, <2>1, LegsFacts DEF RequestHashes
  <2>3. \A l \in PayoutLegs : chain'[l] = chain[l]
    BY <1>2, <2>1, <2>2, LegAmountNat, TransferAmount, LegsFacts
  <2>4. req'[r].pc \in RefundPCs
    <3> DEFINE pc == IF SingleRefund THEN "refund.next" ELSE "refund.mark"
               T == IF SingleRefund THEN {} ELSE req[r].todo
               l == IF SingleRefund THEN WINNER ELSE req[r].leg
    <3>1. req' = [req EXCEPT ![r] = [req[r] EXCEPT !.refund = TRUE, !.pc = pc, !.todo = T,
                                        !.leg = l]]
      BY <1>5 DEF RefundSend
    <3>2. pc \in RefundPCs
      BY DEF RefundPCs
    <3> HIDE DEF pc, T, l
    <3>3. req'[r] = [req[r] EXCEPT !.refund = TRUE, !.pc = pc, !.todo = T, !.leg = l]
      BY <1>2, <3>1, ReqUpdate
    <3> QED
      BY <1>2, <3>2, <3>3 DEF Request
  <2> QED
    BY <2>1, <2>3, <2>4, CoverElsewhere DEF RefundPCs
<1>6. CASE RefundFinish(r)
  <2>1. /\ req[r].pc = "refund.next" /\ Return(r) /\ UNCHANGED <<chain, frozen>>
        /\ ledger' = [l \in PayoutLegs |->
              IF ledger[l].st \in {"pending", "submitted", "failed"} /\ ~ ledger[l].tx
              THEN [ledger[l] EXCEPT !.st = "failed"]
              ELSE ledger[l]]
    BY <1>6 DEF RefundFinish
  <2>2. req'[r].pc = "idle"
    BY <1>2, <2>1, ReturnUpdate DEF Idle
  <2>3. ASSUME NEW l \in PayoutLegs
        PROVE  /\ ledger'[l].amt = ledger[l].amt /\ ledger'[l].tx = ledger[l].tx
               /\ ledger[l].st = "none" <=> ledger'[l].st = "none"
    <3>1. ledger[l] \in Row
      BY <1>2 DEF TypeOK
    <3>2. ledger'[l] = IF ledger[l].st \in {"pending", "submitted", "failed"} /\ ~ ledger[l].tx
                       THEN [ledger[l] EXCEPT !.st = "failed"]
                       ELSE ledger[l]
      BY <2>1
    <3> QED
      BY <3>1, <3>2 DEF Row
  <2> QED
    BY <2>1, <2>2, <2>3, CoverElsewhere DEF RefundPCs
<1> QED
  BY <1>3, <1>4, <1>5, <1>6 DEF RefundStep

\* The hook only ever adds to the pool, and the rail's keys are no part of this.
LEMMA OutsideCovers ==
    ASSUME CoverContext, TypeOK', Unfailing, Unfailing',
           HookStep \/ (\E l \in Legs : ExpireKey(l)) \/ UNCHANGED vars
    PROVE  Covers'
<1>1. TypeOK /\ CoverRows /\ \A r \in Requests : CoverKept(req[r])
  BY DEF CoverContext, CoverInv, Covers
<1>2. UNCHANGED <<ledger, chain, req, returned>> /\ frozen \subseteq frozen'
  BY DEF HookStep, MarkRead, MarkEligible, MarkSkipped, FreezeRead, FreezeRow,
         HookStop, HookCrash, ExpireKey, vars
<1>3. Pool \in SUBSET Members /\ Pool' \in SUBSET Members /\ Pool \subseteq Pool'
  BY <1>2 DEF Pool
<1>4. RowsPlanned(Pool')
  BY <1>1, <1>3, RowsPlannedGrows DEF CoverRows
<1>5. RowsPlanned(Pool)'
  BY <1>2, <1>4 DEF RowsPlanned
<1>6. ChainAmount' = ChainAmount /\ PaidAtomic' = PaidAtomic
  BY <1>2 DEF ChainAmount, PaidAtomic
<1>7. CoverRows'
  BY <1>1, <1>2, <1>5, <1>6 DEF CoverRows, PastLegs
<1>8. ASSUME NEW r \in Requests
      PROVE  CoverKept(req[r])'
  BY <1>1, <1>2, <1>3, <1>6 DEF CoverKept, RowsPlanned
<1> QED
  BY <1>7, <1>8 DEF Covers

LEMMA HandlerCovers ==
    ASSUME CoverContext, TypeOK', Unfailing, Unfailing', NEW r \in Requests, Alone(r),
           Handler(r)
    PROVE  Covers'
<1>1. TypeOK
  BY DEF CoverContext
<1>2. CASE \E op \in SettleOps, reachable \in SUBSET Members : SettleRead(r, op, reachable)
  BY <1>2, SettleReadCovers
<1>3. ASSUME NEW op \in RefundOps, RefundRead(r, op)
      PROVE  Covers'
  <2> DEFINE x == [Idle EXCEPT !.pc = "refund.read", !.op = op, !.refund = escrow.refundTx,
                     !.todo = IF SingleRefund
                              THEN {l \in RefundLegs : ~ escrow.refundTx}
                              ELSE Contributors \ returned]
  <2>1. /\ req[r].pc = "idle" /\ UNCHANGED <<ledger, chain, frozen>>
        /\ req' = [req EXCEPT ![r] = x]
    BY <1>3 DEF RefundRead
  <2>2. x.pc = "refund.read"
    BY DEF Idle
  <2> HIDE DEF x
  <2>3. req'[r].pc = "refund.read"
    BY <1>1, <2>1, <2>2, ReqUpdate
  <2> QED
    BY <2>1, <2>3, CoverElsewhere DEF RefundPCs
<1>4. CASE Crash(r)
  <2>1. crashes' = crashes + 1 /\ crashes = 0 /\ crashes' = 0
    BY <1>1, <1>4, NoFailure DEF Crash
  <2> QED
    BY <2>1
<1> QED
  BY <1>2, <1>3, <1>4, SettleStepCovers, RefundStepCovers DEF Handler, Arrive

\* A failure is never forgotten.
LEMMA StaysUnfailing ==
    ASSUME TypeOK, TypeOK', [Next]_vars, Unfailing'
    PROVE  Unfailing
<1>1. /\ errors \in Nat /\ crashes \in Nat /\ errors' \in Nat /\ crashes' \in Nat
  BY DEF TypeOK
<1>2. /\ errors' = errors \/ errors' = errors + 1
      /\ crashes' = crashes \/ crashes' = crashes + 1
  <2>1. ASSUME NEW r \in Requests, Handler(r)
        PROVE  /\ errors' = errors \/ errors' = errors + 1
               /\ crashes' = crashes \/ crashes' = crashes + 1
    <3>1. CASE SettleStep(r)
      BY <3>1 DEF SettleStep, SettleRailDown, SettleNotCovered, SettleEnter,
           SettleEnterEscrow, PrepareLegs, SubmitLeg, LegNotCovered, SendLeg, ConfirmLeg,
           RecordLeg, LegError, SettleTally, SettleFinish
    <3>2. CASE RefundStep(r)
      BY <3>2 DEF RefundStep, RefundNotCovered, RefundEnter, RefundEnterEscrow, RefundCheck,
           RefundLegNotCovered, RefundSend, RefundMark, RefundError, RefundFinish
    <3>3. CASE Arrive(r) \/ Crash(r)
      BY <3>3 DEF Arrive, SettleRead, RefundRead, Crash
    <3> QED
      BY <2>1, <3>1, <3>2, <3>3 DEF Handler
  <2>2. CASE HookStep \/ (\E l \in Legs : ExpireKey(l)) \/ UNCHANGED vars
    BY <2>2 DEF HookStep, MarkRead, MarkEligible, MarkSkipped, FreezeRead, FreezeRow,
         HookStop, HookCrash, ExpireKey, vars
  <2> QED
    BY <2>1, <2>2 DEF Next
<1>3. errors' + crashes' = 0
  BY DEF Unfailing
<1>4. \A m, n \in Nat : /\ m + n = 0 <=> m = 0 /\ n = 0
                       /\ m + 1 # 0
  OBVIOUS
<1>5. errors' = 0 /\ crashes' = 0
  BY <1>1, <1>3, <1>4
<1>6. errors = 0 /\ crashes = 0
  BY <1>1, <1>2, <1>4, <1>5
<1>7. errors + crashes = 0
  BY <1>6
<1> QED
  BY <1>7 DEF Unfailing

LEMMA CoverNext ==
    ASSUME TypeOK, TypeOK', HashInv, SidesInv, NoRowNoHash, LossInv, CoverInv,
           \A r, s \in Requests : r = s, [Next]_vars
    PROVE  CoverInv'
<1>1. ChainInv'
  BY ChainNext DEF CoverInv
<1>2. ASSUME Unfailing'
      PROVE  Covers'
  <2>1. Unfailing /\ CoverContext
    BY <1>2, StaysUnfailing DEF CoverContext
  <2>2. ASSUME NEW r \in Requests, Handler(r)
        PROVE  Covers'
    <3>1. Alone(r)
      BY DEF Alone
    <3> QED
      BY <1>2, <2>1, <2>2, <3>1, HandlerCovers
  <2> QED
    BY <1>2, <2>1, <2>2, OutsideCovers DEF Next
<1> QED
  BY <1>1, <1>2 DEF CoverInv

LEMMA CoverStart == Init => CoverInv
<1> SUFFICES ASSUME Init
             PROVE  CoverInv
  OBVIOUS
<1>1. /\ \A l \in PayoutLegs : ledger[l] = NoRow
      /\ \A l \in Legs : chain[l].n = 0 /\ chain[l].amt = 0
      /\ \A r \in Requests : req[r] = Idle
  BY DEF Init, InitOpen, InitMerged, Start
<1>2. ChainInv
  <2>1. \A l \in RefundLegs : LegAmount(l, {}) \in Nat
    BY LegAmountNat, LegsFacts
  <2>2. \A n \in Nat : 0 = 0 * n
    OBVIOUS
  <2>3. \A l \in RefundLegs : chain[l].amt = chain[l].n * LegAmount(l, {})
    <3> SUFFICES ASSUME NEW l \in RefundLegs
                 PROVE  chain[l].amt = chain[l].n * LegAmount(l, {})
      OBVIOUS
    <3>1. chain[l].amt = 0 /\ chain[l].n = 0
      BY <1>1, LegsFacts
    <3>2. 0 = 0 * LegAmount(l, {})
      BY <2>1, <2>2
    <3> QED
      BY <3>1, <3>2
  <2> QED
    BY <1>1, <2>3 DEF ChainInv, NoRow
<1>3. SumOf(ChainAmount, PayoutLegs) <= Face
  <2>1. \A l \in PayoutLegs : ChainAmount[l] = 0
    BY <1>1, LegsFacts DEF ChainAmount
  <2>2. SumOf(ChainAmount, PayoutLegs) = 0
    BY <2>1, LegsFinite, SumZero
  <2> QED
    BY <2>2, FaceIsSum
<1>4. CoverRows
  BY <1>1, <1>3, LegsFacts DEF CoverRows, NoRow, RowsPlanned
<1>5. \A r \in Requests : CoverKept(req[r])
  BY <1>1 DEF CoverKept, Idle, SettlePCs
<1> QED
  BY <1>2, <1>4, <1>5 DEF CoverInv, Covers

\* One side has moved nothing; the other side fits.
LEMMA WithinFace ==
    ASSUME TypeOK, SidesInv, LossInv, CoverInv
    PROVE  OutflowWithinInflowUnfailing
<1> SUFFICES ASSUME Unfailing
             PROVE  OutflowWithinInflow
  BY DEF OutflowWithinInflowUnfailing, Unfailing
<1> DEFINE g == [l \in Legs |-> chain[l].amt]
           h == [l \in RefundLegs |-> LegAmount(l, {})]
<1>1. /\ \A l \in Legs : chain[l].n \in Nat /\ g[l] = chain[l].amt /\ g[l] \in Nat
      /\ \A l \in RefundLegs : h[l] = LegAmount(l, {}) /\ h[l] \in Nat
  BY LegAmountNat, LegsFacts DEF TypeOK
<1>2. /\ IsFiniteSet(Legs) /\ IsFiniteSet(PayoutLegs) /\ IsFiniteSet(RefundLegs)
      /\ PayoutLegs \subseteq Legs /\ RefundLegs \subseteq Legs /\ Legs \ PayoutLegs = RefundLegs
  BY ResentNat, LegsFinite, LegsFacts DEF Legs
<1>3. Total(Legs, g) = SumOf(g, Legs)
  BY TotalIsSum
<1>4. SumOf(h, RefundLegs) = Face /\ Face \in Nat
  BY RefundIsFace, FaceIsSum
<1>5. \A l \in Legs : ~ Moved(l) => g[l] = 0
  BY <1>1 DEF Moved, CoverInv, ChainInv
<1>6. SumOf(ChainAmount, PayoutLegs) <= Face /\ \A l \in PayoutLegs : ChainAmount[l] = g[l]
  BY <1>1, ChainNat, LegsFacts DEF CoverInv, Covers, CoverRows
<1>7. \A l \in RefundLegs : g[l] <= h[l]
  <2> SUFFICES ASSUME NEW l \in RefundLegs
               PROVE  g[l] <= h[l]
    OBVIOUS
  <2> DEFINE n == chain[l].n
  <2>1. n \in Nat /\ n <= 1 /\ g[l] = n * h[l] /\ h[l] \in Nat
    BY <1>1, NothingLost, LegsFacts DEF CoverInv, ChainInv
  <2> HIDE DEF n, g, h
  <2>2. n = 0 \/ n = 1
    BY <2>1
  <2>3. \A m \in Nat : 0 * m <= m /\ 1 * m <= m
    OBVIOUS
  <2> QED
    BY <2>1, <2>2, <2>3
<1> HIDE DEF g, h
<1>8. SumOf(g, Legs) = SumOf(g, PayoutLegs) + SumOf(g, RefundLegs)
  BY <1>1, <1>2, SumParts
<1>9. SumOf(g, PayoutLegs) <= Face /\ SumOf(g, PayoutLegs) \in Nat
  <2>1. SumOf(g, PayoutLegs) = SumOf(ChainAmount, PayoutLegs)
    BY <1>2, <1>6, SumEqual
  <2> QED
    BY <1>6, <2>1, ChainNat
<1>10. SumOf(g, RefundLegs) <= Face /\ SumOf(g, RefundLegs) \in Nat
  <2>1. \A l \in RefundLegs : g[l] \in Nat /\ h[l] \in Nat /\ g[l] <= h[l]
    BY <1>1, <1>7, LegsFacts
  <2> QED
    BY <1>2, <1>4, <2>1, SumLess, SumNat
<1>11. CASE \A l \in RefundLegs : ~ Moved(l)
  <2>1. SumOf(g, RefundLegs) = 0
    BY <1>2, <1>5, <1>11, SumZero
  <2> QED
    BY <1>3, <1>8, <1>9, <2>1 DEF OutflowWithinInflow, g
<1>12. CASE \E l \in RefundLegs : Moved(l)
  <2>1. \A l \in PayoutLegs : ~ Moved(l)
    BY <1>12 DEF SidesInv, PaySide, BackSide
  <2>2. SumOf(g, PayoutLegs) = 0
    BY <1>2, <1>5, <2>1, SumZero
  <2> QED
    BY <1>3, <1>8, <1>10, <2>2 DEF OutflowWithinInflow, g
<1> QED
  BY <1>11, <1>12

\* When handlers do not overlap and nothing has failed, no more goes out than
\* was put in (OutflowWithinInflowUnfailing), although the webhook writes the
\* pool row by row and a claim may plan with half of it: the coverage check
\* before each transfer makes up for legs planned with different pools.  (With
\* overlapping handlers it may not: one that saw no pool yet transfers the
\* winner's part of the whole while another pays the members' shares.)
THEOREM CoverageMakesUp ==
    ASSUME \A r, s \in Requests : r = s
    PROVE  Spec => []OutflowWithinInflowUnfailing
<1>1. Init => SidesInv
  BY LegsFacts DEF Init, InitOpen, InitMerged, Start, SidesInv, SideKept, Moved, Idle,
       SettlePCs, RefundPCs
<1>2. TypeOK /\ HashInv /\ SidesInv /\ [Next]_vars => SidesInv'
  BY SidesNext
<1>3. Init => NoRowNoHash
  BY DEF Init, InitOpen, InitMerged, Start, NoRowNoHash, NoRow
<1>4. TypeOK /\ NoRowNoHash /\ [Next]_vars => NoRowNoHash'
  BY NoRowKept
<1>5. TypeOK /\ HashInv /\ NoRowNoHash /\ LossInv /\ [Next]_vars => LossInv'
  BY LossNext
<1>6. TypeOK /\ TypeOK' /\ HashInv /\ SidesInv /\ NoRowNoHash /\ LossInv /\ CoverInv
         /\ [Next]_vars => CoverInv'
  BY CoverNext
<1>7. TypeOK /\ SidesInv /\ LossInv /\ CoverInv => OutflowWithinInflowUnfailing
  BY WithinFace
<1> QED
  BY <1>1, <1>2, <1>3, <1>4, <1>5, <1>6, <1>7, LossStart, CoverStart, Inductive, PTL DEF Spec
=============================================================================
