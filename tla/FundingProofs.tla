---------------------------- MODULE FundingProofs ----------------------------
(***************************************************************************)
(* The money that comes in, the address it goes out to, who may move it and *)
(* what an administrator is told of it: the components of MCMoney.          *)
(*                                                                         *)
(* Funding: a draft is credited nothing, so the lock credits exactly its      *)
(* face, and every top-up raises the face that is in force by what it        *)
(* credits; hence the face is the sum of the contributions (FaceFunded).      *)
(* What a request carries has arrived, and while nobody edits the draft it   *)
(* is worth its face.                                                       *)
(*                                                                         *)
(* FundingMarkers: what the payout guard counts is backed, for any bounties,  *)
(* hashes, wallets, legacy rows and runs in flight.  A mark on a row, or      *)
(* carried by a run, is of a hash that the bounty alone owns and that the     *)
(* chain vouches for now as it did then; heads and lock hashes never change.  *)
(* So writing back a stale column can only lose marks, never count wrongly,   *)
(* and what was lost can be verified again.                                 *)
(*                                                                         *)
(* PayoutAddress: however the wallets and the accounts change while claims    *)
(* run, the ledger of a leg names the address that its transfer went to.     *)
(*                                                                         *)
(* Checkout: however often the button is pressed while the bounty is edited, *)
(* deleted or funded, a payment that settled is on the record, unless it was  *)
(* not alone in the handler, its bounty ended, or its answer was lost.       *)
(*                                                                          *)
(* ApiGateway: a call keeps what it was let in with (MoneyNeedsScope).      *)
(*                                                                          *)
(* AdminDesk: by DeskInv the rows agree with where the money is, so the log *)
(* and the reports can be believed (DeskIsTruthful).                        *)
(***************************************************************************)
EXTENDS MCMoney, SumProofs

\* A request that is about to settle a payment holds one that has not moved;
\* past that its payment has arrived, and so has the one on the row it has read.
RequestKnows(q) ==
    /\ q.pc \in {"pay.settle", "topup.settle"} =>
         q.pay # Unpaid /\ settled[q.pay] = 0 /\ q.amount > 0
    /\ q.pc = "topup.apply" => q.pay # Unpaid /\ settled[q.pay] = q.amount /\ q.amount > 0
    /\ q.pc \in {"pay.record", "pay.write", "lock.commit"} =>
         q.pay # Unpaid /\ settled[q.pay] > 0
    /\ q.pc = "pay.write" /\ q.row.hash # Unpaid => settled[q.row.hash] > 0
    /\ q.pc = "void.write" => q.to \in {"cancelled", "expired"}

\* While nobody has edited the draft, what is on its way to the row is its face.
PaysFace(q) ==
    /\ q.pc = "pay.settle" => q.amount = bounty.face
    /\ q.pc \in {"pay.record", "pay.write", "lock.commit"} => settled[q.pay] = bounty.face
    /\ q.pc = "pay.write" /\ q.row.hash # Unpaid => settled[q.row.hash] = bounty.face

Settling(q) == q.pc \in {"pay.settle", "topup.settle"}

RowArrived == bounty.face > 0 /\ (escrow.hash # Unpaid => settled[escrow.hash] > 0)

RequestsKnow == \A r \in Requests : RequestKnows(req[r])

\* No two requests carry the same signed payment.
OneCarrier ==
    \A r, s \in Requests :
        r # s /\ Settling(req[r]) /\ Settling(req[s]) => req[r].pay # req[s].pay

DraftUncredited ==
    bounty.status = "pending_fund" => ~ closed /\ \A p \in Payments : credited[p] = 0

DraftWorth ==
    edits = 0 /\ bounty.status = "pending_fund" =>
        /\ escrow.hash # Unpaid => settled[escrow.hash] = bounty.face
        /\ \A r \in Requests : PaysFace(req[r])

FundInv ==
    /\ TypeOK
    /\ RowArrived /\ RequestsKnow /\ OneCarrier
    /\ DraftUncredited /\ DraftWorth /\ FaceIsFunded
-----------------------------------------------------------------------------
(* What the steps have in common                                            *)

LEMMA CreditedIsSum ==
    Credited = SumOf(credited, Payments) /\ Credited' = SumOf(credited', Payments)
<1>1. Credited = SumOf(credited, Payments)
  BY DEF Credited, SumOf
<1>2. Credited' = SumOf(credited', Payments)
  BY DEF Credited, SumOf, MapThenSumSet, MapThenFoldSet
<1> QED
  BY <1>1, <1>2

\* A request whose only effect is on itself.
Alone(r, q) == req' = [req EXCEPT ![r] = q]
RowsStand == UNCHANGED <<bounty, escrow, credited, closed, edits>>

LEMMA IdleTyped == Idle \in Request /\ Idle.pc = "idle" /\ RequestKnows(Idle) /\ PaysFace(Idle)
  BY DEF Idle, Request, PCs, EscrowRow, EscrowStatus, NoRow, BountyStatus, RequestKnows, PaysFace

\* When the rows stand and no payment moves, a step keeps the invariant if what
\* the request becomes is sound.
LEMMA RequestStep ==
    ASSUME FundInv, RowsStand, UNCHANGED settled, crashes' \in Nat,
           NEW r \in Requests, NEW q \in Request, Alone(r, q),
           RequestKnows(q), edits = 0 /\ bounty.status = "pending_fund" => PaysFace(q),
           Settling(q) => \A s \in Requests : s # r => req[s].pay # q.pay
    PROVE  FundInv'
<1> USE DEF FundInv, RowsStand, Alone
<1>1. TypeOK'
  BY DEF TypeOK
<1>2. \A s \in Requests : req'[s] = IF s = r THEN q ELSE req[s]
  BY DEF TypeOK
<1>3. RowArrived'
  BY DEF RowArrived
<1>4. RequestsKnow'
  <2>1. \A s \in Requests : RequestKnows(req'[s])
    BY <1>2 DEF RequestsKnow
  <2> QED
    BY <2>1 DEF RequestsKnow, RequestKnows
<1>5. OneCarrier'
  BY <1>2 DEF OneCarrier
<1>6. DraftUncredited'
  BY DEF DraftUncredited
<1>7. DraftWorth'
  BY <1>2 DEF DraftWorth, PaysFace
<1>8. FaceIsFunded'
  <2>1. Credited' = Credited
    BY CreditedIsSum
  <2> QED
    BY <2>1 DEF FaceIsFunded, FaceArrived
<1> QED
  BY <1>1, <1>3, <1>4, <1>5, <1>6, <1>7, <1>8

LEMMA ReturnStep ==
    ASSUME FundInv, RowsStand, UNCHANGED settled, crashes' \in Nat,
           NEW r \in Requests, Return(r)
    PROVE  FundInv'
  BY RequestStep, IdleTyped DEF Return, Alone, Settling

LEMMA InitFund == Init => FundInv
<1> SUFFICES ASSUME Init PROVE FundInv
  OBVIOUS
<1> USE FundingAssumption, IdleTyped
<1>0. PICK f \in Faces :
        /\ bounty = [status |-> "pending_fund", face |-> f, deleted |-> FALSE]
        /\ escrow = [status |-> "pending", amount |-> f, hash |-> Unpaid]
  BY DEF Init
<1>1. TypeOK
  BY <1>0 DEF Init, TypeOK, BountyStatus, EscrowRow, EscrowStatus
<1>2. RowArrived /\ RequestsKnow /\ OneCarrier /\ DraftUncredited /\ DraftWorth
  BY <1>0 DEF Init, RowArrived, RequestsKnow, OneCarrier, Settling, DraftUncredited, DraftWorth
<1>3. FaceIsFunded
  BY <1>0 DEF Init, FaceIsFunded, FaceArrived
<1> QED
  BY <1>1, <1>2, <1>3 DEF FundInv
-----------------------------------------------------------------------------
(* Steps that change a request only                                         *)

LEMMA ReadSteps ==
    ASSUME FundInv, NEW r \in Requests,
           \/ \E p \in Payments : PayRead(r, p)
           \/ RecordRead(r)
           \/ LockRead(r)
           \/ \E p \in Payments, amount \in TopUps : TopUpRead(r, p, amount)
           \/ \E to \in {"cancelled", "expired"} : VoidRead(r, to)
    PROVE  FundInv'
<1> USE FundingAssumption, IdleTyped DEF FundInv
<1>0. TypeOK /\ req[r] \in Request /\ bounty.face \in Nat /\ bounty.face > 0
  BY DEF TypeOK, RowArrived
<1>1. ASSUME NEW p \in Payments, PayRead(r, p)
      PROVE  FundInv'
  <2> DEFINE q == [Idle EXCEPT !.pc = "pay.settle", !.pay = p, !.amount = bounty.face]
  <2>1. q \in Request /\ q.pc = "pay.settle" /\ q.pay = p /\ q.amount = bounty.face
    BY <1>0 DEF Request, PCs, Idle
  <2>2. Alone(r, q) /\ RowsStand /\ UNCHANGED settled /\ crashes' \in Nat
    BY <1>0, <1>1 DEF PayRead, Alone, RowsStand, TypeOK
  <2>3. RequestKnows(q) /\ PaysFace(q) /\ \A s \in Requests : s # r => req[s].pay # q.pay
    BY <1>0, <1>1, <2>1 DEF PayRead, Unspent, RequestKnows, PaysFace
  <2> HIDE DEF q
  <2> QED
    BY <2>1, <2>2, <2>3, RequestStep
<1>2. ASSUME RecordRead(r)
      PROVE  FundInv'
  <2> DEFINE q == [req[r] EXCEPT !.pc = "pay.write", !.gone = bounty.deleted, !.row = escrow]
  <2>1. q \in Request /\ q.pc = "pay.write" /\ q.pay = req[r].pay /\ q.row = escrow
    BY <1>0 DEF Request, PCs, TypeOK
  <2>2. Alone(r, q)
    BY <1>0, <1>2 DEF RecordRead, Alone, TypeOK
  <2>3. RowsStand /\ UNCHANGED settled /\ crashes' \in Nat
    BY <1>0, <1>2 DEF RecordRead, RowsStand, TypeOK
  <2>4. RequestKnows(q)
    BY <1>2, <2>1 DEF RecordRead, RequestKnows, RequestsKnow, RowArrived
  <2>5. edits = 0 /\ bounty.status = "pending_fund" => PaysFace(q)
    BY <1>2, <2>1 DEF RecordRead, PaysFace, DraftWorth
  <2>6. ~ Settling(q)
    BY <2>1 DEF Settling
  <2> HIDE DEF q
  <2> QED
    BY <2>1, <2>2, <2>3, <2>4, <2>5, <2>6, RequestStep
<1>3. ASSUME LockRead(r)
      PROVE  FundInv'
  <2> DEFINE q == [Idle EXCEPT !.pc = "lock.commit", !.pay = escrow.hash, !.amount = bounty.face]
  <2>1. q \in Request /\ q.pc = "lock.commit" /\ q.pay = escrow.hash
    BY <1>0 DEF Request, PCs, Idle, TypeOK, EscrowRow
  <2>2. Alone(r, q) /\ RowsStand /\ UNCHANGED settled /\ crashes' \in Nat
    BY <1>0, <1>3 DEF LockRead, Alone, RowsStand, TypeOK
  <2>3. RequestKnows(q) /\ ~ Settling(q)
    BY <1>3, <2>1 DEF LockRead, RequestKnows, RowArrived, Settling
  <2>4. edits = 0 /\ bounty.status = "pending_fund" => PaysFace(q)
    BY <1>3, <2>1 DEF LockRead, PaysFace, DraftWorth
  <2> HIDE DEF q
  <2> QED
    BY <2>1, <2>2, <2>3, <2>4, RequestStep
<1>4. ASSUME NEW p \in Payments, NEW amount \in TopUps, TopUpRead(r, p, amount)
      PROVE  FundInv'
  <2> DEFINE q == [Idle EXCEPT !.pc = "topup.settle", !.pay = p, !.amount = amount,
                               !.face = bounty.face]
  <2>1. q \in Request /\ q.pc = "topup.settle" /\ q.pay = p /\ q.amount = amount
    BY <1>0 DEF Request, PCs, Idle
  <2>2. Alone(r, q) /\ RowsStand /\ UNCHANGED settled /\ crashes' \in Nat
    BY <1>0, <1>4 DEF TopUpRead, Alone, RowsStand, TypeOK
  <2>3. settled[p] = 0 /\ \A s \in Requests : s # r => req[s].pay # q.pay
    BY <1>4, <2>1 DEF TopUpRead, Unspent
  <2>4. q.pay # Unpaid /\ q.amount \in Nat \ {0}
    BY <2>1
  <2>5. RequestKnows(q) /\ PaysFace(q)
    BY <2>1, <2>3, <2>4 DEF RequestKnows, PaysFace
  <2> HIDE DEF q
  <2> QED
    BY <2>1, <2>2, <2>3, <2>5, RequestStep
<1>5. ASSUME NEW to \in {"cancelled", "expired"}, VoidRead(r, to)
      PROVE  FundInv'
  <2> DEFINE q == [Idle EXCEPT !.pc = "void.write", !.to = to]
  <2>1. q \in Request /\ q.pc = "void.write" /\ q.to = to
    BY <1>0 DEF Request, PCs, Idle, BountyStatus
  <2>2. Alone(r, q) /\ RowsStand /\ UNCHANGED settled /\ crashes' \in Nat
    BY <1>0, <1>5 DEF VoidRead, Alone, RowsStand, TypeOK
  <2>3. RequestKnows(q) /\ PaysFace(q) /\ ~ Settling(q)
    BY <2>1 DEF RequestKnows, PaysFace, Settling
  <2> HIDE DEF q
  <2> QED
    BY <2>1, <2>2, <2>3, RequestStep
<1> QED
  BY <1>1, <1>2, <1>3, <1>4, <1>5

LEMMA ReturnSteps ==
    ASSUME FundInv, NEW r \in Requests,
           PayRefused(r) \/ RecordRefused(r) \/ LockRefused(r) \/ TopUpRefused(r) \/ Crash(r)
    PROVE  FundInv'
<1>1. RowsStand /\ UNCHANGED settled /\ Return(r)
  BY DEF PayRefused, RecordRefused, LockRefused, TopUpRefused, Crash, RowsStand
<1>2. crashes' \in Nat
  BY DEF PayRefused, RecordRefused, LockRefused, TopUpRefused, Crash, FundInv, TypeOK
<1> QED
  BY <1>1, <1>2, ReturnStep
-----------------------------------------------------------------------------
(* The chain moves                                                          *)

LEMMA SettleSteps ==
    ASSUME FundInv, NEW r \in Requests, PaySettle(r) \/ TopUpSettle(r)
    PROVE  FundInv'
<1> USE FundingAssumption DEF FundInv
<1> DEFINE q == req[r]
<1>1. PICK pc \in {"pay.record", "topup.apply"} :
        /\ Settle(r, pc)
        /\ q.pc = IF pc = "pay.record" THEN "pay.settle" ELSE "topup.settle"
  BY DEF PaySettle, TopUpSettle
<1>2. /\ TypeOK /\ q \in Request /\ Settling(q)
      /\ q.pay \in Payments /\ settled[q.pay] = 0 /\ q.amount \in Nat \ {0}
  BY <1>1 DEF TypeOK, Request, Settling, RequestsKnow, RequestKnows
<1>3. /\ \A p \in Payments : settled'[p] = IF p = q.pay THEN q.amount ELSE settled[p]
      /\ settled' \in [Payments -> Nat]
  BY <1>1, <1>2 DEF Settle, TypeOK
<1>4. /\ \A s \in Requests : s # r => req'[s] = req[s]
      /\ req'[r] = [q EXCEPT !.pc = pc]
      /\ RowsStand /\ UNCHANGED crashes
  BY <1>1, <1>2 DEF Settle, Goto, TypeOK, RowsStand
<1>5. req'[r] \in Request /\ req' \in [Requests -> Request]
      /\ req'[r].pc = pc /\ req'[r].pay = q.pay /\ req'[r].amount = q.amount
  BY <1>1, <1>2, <1>4 DEF Request, PCs, Settle, Goto, TypeOK
<1>6. TypeOK'
  BY <1>3, <1>4, <1>5 DEF TypeOK, RowsStand
<1>7. \A p \in Payments : settled[p] > 0 => settled'[p] = settled[p]
  BY <1>2, <1>3
<1>8. RowArrived'
  BY <1>2, <1>4, <1>7 DEF RowArrived, RowsStand, TypeOK, EscrowRow
<1>9. RequestsKnow'
  <2>1. ASSUME NEW s \in Requests, s # r
        PROVE  RequestKnows(req[s])'
    <3>1. req[s] \in Request /\ RequestKnows(req[s]) /\ req'[s] = req[s]
      BY <1>2, <1>4, <2>1 DEF TypeOK, RequestsKnow
    <3>2. Settling(req[s]) => req[s].pay # q.pay
      BY <1>2, <2>1 DEF OneCarrier
    <3>3. req[s].pay \in Payments \cup {Unpaid} /\ req[s].row.hash \in Payments \cup {Unpaid}
      BY <3>1 DEF Request, EscrowRow
    <3>4. req[s].amount \in Nat
      BY <3>1 DEF Request
    <3>5. CASE req[s].pc \in {"pay.settle", "topup.settle"}
      BY <1>3, <3>1, <3>2, <3>3, <3>5 DEF RequestKnows, Settling
    <3>6. CASE req[s].pc \notin {"pay.settle", "topup.settle"}
      BY <1>7, <3>1, <3>3, <3>4, <3>6 DEF RequestKnows
    <3> QED
      BY <3>5, <3>6
  <2>2. RequestKnows(req[r])'
    BY <1>1, <1>2, <1>3, <1>5 DEF RequestKnows
  <2> QED
    BY <2>1, <2>2 DEF RequestsKnow
<1>10. OneCarrier'
  <2>1. ~ Settling(req'[r])
    BY <1>1, <1>5 DEF Settling
  <2>2. \A s, t \in Requests :
          s # t /\ Settling(req'[s]) /\ Settling(req'[t]) => req'[s].pay # req'[t].pay
    BY <1>4, <2>1 DEF OneCarrier
  <2> QED
    BY <2>2 DEF OneCarrier, Settling
<1>11. DraftUncredited'
  BY <1>4 DEF DraftUncredited, RowsStand
<1>12. DraftWorth'
  <2> SUFFICES ASSUME edits = 0, bounty.status = "pending_fund"
               PROVE  /\ escrow.hash # Unpaid => settled'[escrow.hash] = bounty.face
                      /\ \A s \in Requests : PaysFace(req[s])'
    BY <1>4 DEF DraftWorth, RowsStand
  <2>1. escrow.hash # Unpaid => settled'[escrow.hash] = bounty.face
    BY <1>2, <1>7 DEF DraftWorth, RowArrived, TypeOK, EscrowRow
  <2>2. ASSUME NEW s \in Requests, s # r
        PROVE  PaysFace(req[s])'
    <3>1. req[s] \in Request /\ RequestKnows(req[s]) /\ PaysFace(req[s]) /\ req'[s] = req[s]
      BY <1>2, <1>4, <2>2 DEF TypeOK, RequestsKnow, DraftWorth
    <3>2. req[s].pay \in Payments \cup {Unpaid} /\ req[s].row.hash \in Payments \cup {Unpaid}
      BY <3>1 DEF Request, EscrowRow
    <3> QED
      BY <1>4, <1>7, <3>1, <3>2 DEF RequestKnows, PaysFace, RowsStand
  <2>3. PaysFace(req[r])'
    <3>1. PaysFace(q)
      BY DEF DraftWorth
    <3> QED
      BY <1>1, <1>2, <1>3, <1>4, <1>5, <3>1 DEF PaysFace, RowsStand
  <2> QED
    BY <2>1, <2>2, <2>3
<1>13. FaceIsFunded'
  <2>1. Credited' = Credited
    BY <1>4, CreditedIsSum DEF RowsStand
  <2>2. \A p \in Payments : settled[p] <= settled'[p]
    BY <1>2, <1>3 DEF TypeOK
  <2>3. FaceArrived => FaceArrived'
    BY <1>2, <1>3, <1>4, <2>2 DEF FaceArrived, RowsStand, TypeOK
  <2> QED
    BY <1>4, <2>1, <2>3 DEF FaceIsFunded, RowsStand
<1> QED
  BY <1>6, <1>8, <1>9, <1>10, <1>11, <1>12, <1>13
-----------------------------------------------------------------------------
(* The rows are written                                                     *)

\* A step that ends the draft, or moves nothing: the face, the hash, the credits
\* and the payments stand.
LEMMA EndStep ==
    ASSUME FundInv, TypeOK',
           bounty'.face = bounty.face, escrow'.hash = escrow.hash, escrow'.amount = escrow.amount,
           UNCHANGED <<credited, settled, edits>>,
           bounty'.status \in {bounty.status, "cancelled", "expired"},
           (bounty'.status = bounty.status /\ closed' = closed) \/ bounty'.status # "pending_fund",
           \A r \in Requests : req'[r] \in {req[r], Idle}
    PROVE  FundInv'
<1> USE IdleTyped DEF FundInv
<1>1. RowArrived'
  BY DEF RowArrived
<1>2. \A r \in Requests : req'[r] = req[r] \/ req'[r] = Idle
  OBVIOUS
<1>3. RequestsKnow'
  <2>1. \A r \in Requests : RequestKnows(req'[r])
    BY <1>2 DEF RequestsKnow
  <2> QED
    BY <2>1 DEF RequestsKnow, RequestKnows
<1>4. OneCarrier'
  BY <1>2 DEF OneCarrier, Settling
<1>5. DraftUncredited'
  BY DEF DraftUncredited
<1>6. DraftWorth'
  <2>1. edits = 0 /\ bounty'.status = "pending_fund" => \A r \in Requests : PaysFace(req'[r])
    BY <1>2 DEF DraftWorth
  <2> QED
    BY <2>1 DEF DraftWorth, PaysFace
<1>7. FaceIsFunded'
  <2>1. Credited' = Credited
    BY CreditedIsSum
  <2> QED
    BY <2>1 DEF FaceIsFunded, FaceArrived
<1> QED
  BY <1>1, <1>3, <1>4, <1>5, <1>6, <1>7

LEMMA EndSteps ==
    ASSUME FundInv, Delete \/ Merge \/ \E r \in Requests : VoidWrite(r)
    PROVE  FundInv'
<1> USE DEF FundInv
<1>1. ASSUME Delete
      PROVE  FundInv'
  <2>1. TypeOK'
    BY <1>1 DEF Delete, Ended, TypeOK, BountyStatus, EscrowRow, EscrowStatus
  <2> QED
    BY <1>1, <2>1, EndStep DEF Delete, Ended, TypeOK, EscrowRow
<1>2. ASSUME Merge
      PROVE  FundInv'
  <2>1. TypeOK'
    BY <1>2 DEF Merge, TypeOK
  <2> QED
    BY <1>2, <2>1, EndStep DEF Merge
<1>3. ASSUME NEW r \in Requests, VoidWrite(r)
      PROVE  FundInv'
  <2>1. req[r].to \in {"cancelled", "expired"}
    BY <1>3 DEF VoidWrite, RequestsKnow, RequestKnows
  <2>2. TypeOK'
    BY <1>3, <2>1, IdleTyped
       DEF VoidWrite, Return, Ended, TypeOK, BountyStatus, EscrowRow, EscrowStatus
  <2> QED
    BY <1>3, <2>1, <2>2, EndStep DEF VoidWrite, Return, Ended, TypeOK, EscrowRow
<1> QED
  BY <1>1, <1>2, <1>3

LEMMA EditStep ==
    ASSUME FundInv, NEW f \in Faces, EditAmount(f)
    PROVE  FundInv'
<1> USE FundingAssumption DEF FundInv
<1>1. TypeOK' /\ edits' # 0
  BY DEF EditAmount, TypeOK, EscrowRow
<1>2. RowArrived'
  BY DEF EditAmount, Editable, RowArrived, TypeOK, EscrowRow
<1>3. RequestsKnow'
  BY DEF EditAmount, RequestsKnow, RequestKnows
<1>4. OneCarrier'
  BY DEF EditAmount, OneCarrier, Settling
<1>5. DraftUncredited'
  BY DEF EditAmount, DraftUncredited, TypeOK
<1>6. DraftWorth'
  BY <1>1 DEF DraftWorth
<1>7. FaceIsFunded'
  BY <1>1 DEF EditAmount, Editable, FaceIsFunded, TypeOK
<1> QED
  BY <1>1, <1>2, <1>3, <1>4, <1>5, <1>6, <1>7

LEMMA RecordStep ==
    ASSUME FundInv, NEW r \in Requests, RecordWrite(r)
    PROVE  FundInv'
<1> USE FundingAssumption, IdleTyped DEF FundInv
<1> DEFINE q == req[r]
<1>1. /\ TypeOK /\ q \in Request /\ q.pc = "pay.write" /\ RequestKnows(q)
      /\ UNCHANGED <<bounty, credited, closed, settled, edits, crashes>>
      /\ Return(r)
  BY DEF RecordWrite, TypeOK, RequestsKnow
<1>2. /\ escrow' \in EscrowRow /\ escrow'.amount = escrow.amount
      /\ escrow'.hash = q.pay \/ (q.row.hash # Unpaid /\ escrow'.hash = q.row.hash)
  <2>1. /\ q.pay \in Payments \cup {Unpaid} /\ q.row \in EscrowRow /\ escrow \in EscrowRow
        /\ q.row.status \in EscrowStatus /\ q.row.hash \in Payments \cup {Unpaid}
    BY <1>1 DEF TypeOK, Request, EscrowRow
  <2>2. CASE q.gone
    <3> DEFINE hash == IF q.row.hash = Unpaid THEN q.pay ELSE q.row.hash
               status == IF q.row.status = "pending" THEN "failed" ELSE q.row.status
    <3>1. escrow' = [escrow EXCEPT !.hash = hash, !.status = status]
      BY <2>2 DEF RecordWrite
    <3>2. /\ hash = q.pay \/ (q.row.hash # Unpaid /\ hash = q.row.hash)
          /\ hash \in Payments \cup {Unpaid} /\ status \in EscrowStatus
      BY <2>1 DEF EscrowStatus
    <3> HIDE DEF q, hash, status
    <3> QED
      BY <2>1, <3>1, <3>2 DEF EscrowRow
  <2>3. CASE ~ q.gone
    <3>1. escrow' = [escrow EXCEPT !.hash = q.pay]
      BY <2>3 DEF RecordWrite
    <3> HIDE DEF q
    <3> QED
      BY <2>1, <3>1 DEF EscrowRow
  <2> QED
    BY <2>2, <2>3
<1>3. TypeOK'
  BY <1>1, <1>2 DEF TypeOK, Return
<1>4. RowArrived'
  BY <1>1, <1>2 DEF RowArrived, RequestKnows
<1>5. \A s \in Requests : req'[s] = req[s] \/ req'[s] = Idle
  BY <1>1 DEF Return, TypeOK
<1>6. RequestsKnow'
  <2>1. \A s \in Requests : RequestKnows(req'[s])
    BY <1>5 DEF RequestsKnow
  <2> QED
    BY <1>1, <2>1 DEF RequestsKnow, RequestKnows
<1>7. OneCarrier'
  <2>1. ~ Settling(Idle)
    BY DEF Settling
  <2>2. \A s, t \in Requests :
          s # t /\ Settling(req'[s]) /\ Settling(req'[t]) => req'[s].pay # req'[t].pay
    BY <1>5, <2>1 DEF OneCarrier
  <2> QED
    BY <2>2 DEF OneCarrier, Settling
<1>8. DraftUncredited'
  BY <1>1 DEF DraftUncredited
<1>9. DraftWorth'
  <2>1. SUFFICES ASSUME edits = 0, bounty.status = "pending_fund"
                 PROVE  /\ settled[escrow'.hash] = bounty.face
                        /\ \A s \in Requests : PaysFace(req[s])'
    BY <1>1 DEF DraftWorth
  <2>2. \A s \in Requests : PaysFace(req[s])
    BY <2>1 DEF DraftWorth
  <2>3. settled[escrow'.hash] = bounty.face
    BY <1>1, <1>2, <2>2 DEF PaysFace
  <2>4. \A s \in Requests : PaysFace(req'[s])
    BY <1>5, <2>2
  <2> QED
    BY <1>1, <2>3, <2>4 DEF PaysFace
<1>10. FaceIsFunded'
  <2>1. Credited' = Credited
    BY <1>1, CreditedIsSum
  <2> QED
    BY <1>1, <1>2, <2>1 DEF FaceIsFunded, FaceArrived
<1> QED
  BY <1>3, <1>4, <1>6, <1>7, <1>8, <1>9, <1>10
-----------------------------------------------------------------------------
(* Money is credited                                                        *)

\* The poster's lock credits the face to the recorded payment, and nothing else
\* was credited before.
LEMMA LockStep ==
    ASSUME FundInv, NEW r \in Requests, LockCommit(r)
    PROVE  FundInv'
<1> USE FundingAssumption, IdleTyped DEF FundInv
<1> DEFINE q == req[r]
<1>1. /\ TypeOK /\ q \in Request /\ q.pc = "lock.commit" /\ RequestKnows(q)
      /\ bounty.status = "pending_fund" /\ Return(r)
      /\ UNCHANGED <<closed, settled, edits, crashes>>
  BY DEF LockCommit, Lockable, TypeOK, RequestsKnow
<1>2. q.pay \in Payments /\ settled[q.pay] > 0
  BY <1>1 DEF Request, RequestKnows
<1>3. \A p \in Payments : credited[p] = 0
  BY <1>1 DEF DraftUncredited
<1>4. bounty.face \in Nat \ {0}
  BY <1>1 DEF RowArrived, TypeOK
<1>5. /\ credited' \in [Payments -> Nat]
      /\ \A p \in Payments : credited'[p] = IF p = q.pay THEN bounty.face ELSE 0
  BY <1>1, <1>2, <1>3, <1>4 DEF LockCommit, TypeOK
<1>6. /\ bounty' \in [status: BountyStatus, face: Nat, deleted: BOOLEAN]
      /\ bounty'.status = "funded" /\ bounty'.face = bounty.face
  BY <1>1 DEF LockCommit, TypeOK, BountyStatus
<1>7. /\ escrow' \in EscrowRow
      /\ escrow'.hash = q.pay /\ escrow'.amount = bounty.face
  BY <1>1, <1>2, <1>4 DEF LockCommit, EscrowRow, EscrowStatus
<1>8. TypeOK'
  BY <1>1, <1>5, <1>6, <1>7 DEF TypeOK, Return
<1>9. RowArrived'
  BY <1>1, <1>2, <1>4, <1>6, <1>7 DEF RowArrived
<1>10. \A s \in Requests : req'[s] = req[s] \/ req'[s] = Idle
  BY <1>1 DEF Return, TypeOK
<1>11. RequestsKnow'
  <2>1. \A s \in Requests : RequestKnows(req'[s])
    BY <1>10 DEF RequestsKnow
  <2> QED
    BY <1>1, <2>1 DEF RequestsKnow, RequestKnows
<1>12. OneCarrier'
  <2>1. ~ Settling(Idle)
    BY DEF Settling
  <2>2. \A s, t \in Requests :
          s # t /\ Settling(req'[s]) /\ Settling(req'[t]) => req'[s].pay # req'[t].pay
    BY <1>10, <2>1 DEF OneCarrier
  <2> QED
    BY <2>2 DEF OneCarrier, Settling
<1>13. DraftUncredited' /\ DraftWorth'
  BY <1>6 DEF DraftUncredited, DraftWorth
<1>14. FaceIsFunded'
  <2>1. SumOf(credited', Payments) = SumOf(credited, Payments) - credited[q.pay] + credited'[q.pay]
    <3>1. \A p \in Payments : credited[p] \in Nat /\ credited'[p] \in Nat
      BY <1>1, <1>5 DEF TypeOK
    <3>2. \A p \in Payments \ {q.pay} : credited'[p] = credited[p]
      BY <1>3, <1>5
    <3> HIDE DEF q
    <3> QED
      BY <1>2, <3>1, <3>2, SumUpdate
  <2>2. SumOf(credited, Payments) = 0
    BY <1>3, SumZero
  <2>3. Credited' = bounty.face
    BY <1>2, <1>3, <1>4, <1>5, <2>1, <2>2, CreditedIsSum
  <2>4. edits = 0 => FaceArrived'
    <3> SUFFICES ASSUME edits = 0
                 PROVE  \A p \in Payments : credited'[p] <= settled'[p]
      BY DEF FaceArrived
    <3>1. settled[q.pay] = bounty.face
      BY <1>1 DEF DraftWorth, PaysFace
    <3> QED
      BY <1>1, <1>2, <1>4, <1>5, <3>1 DEF TypeOK
  <2> QED
    BY <1>1, <1>6, <1>7, <2>3, <2>4 DEF FaceIsFunded
<1> QED
  BY <1>8, <1>9, <1>11, <1>12, <1>13, <1>14

\* A top-up raises the face that is in force by what it credits.
LEMMA TopUpStep ==
    ASSUME FundInv, NEW r \in Requests, TopUpApply(r)
    PROVE  FundInv'
<1> USE FundingAssumption, IdleTyped DEF FundInv
<1> DEFINE q == req[r]
<1>1. /\ TypeOK /\ q \in Request /\ q.pc = "topup.apply" /\ RequestKnows(q)
      /\ bounty.status = "funded" /\ Return(r)
      /\ UNCHANGED <<closed, settled, edits, crashes>>
  BY DEF TopUpApply, TopUpOpen, TypeOK, RequestsKnow
<1>2. /\ q.pay \in Payments /\ settled[q.pay] = q.amount /\ q.amount \in Nat \ {0}
      /\ bounty.face \in Nat \ {0}
  BY <1>1 DEF Request, RequestKnows, RowArrived, TypeOK
<1>3. CASE credited[q.pay] # 0
  <2>1. UNCHANGED <<bounty, escrow, credited>>
    BY <1>3 DEF TopUpApply
  <2> QED
    BY <1>1, <2>1, ReturnStep DEF RowsStand, TypeOK
<1>4. CASE credited[q.pay] = 0
  <2>1. /\ credited' \in [Payments -> Nat]
        /\ \A p \in Payments : credited'[p] = IF p = q.pay THEN q.amount ELSE credited[p]
    BY <1>1, <1>2, <1>4 DEF TopUpApply, TypeOK
  <2>2. /\ bounty' \in [status: BountyStatus, face: Nat, deleted: BOOLEAN]
        /\ bounty'.status = "funded" /\ bounty'.face = bounty.face + q.amount
    BY <1>1, <1>2, <1>4 DEF TopUpApply, RaisedFace, TypeOK
  <2>3. /\ escrow' \in EscrowRow
        /\ escrow'.hash = escrow.hash /\ escrow'.amount = bounty.face + q.amount
    BY <1>1, <1>2, <1>4 DEF TopUpApply, RaisedFace, TypeOK, EscrowRow
  <2>4. TypeOK'
    BY <1>1, <2>1, <2>2, <2>3 DEF TypeOK, Return
  <2>5. RowArrived'
    BY <1>1, <1>2, <2>2, <2>3 DEF RowArrived
  <2>6. \A s \in Requests : req'[s] = req[s] \/ req'[s] = Idle
    BY <1>1 DEF Return, TypeOK
  <2>7. RequestsKnow'
    <3>1. \A s \in Requests : RequestKnows(req'[s])
      BY <2>6 DEF RequestsKnow
    <3> QED
      BY <1>1, <3>1 DEF RequestsKnow, RequestKnows
  <2>8. OneCarrier'
    <3>1. ~ Settling(Idle)
      BY DEF Settling
    <3>2. \A s, t \in Requests :
            s # t /\ Settling(req'[s]) /\ Settling(req'[t]) => req'[s].pay # req'[t].pay
      BY <2>6, <3>1 DEF OneCarrier
    <3> QED
      BY <3>2 DEF OneCarrier, Settling
  <2>9. DraftUncredited' /\ DraftWorth'
    BY <2>2 DEF DraftUncredited, DraftWorth
  <2>10. FaceIsFunded'
    <3>1. SumOf(credited', Payments) = SumOf(credited, Payments) - credited[q.pay] + credited'[q.pay]
      <4>1. \A p \in Payments : credited[p] \in Nat /\ credited'[p] \in Nat
        BY <1>1, <2>1 DEF TypeOK
      <4>2. \A p \in Payments \ {q.pay} : credited'[p] = credited[p]
        BY <2>1
      <4> DEFINE y == q.pay
      <4>3. y \in Payments /\ IsFiniteSet(Payments)
        BY <1>2, FundingAssumption
      <4>4. \A p \in Payments \ {y} : credited'[p] = credited[p]
        BY <4>2
      <4> HIDE DEF q, y
      <4>5. SumOf(credited', Payments) = SumOf(credited, Payments) - credited[y] + credited'[y]
        BY <4>1, <4>3, <4>4, SumUpdate
      <4> QED
        BY <4>5 DEF y
    <3>2. Credited = bounty.face
      BY <1>1 DEF FaceIsFunded
    <3>3. Credited' = bounty.face + q.amount
      BY <1>2, <1>4, <2>1, <3>1, <3>2, CreditedIsSum
    <3>4. edits = 0 => FaceArrived'
      BY <1>1, <1>2, <2>1 DEF FaceIsFunded, FaceArrived, TypeOK
    <3> QED
      BY <1>1, <2>2, <2>3, <3>3, <3>4 DEF FaceIsFunded
  <2> QED
    BY <2>4, <2>5, <2>7, <2>8, <2>9, <2>10
<1> QED
  BY <1>3, <1>4
-----------------------------------------------------------------------------
LEMMA FundStep == FundInv /\ [Next]_vars => FundInv'
<1> SUFFICES ASSUME FundInv, [Next]_vars
             PROVE  FundInv'
  OBVIOUS
<1>1. ASSUME NEW r \in Requests, Pay(r)
      PROVE  FundInv'
  BY <1>1, ReadSteps, ReturnSteps, SettleSteps, RecordStep DEF Pay
<1>2. ASSUME NEW r \in Requests, Lock(r)
      PROVE  FundInv'
  BY <1>2, ReadSteps, ReturnSteps, LockStep DEF Lock
<1>3. ASSUME NEW r \in Requests, TopUp(r)
      PROVE  FundInv'
  BY <1>3, ReadSteps, ReturnSteps, SettleSteps, TopUpStep DEF TopUp
<1>4. ASSUME NEW r \in Requests, Void(r)
      PROVE  FundInv'
  BY <1>4, ReadSteps, EndSteps DEF Void
<1>5. ASSUME NEW r \in Requests, Crash(r)
      PROVE  FundInv'
  BY <1>5, ReturnSteps
<1>6. ASSUME Delete \/ Merge \/ \E f \in Faces : EditAmount(f)
      PROVE  FundInv'
  BY <1>6, EndSteps, EditStep
<1>7. CASE UNCHANGED vars
  <2>1. UNCHANGED <<bounty, escrow, credited, closed, settled, req, edits, crashes>>
    BY <1>7 DEF vars
  <2>2. TypeOK'
    BY <2>1 DEF FundInv, TypeOK
  <2> QED
    BY <2>1, <2>2, EndStep
<1> QED
  BY <1>1, <1>2, <1>3, <1>4, <1>5, <1>6, <1>7 DEF Next

\* The rows of the inbound half keep their types, for any payments and requests
\* in flight.
THEOREM FundTypeCorrect == Spec => []TypeOK
<1>1. FundInv => TypeOK
  BY DEF FundInv
<1> QED
  BY <1>1, InitFund, FundStep, PTL DEF Spec

\* The face of a funded bounty is the sum of its contributions
\* (topUpFundedBounty, recordLockContribution), however many funders race, and
\* all of it arrived unless the draft was edited.
THEOREM FaceFunded == Spec => []FaceIsFunded
<1>1. FundInv => FaceIsFunded
  BY DEF FundInv
<1> QED
  BY <1>1, InitFund, FundStep, PTL DEF Spec

\* After the winning merge or the deletion no request that is still in flight
\* raises the face or credits a payment (assertFundedTopUpOpen, Lockable).
THEOREM NoFundsAfter == Spec => NoFundsAfterTheEnd
<1>1. FundInv /\ [Next]_vars =>
        [closed \/ bounty.deleted => UNCHANGED <<bounty.face, credited>>]_vars
  <2> SUFFICES ASSUME FundInv, Next, closed \/ bounty.deleted
               PROVE  UNCHANGED <<bounty.face, credited>>
    OBVIOUS
  <2>1. bounty \in [status: BountyStatus, face: Nat, deleted: BOOLEAN]
    BY DEF FundInv, TypeOK
  <2>2. ASSUME NEW r \in Requests, Pay(r) \/ Crash(r) \/ LockRead(r) \/ LockRefused(r)
        PROVE  UNCHANGED <<bounty.face, credited>>
    BY <2>2 DEF Pay, PayRead, PaySettle, PayRefused, RecordRefused, RecordRead, RecordWrite,
                Settle, Crash, LockRead, LockRefused
  <2>3. ASSUME NEW r \in Requests, LockCommit(r)
        PROVE  FALSE
    BY <2>3 DEF LockCommit, Lockable, FundInv, DraftUncredited
  <2>4. ASSUME NEW r \in Requests, TopUp(r)
        PROVE  UNCHANGED <<bounty.face, credited>>
    BY <2>4 DEF TopUp, TopUpRead, TopUpSettle, TopUpApply, TopUpRefused, TopUpOpen, Settle
  <2>5. ASSUME NEW r \in Requests, Void(r)
        PROVE  UNCHANGED <<bounty.face, credited>>
    BY <2>1, <2>5 DEF Void, VoidRead, VoidWrite
  <2>6. ASSUME NEW f \in Faces, EditAmount(f)
        PROVE  FALSE
    BY <2>6 DEF EditAmount, Editable, FundInv, DraftUncredited
  <2>7. CASE Delete \/ Merge
    BY <2>1, <2>7 DEF Delete, Merge
  <2> QED
    BY <2>2, <2>3, <2>4, <2>5, <2>6, <2>7 DEF Next, Lock
<1> QED
  BY <1>1, InitFund, FundStep, PTL DEF Spec, NoFundsAfterTheEnd
-----------------------------------------------------------------------------
(* FundingMarkers                                                           *)


Owns(b, h) == ~ HashUsedByOtherBounty(b, h, fmCredit, fmEscrow)

Legs(b) == LegsOf(b, fmCredit, fmEscrow[b])

Backed(b, h) ==
    /\ Owns(b, h)
    /\ \E leg \in Legs(b) : leg.hash = h /\ MatchPayerFundingTransfer(fmChain[h], leg)

\* x402 settled the lock hash for this bounty.
HeadBacked(b) ==
    fmEscrow[b].head =>
        /\ fmEscrow[b].hash \in Hashes
        /\ fmCredit[fmEscrow[b].hash].bounty \in {b, NoBounty}
        /\ \A leg \in Legs(b) :
             leg.hash = fmEscrow[b].hash => Arrived(fmChain[leg.hash], leg.amount)

LocksDiffer ==
    \A b, c \in Funded : b # c /\ fmEscrow[b].hash = fmEscrow[c].hash => fmEscrow[b].hash = NoHash

RowsBacked == \A b \in Funded : HeadBacked(b) /\ \A h \in fmEscrow[b].marks : Backed(b, h)

HistoryBacked ==
    \A b \in Funded : \A h \in Hashes :
        <<b, h>> \in fmCounted => Backed(b, h) \/ (fmEscrow[b].head /\ fmEscrow[b].hash = h)

\* The row of a run is stale in its marks, and in its amount after a top-up.
RunCarries(q) ==
    /\ q.row.head = fmEscrow[q.bounty].head
    /\ q.row.hash = fmEscrow[q.bounty].hash
    /\ q.row.payer = fmEscrow[q.bounty].payer
    /\ CreditsOf(q.bounty, fmCredit) = {} => q.row.amount = fmEscrow[q.bounty].amount
    /\ \A h \in q.row.marks : Backed(q.bounty, h)

RunLegs(q) ==
    \A leg \in q.left :
        /\ leg \in Legs(q.bounty)
        /\ q.script /\ leg.hash \notin q.used => Owns(q.bounty, leg.hash)

\* Nobody else has the transaction of a top-up yet.
RunPaid(q) ==
    /\ q.hash \in Hashes /\ q.amount \in Nat \ {0} /\ q.payer \in Payers
    /\ fmChain[q.hash] = {[usdc |-> TRUE, from |-> q.payer, value |-> q.amount, index |-> 0]}
    /\ fmCredit[q.hash].bounty = NoBounty
    /\ \A c \in Funded : fmEscrow[c].hash # q.hash

RunBacked(q) ==
    /\ q.pc # "idle" => q.bounty \in Funded
    /\ q.pc = "credits" => ~ q.script
    /\ q.pc \in {"credits", "leg", "write", "commit"} => RunCarries(q)
    /\ q.pc \in {"leg", "write"} => RunLegs(q)
    /\ q.pc \in {"settled", "commit"} => RunPaid(q)

RunsBacked ==
    /\ \A r \in MarkRuns : RunBacked(fmRun[r])
    /\ \A r, s \in MarkRuns :
         /\ r # s
         /\ fmRun[r].pc \in {"settled", "commit"} /\ fmRun[s].pc \in {"settled", "commit"}
         => fmRun[r].hash # fmRun[s].hash

MarkInv == LocksDiffer /\ RowsBacked /\ HistoryBacked /\ RunsBacked
-----------------------------------------------------------------------------
(* Types                                                                    *)

LEMMA LegsTyped ==
    ASSUME NEW b, NEW credit \in [Hashes -> CreditRow], NEW row \in MarkedRow
    PROVE  LegsOf(b, credit, row) \in SUBSET Leg
<1>1. \A h \in CreditsOf(b, credit) :
        [hash |-> h, amount |-> credit[h].amount, payer |-> credit[h].payer] \in Leg
  BY DEF CreditsOf, CreditRow, Leg
<1>2. \A h \in {row.hash} \ {NoHash} :
        [hash |-> h, amount |-> row.amount, payer |-> row.payer] \in Leg
  BY DEF MarkedRow, Leg
<1> QED
  BY <1>1, <1>2 DEF LegsOf

LEMMA LegIs ==
    ASSUME NEW b \in Funded, NEW credit \in [Hashes -> CreditRow], NEW row \in MarkedRow,
           NEW leg \in Leg
    PROVE  leg \in LegsOf(b, credit, row) <=>
             \/ /\ credit[leg.hash].bounty = b
                /\ credit[leg.hash].amount = leg.amount
                /\ credit[leg.hash].payer = leg.payer
             \/ /\ CreditsOf(b, credit) = {}
                /\ row.hash = leg.hash /\ row.amount = leg.amount /\ row.payer = leg.payer
<1>1. leg = [hash |-> leg.hash, amount |-> leg.amount, payer |-> leg.payer] /\ leg.hash \in Hashes
  BY DEF Leg
<1>2. leg.hash # NoHash
  BY <1>1, MarkAssumption
<1>3. CASE CreditsOf(b, credit) # {}
  <2>1. leg \in LegsOf(b, credit, row) <=>
          \E h \in CreditsOf(b, credit) :
            leg = [hash |-> h, amount |-> credit[h].amount, payer |-> credit[h].payer]
    BY <1>3 DEF LegsOf
  <2> QED
    BY <1>1, <1>3, <2>1 DEF CreditsOf
<1>4. CASE CreditsOf(b, credit) = {}
  <2>1. leg \in LegsOf(b, credit, row) <=>
          \E h \in {row.hash} \ {NoHash} :
            leg = [hash |-> h, amount |-> row.amount, payer |-> row.payer]
    BY <1>4 DEF LegsOf
  <2> QED
    BY <1>1, <1>2, <1>4, <2>1 DEF CreditsOf
<1> QED
  BY <1>3, <1>4

LEMMA MarkIdleTyped == MarkIdle \in MarkRun
BY DEF MarkIdle, MarkRun, MarkPCs, NoMarkedRow, MarkedRow

LEMMA MarkTypeInit == MarkInit => MarkTypeOK
<1> SUFFICES ASSUME MarkInit
             PROVE  MarkTypeOK
  OBVIOUS
<1>1. PICK s \in Legacy : fmChain = s.chain /\ fmCredit = s.credit /\ fmEscrow = s.escrow
  BY DEF MarkInit
<1>2. LegacyState(s)
  BY <1>1, MarkAssumption
<1> QED
  BY <1>1, <1>2, MarkIdleTyped DEF MarkInit, MarkTypeOK, LegacyState, Counting

LEMMA MarkTypeStep ==
    ASSUME MarkTypeOK, NEW r \in MarkRuns, MarkStep(r),
           fmRun[r].pc # "idle" => fmRun[r].bounty \in Funded,
           fmRun[r].pc \in {"settled", "commit"} =>
               fmRun[r].hash \in Hashes /\ fmRun[r].amount \in Nat
    PROVE  MarkTypeOK'
<1> USE DEF MarkTypeOK
<1> DEFINE q == fmRun[r]
<1>0. q \in MarkRun /\ q.row \in MarkedRow
  BY DEF MarkRun
<1>1. ASSUME NEW b \in Funded, ClaimReadsEscrow(r, b)
      PROVE  MarkTypeOK'
  BY <1>1, <1>0, MarkIdleTyped DEF ClaimReadsEscrow, MarkRunOnly, MarkIdle, MarkRun, MarkPCs
<1>2. ASSUME NEW b \in Funded, ScriptReads(r, b)
      PROVE  MarkTypeOK'
  <2>1. LegsOf(b, fmCredit, fmEscrow[b]) \in SUBSET Leg
    BY LegsTyped
  <2> QED
    BY <1>2, <1>0, <2>1, MarkIdleTyped DEF ScriptReads, MarkRunOnly, MarkIdle, MarkRun, MarkPCs
<1>3. ASSUME ClaimReadsCredits(r)
      PROVE  MarkTypeOK'
  <2>1. LegsOf(q.bounty, fmCredit, q.row) \in SUBSET Leg
    BY <1>0, LegsTyped
  <2> QED
    BY <1>3, <1>0, <2>1 DEF ClaimReadsCredits, MarkRunOnly, MarkRun, MarkPCs
<1>4. ASSUME NEW leg \in q.left, SkipLeg(r, leg)
      PROVE  MarkTypeOK'
  BY <1>4, <1>0 DEF SkipLeg, MarkRunOnly, MarkRun
<1>5. ASSUME NEW leg \in q.left, VerifyLeg(r, leg)
      PROVE  MarkTypeOK'
  <2>1. leg.hash \in Hashes
    BY <1>0 DEF MarkRun, Leg
  <2>2. [q.row EXCEPT !.marks = @ \cup {leg.hash}] \in MarkedRow
    BY <1>0, <2>1 DEF MarkedRow
  <2> DEFINE p == [q EXCEPT !.left = @ \ {leg}, !.row.marks = @ \cup {leg.hash},
                            !.pc = IF q.script THEN "leg" ELSE "write"]
  <2>3. p \in MarkRun
    BY <1>0, <2>2 DEF MarkRun, MarkPCs
  <2>4. fmRun' = [fmRun EXCEPT ![r] = p]
    BY <1>5 DEF VerifyLeg
  <2> HIDE DEF p
  <2> QED
    BY <1>5, <2>3, <2>4 DEF VerifyLeg, MarkRunOnly
<1>6. ASSUME WritePaymentId(q.bounty, q.row), q.pc # "idle"
      PROVE  /\ fmChain' \in [Hashes -> SUBSET Log] /\ fmCredit' \in [Hashes -> CreditRow]
             /\ fmEscrow' \in [Funded -> MarkedRow] /\ fmCounted' \in SUBSET (Funded \X Hashes)
  <2>1. [fmEscrow[q.bounty] EXCEPT !.head = q.row.head, !.marks = q.row.marks] \in MarkedRow
    BY <1>0, <1>6 DEF MarkedRow
  <2>2. fmEscrow' \in [Funded -> MarkedRow]
    BY <1>6, <2>1 DEF WritePaymentId
  <2> QED
    BY <1>6, <2>2 DEF WritePaymentId, Counting
<1>7. ASSUME WriteMark(r)
      PROVE  MarkTypeOK'
  BY <1>7, <1>6, <1>0 DEF WriteMark, MarkRun, MarkPCs
<1>8. ASSUME ScriptApplies(r)
      PROVE  MarkTypeOK'
  BY <1>8, <1>6, <1>0, MarkIdleTyped DEF ScriptApplies, MarkRunEnds
<1>9. ASSUME MarkRunLeaves(r)
      PROVE  MarkTypeOK'
  BY <1>9, MarkIdleTyped DEF MarkRunLeaves, MarkRunEnds, MarkRunOnly
<1>10. ASSUME NEW b \in Funded, NEW h \in Hashes, NEW amount \in TopUpAmounts,
              NEW payer \in Payers, TopUpSettles(r, b, h, amount, payer)
       PROVE  MarkTypeOK'
  <2>1. amount \in Nat
    BY MarkAssumption
  <2>2. {[usdc |-> TRUE, from |-> payer, value |-> amount, index |-> 0]} \in SUBSET Log
    BY <2>1 DEF Log
  <2>3. [MarkIdle EXCEPT !.pc = "settled", !.bounty = b, !.hash = h, !.amount = amount,
                         !.payer = payer] \in MarkRun
    BY <2>1, MarkIdleTyped DEF MarkIdle, MarkRun, MarkPCs
  <2> QED
    BY <1>10, <2>2, <2>3 DEF TopUpSettles
<1>11. ASSUME TopUpReads(r)
       PROVE  MarkTypeOK'
  BY <1>11, <1>0 DEF TopUpReads, MarkRunOnly, MarkRun, MarkPCs
<1>12. ASSUME TopUpCommits(r)
       PROVE  MarkTypeOK'
  <2>1. q.bounty \in Funded /\ q.hash \in Hashes /\ q.amount \in Nat
        /\ q.payer \in Payers \cup {NoPayer}
    BY <1>12, <1>0 DEF TopUpCommits, MarkRun
  <2>2. fmEscrow[q.bounty] \in MarkedRow
    BY <2>1
  <2>3. [bounty |-> q.bounty, amount |-> fmEscrow[q.bounty].amount,
         payer |-> fmEscrow[q.bounty].payer] \in CreditRow
    BY <2>1, <2>2 DEF MarkedRow, CreditRow
  <2>4. [bounty |-> q.bounty, amount |-> q.amount, payer |-> TopUpPayer(q)] \in CreditRow
    BY <2>1 DEF CreditRow, TopUpPayer
  <2>5. fmCredit' \in [Hashes -> CreditRow]
    BY <1>12, <2>3, <2>4 DEF TopUpCommits
  <2>6. [fmEscrow[q.bounty] EXCEPT !.head = q.row.head, !.marks = q.row.marks \cup {q.hash},
                                   !.amount = @ + q.amount] \in MarkedRow
    <3>1. fmEscrow[q.bounty].amount + q.amount \in Nat
      BY <2>1, <2>2 DEF MarkedRow
    <3>2. \A sum \in Nat :
            [fmEscrow[q.bounty] EXCEPT !.head = q.row.head, !.marks = q.row.marks \cup {q.hash},
                                       !.amount = sum] \in MarkedRow
      BY <1>0, <2>1, <2>2 DEF MarkedRow
    <3> QED
      BY <3>1, <3>2
  <2>7. fmEscrow' \in [Funded -> MarkedRow]
    BY <1>12, <2>6 DEF TopUpCommits
  <2> QED
    BY <1>12, <2>5, <2>7, MarkIdleTyped DEF TopUpCommits, MarkRunEnds, Counting
<1> QED
  BY <1>1, <1>2, <1>3, <1>4, <1>5, <1>7, <1>8, <1>9, <1>10, <1>11, <1>12 DEF MarkStep
-----------------------------------------------------------------------------
(* What every step leaves alone                                             *)

Keeps ==
    /\ \A b \in Funded :
         /\ fmEscrow'[b].head = fmEscrow[b].head
         /\ fmEscrow'[b].hash = fmEscrow[b].hash
         /\ fmEscrow'[b].payer = fmEscrow[b].payer
         /\ CreditsOf(b, fmCredit') = {} =>
              CreditsOf(b, fmCredit) = {} /\ fmEscrow'[b].amount = fmEscrow[b].amount
         /\ \A leg \in Legs(b) :
              leg \in Legs(b)' /\ (Owns(b, leg.hash) => Owns(b, leg.hash)')
         /\ \A leg \in Legs(b)' : leg.hash = fmEscrow[b].hash => leg \in Legs(b)
         /\ fmEscrow[b].hash \in Hashes /\ fmCredit[fmEscrow[b].hash].bounty \in {b, NoBounty} =>
              fmCredit'[fmEscrow[b].hash].bounty \in {b, NoBounty}
    /\ \A h \in Hashes : fmChain[h] = {} \/ fmChain'[h] = fmChain[h]

LEMMA RowsKeep ==
    ASSUME fmCredit' = fmCredit,
           \A b \in Funded : /\ fmEscrow'[b].head = fmEscrow[b].head
                             /\ fmEscrow'[b].hash = fmEscrow[b].hash
                             /\ fmEscrow'[b].payer = fmEscrow[b].payer
                             /\ fmEscrow'[b].amount = fmEscrow[b].amount,
           \A h \in Hashes : fmChain[h] = {} \/ fmChain'[h] = fmChain[h]
    PROVE  Keeps
<1>1. \A b \in Funded : Legs(b)' = Legs(b)
  BY DEF Legs, LegsOf
<1>2. ASSUME NEW b \in Funded, NEW h
      PROVE  Owns(b, h)' <=> Owns(b, h)
  BY DEF Owns, HashUsedByOtherBounty
<1> QED
  BY <1>1, <1>2 DEF Keeps

LEMMA CommitKeeps ==
    ASSUME MarkTypeOK, MarkTypeOK', LocksDiffer, NEW r \in MarkRuns, TopUpCommits(r),
           fmRun[r].bounty \in Funded, RunPaid(fmRun[r]),
           fmRun[r].row.head = fmEscrow[fmRun[r].bounty].head
    PROVE  Keeps
<1> DEFINE q == fmRun[r]
           a == q.bounty
           e == fmEscrow[a]
           backfills == CreditsOf(a, fmCredit) = {} /\ e.hash # NoHash
<1>0. q.hash \in Hashes /\ fmCredit[q.hash].bounty = NoBounty /\ a # NoBounty
      /\ \A c \in Funded : fmEscrow[c].hash # q.hash
  BY MarkAssumption DEF RunPaid
<1>1. \A c \in Funded : /\ fmEscrow'[c].head = fmEscrow[c].head
                        /\ fmEscrow'[c].hash = fmEscrow[c].hash
                        /\ fmEscrow'[c].payer = fmEscrow[c].payer
                        /\ c # a => fmEscrow'[c].amount = fmEscrow[c].amount
  BY DEF TopUpCommits, MarkTypeOK, MarkedRow
<1>2. fmCredit'[q.hash].bounty = a
  BY <1>0 DEF TopUpCommits
<1>3. /\ e.hash \in Hashes \cup {NoHash}
      /\ backfills => /\ e.hash \in Hashes
                      /\ fmCredit[e.hash].bounty = NoBounty
                      /\ fmCredit'[e.hash] = [bounty |-> a, amount |-> e.amount, payer |-> e.payer]
  <2>1. e.hash \in Hashes \cup {NoHash}
    BY DEF MarkTypeOK, MarkedRow
  <2> QED
    BY <1>0, <2>1 DEF TopUpCommits
<1>4. \A h \in Hashes : h # q.hash /\ ~ (backfills /\ h = e.hash) => fmCredit'[h] = fmCredit[h]
  BY DEF TopUpCommits
<1>5. \A c \in Funded \ {a}, h \in Hashes :
        /\ fmCredit'[h].bounty = c <=> fmCredit[h].bounty = c
        /\ fmCredit[h].bounty = c => fmCredit'[h] = fmCredit[h]
  BY <1>0, <1>2, <1>3, <1>4, MarkAssumption
<1>6. \A h \in Hashes : fmCredit[h].bounty = a => fmCredit'[h] = fmCredit[h]
  BY <1>0, <1>3, <1>4
<1>7. CreditsOf(a, fmCredit') # {}
  BY <1>0, <1>2 DEF CreditsOf
<1>8. \A c \in Funded \ {a} : CreditsOf(c, fmCredit') = CreditsOf(c, fmCredit)
  BY <1>5 DEF CreditsOf
<1>9. ASSUME NEW c \in Funded, NEW leg \in Legs(c)
      PROVE  leg \in Legs(c)'
  <2>1. fmEscrow[c] \in MarkedRow /\ fmEscrow'[c] \in MarkedRow
        /\ fmCredit \in [Hashes -> CreditRow] /\ fmCredit' \in [Hashes -> CreditRow]
    BY DEF MarkTypeOK
  <2>2. leg \in Leg /\ leg.hash \in Hashes
    BY <2>1, LegsTyped DEF Legs, Leg
  <2>3. \/ /\ fmCredit[leg.hash].bounty = c
           /\ fmCredit[leg.hash].amount = leg.amount
           /\ fmCredit[leg.hash].payer = leg.payer
        \/ /\ CreditsOf(c, fmCredit) = {}
           /\ fmEscrow[c].hash = leg.hash
           /\ fmEscrow[c].amount = leg.amount /\ fmEscrow[c].payer = leg.payer
    BY <2>1, <2>2, LegIs DEF Legs
  <2>4. \/ /\ fmCredit'[leg.hash].bounty = c
           /\ fmCredit'[leg.hash].amount = leg.amount
           /\ fmCredit'[leg.hash].payer = leg.payer
        \/ /\ CreditsOf(c, fmCredit') = {}
           /\ fmEscrow'[c].hash = leg.hash
           /\ fmEscrow'[c].amount = leg.amount /\ fmEscrow'[c].payer = leg.payer
    <3>1. CASE fmCredit[leg.hash].bounty = c
      BY <3>1, <2>2, <2>3, <1>5, <1>6 DEF CreditsOf
    <3>2. CASE fmCredit[leg.hash].bounty # c /\ c # a
      BY <3>2, <2>2, <2>3, <1>1, <1>8
    <3>3. CASE fmCredit[leg.hash].bounty # c /\ c = a
      <4>1. backfills /\ leg.hash = e.hash
        BY <3>3, <2>2, <2>3, MarkAssumption
      <4> QED
        BY <4>1, <3>3, <2>3, <1>3
    <3> QED
      BY <3>1, <3>2, <3>3
  <2>5. leg \in LegsOf(c, fmCredit', fmEscrow'[c])
    BY <2>1, <2>2, <2>4, LegIs
  <2> QED
    BY <2>5 DEF Legs
<1>10. ASSUME NEW c \in Funded, NEW leg \in Legs(c), Owns(c, leg.hash)
       PROVE  Owns(c, leg.hash)'
  <2>1. leg.hash \in Hashes
    BY LegsTyped DEF Legs, Leg, MarkTypeOK
  <2>2. fmCredit[leg.hash].bounty \in {c, NoBounty}
        /\ \A d \in Funded \ {c} : fmEscrow[d].hash # leg.hash
    BY <1>10 DEF Owns, HashUsedByOtherBounty
  <2>3. leg.hash # q.hash \/ c = a
    <3>1. \/ fmCredit[leg.hash].bounty = c
          \/ fmEscrow[c].hash = leg.hash
      BY <2>1, LegsTyped, LegIs DEF Legs, MarkTypeOK
    <3> QED
      BY <3>1, <1>0, MarkAssumption
  <2>4. fmCredit'[leg.hash].bounty \in {c, NoBounty}
    BY <2>1, <2>2, <2>3, <1>2, <1>3, <1>4
  <2> QED
    BY <2>2, <2>4, <1>1 DEF Owns, HashUsedByOtherBounty
<1>11. ASSUME NEW c \in Funded, NEW leg \in Legs(c)', leg.hash = fmEscrow[c].hash
       PROVE  leg \in Legs(c)
  <2>1. fmEscrow[c] \in MarkedRow /\ fmEscrow'[c] \in MarkedRow
        /\ fmCredit \in [Hashes -> CreditRow] /\ fmCredit' \in [Hashes -> CreditRow]
    BY DEF MarkTypeOK
  <2>2. leg \in Leg /\ leg.hash \in Hashes /\ leg \in LegsOf(c, fmCredit', fmEscrow'[c])
    BY <2>1, LegsTyped DEF Legs, Leg
  <2>3. \/ /\ fmCredit'[leg.hash].bounty = c
           /\ fmCredit'[leg.hash].amount = leg.amount
           /\ fmCredit'[leg.hash].payer = leg.payer
        \/ /\ CreditsOf(c, fmCredit') = {}
           /\ fmEscrow'[c].hash = leg.hash
           /\ fmEscrow'[c].amount = leg.amount /\ fmEscrow'[c].payer = leg.payer
    BY <2>1, <2>2, LegIs
  <2>4. \/ /\ fmCredit[leg.hash].bounty = c
           /\ fmCredit[leg.hash].amount = leg.amount
           /\ fmCredit[leg.hash].payer = leg.payer
        \/ /\ CreditsOf(c, fmCredit) = {}
           /\ fmEscrow[c].hash = leg.hash
           /\ fmEscrow[c].amount = leg.amount /\ fmEscrow[c].payer = leg.payer
    <3>1. CASE c # a
      BY <3>1, <2>2, <2>3, <1>1, <1>5, <1>8
    <3>2. CASE c = a /\ backfills
      BY <3>2, <2>2, <2>3, <1>3, <1>7, <1>11
    <3>3. CASE c = a /\ ~ backfills
      BY <3>3, <2>2, <2>3, <1>0, <1>4, <1>7, <1>11
    <3> QED
      BY <3>1, <3>2, <3>3
  <2> QED
    BY <2>1, <2>2, <2>4, LegIs DEF Legs
<1>12. ASSUME NEW c \in Funded, fmEscrow[c].hash \in Hashes,
              fmCredit[fmEscrow[c].hash].bounty \in {c, NoBounty}
       PROVE  fmCredit'[fmEscrow[c].hash].bounty \in {c, NoBounty}
  <2>1. fmEscrow[c].hash # q.hash
    BY <1>0
  <2>2. fmEscrow[c].hash = e.hash /\ backfills => c = a
    BY DEF LocksDiffer
  <2> QED
    BY <2>1, <2>2, <1>12, <1>3, <1>4
<1>13. fmChain' = fmChain
  BY DEF TopUpCommits
<1> HIDE DEF q, a, e, backfills
<1> QED
  BY <1>1, <1>7, <1>8, <1>9, <1>10, <1>11, <1>12, <1>13 DEF Keeps

LEMMA StepKeeps ==
    ASSUME MarkTypeOK, MarkTypeOK', LocksDiffer, RunsBacked, NEW r \in MarkRuns, MarkStep(r)
    PROVE  Keeps
<1> DEFINE q == fmRun[r]
<1>0. RunBacked(q) /\ q.row \in MarkedRow
  BY DEF RunsBacked, MarkTypeOK, MarkRun
<1>1. ASSUME MarkRunOnly
      PROVE  Keeps
  BY <1>1, RowsKeep DEF MarkRunOnly
<1>2. ASSUME WritePaymentId(q.bounty, q.row), q.pc \in {"leg", "write"}
      PROVE  Keeps
  <2>1. q.bounty \in Funded /\ q.row.head = fmEscrow[q.bounty].head
    BY <1>0, <1>2 DEF RunBacked, RunCarries
  <2>2. \A b \in Funded : /\ fmEscrow'[b].head = fmEscrow[b].head
                          /\ fmEscrow'[b].hash = fmEscrow[b].hash
                          /\ fmEscrow'[b].payer = fmEscrow[b].payer
                          /\ fmEscrow'[b].amount = fmEscrow[b].amount
    BY <1>2, <2>1 DEF WritePaymentId, MarkTypeOK, MarkedRow
  <2> QED
    BY <1>2, <2>2, RowsKeep DEF WritePaymentId
<1>3. ASSUME NEW b \in Funded, NEW h \in Hashes, NEW amount \in TopUpAmounts,
             NEW payer \in Payers, TopUpSettles(r, b, h, amount, payer)
      PROVE  Keeps
  <2>1. \A g \in Hashes : fmChain[g] = {} \/ fmChain'[g] = fmChain[g]
    BY <1>3 DEF TopUpSettles, MarkTypeOK
  <2> QED
    BY <1>3, <2>1, RowsKeep DEF TopUpSettles
<1>4. ASSUME TopUpCommits(r)
      PROVE  Keeps
  <2>1. q.bounty \in Funded /\ RunPaid(q) /\ q.row.head = fmEscrow[q.bounty].head
    BY <1>0, <1>4 DEF TopUpCommits, RunBacked, RunCarries
  <2> QED
    BY <1>4, <2>1, CommitKeeps
<1> QED
  BY <1>1, <1>2, <1>3, <1>4 DEF MarkStep, ClaimReadsEscrow, ScriptReads, ClaimReadsCredits,
     SkipLeg, VerifyLeg, WriteMark, ScriptApplies, MarkRunLeaves, TopUpReads
-----------------------------------------------------------------------------
(* What is backed stays backed                                              *)

LEMMA MatchArrived ==
    ASSUME NEW logs, NEW leg, MatchPayerFundingTransfer(logs, leg)
    PROVE  Arrived(logs, leg.amount) /\ logs # {}
<1>1. PICK log \in logs :
        {l \in logs : l.usdc /\ l.from = leg.payer /\ l.value >= leg.amount} = {log}
  BY DEF MatchPayerFundingTransfer
<1>2. log \in {l \in logs : l.usdc /\ l.from = leg.payer /\ l.value >= leg.amount}
  BY <1>1
<1> QED
  BY <1>2 DEF Arrived

LEMMA BackedStays ==
    ASSUME MarkTypeOK, Keeps, NEW b \in Funded, NEW h \in Hashes, Backed(b, h)
    PROVE  Backed(b, h)'
<1>1. PICK leg \in Legs(b) : leg.hash = h /\ MatchPayerFundingTransfer(fmChain[h], leg)
  BY DEF Backed
<1>2. fmChain'[h] = fmChain[h]
  BY <1>1, MatchArrived DEF Keeps
<1>3. leg \in Legs(b)' /\ Owns(b, h)'
  BY <1>1 DEF Keeps, Backed
<1> QED
  BY <1>1, <1>2, <1>3 DEF Backed

LEMMA HeadStays ==
    ASSUME MarkTypeOK, Keeps, NEW b \in Funded, HeadBacked(b)
    PROVE  HeadBacked(b)'
<1> SUFFICES ASSUME fmEscrow'[b].head
             PROVE  /\ fmEscrow'[b].hash \in Hashes
                    /\ fmCredit'[fmEscrow'[b].hash].bounty \in {b, NoBounty}
                    /\ \A leg \in Legs(b)' :
                         leg.hash = fmEscrow'[b].hash => Arrived(fmChain'[leg.hash], leg.amount)
  BY DEF HeadBacked
<1>1. fmEscrow[b].head /\ fmEscrow'[b].hash = fmEscrow[b].hash
  BY DEF Keeps
<1>2. fmEscrow'[b].hash \in Hashes /\ fmCredit'[fmEscrow'[b].hash].bounty \in {b, NoBounty}
  BY <1>1 DEF HeadBacked, Keeps
<1>3. ASSUME NEW leg \in Legs(b)', leg.hash = fmEscrow'[b].hash
      PROVE  Arrived(fmChain'[leg.hash], leg.amount)
  <2>1. leg \in Legs(b)
    BY <1>1, <1>3 DEF Keeps
  <2>2. Arrived(fmChain[leg.hash], leg.amount)
    BY <1>1, <1>3, <2>1 DEF HeadBacked
  <2>3. fmChain'[leg.hash] = fmChain[leg.hash]
    BY <1>2, <1>3, <2>2 DEF Keeps, Arrived
  <2> QED
    BY <2>2, <2>3
<1> QED
  BY <1>2, <1>3

LEMMA CarriesStays ==
    ASSUME MarkTypeOK, Keeps, NEW r \in MarkRuns, fmRun[r].bounty \in Funded,
           RunCarries(fmRun[r]), fmRun'[r].bounty = fmRun[r].bounty, fmRun'[r].row = fmRun[r].row
    PROVE  RunCarries(fmRun[r])'
<1>1. fmRun[r].row.marks \in SUBSET Hashes
  BY DEF MarkTypeOK, MarkRun, MarkedRow
<1>2. \A h \in fmRun[r].row.marks : Backed(fmRun[r].bounty, h)'
  BY <1>1, BackedStays DEF RunCarries
<1>3. \A h \in fmRun'[r].row.marks : Backed(fmRun[r].bounty, h)'
  BY <1>2
<1> QED
  BY <1>3 DEF RunCarries, Keeps

LEMMA LegsStay ==
    ASSUME MarkTypeOK, Keeps, NEW r \in MarkRuns, fmRun[r].bounty \in Funded, RunLegs(fmRun[r]),
           fmRun'[r].bounty = fmRun[r].bounty, fmRun'[r].left \in SUBSET fmRun[r].left,
           fmRun'[r].script = fmRun[r].script, fmRun'[r].used = fmRun[r].used
    PROVE  RunLegs(fmRun[r])'
BY DEF RunLegs, Keeps

LEMMA PaidStays ==
    ASSUME MarkTypeOK, Keeps, NEW r \in MarkRuns, RunPaid(fmRun[r]),
           fmCredit'[fmRun[r].hash].bounty = NoBounty,
           fmRun'[r].hash = fmRun[r].hash, fmRun'[r].amount = fmRun[r].amount,
           fmRun'[r].payer = fmRun[r].payer
    PROVE  RunPaid(fmRun[r])'
<1>1. fmChain'[fmRun[r].hash] = fmChain[fmRun[r].hash]
  BY DEF RunPaid, Keeps
<1> QED
  BY <1>1 DEF RunPaid, Keeps
-----------------------------------------------------------------------------
(* The invariant is inductive                                               *)

LEMMA MarkInvInit == MarkInit => MarkInv
<1> SUFFICES ASSUME MarkInit
             PROVE  MarkInv
  OBVIOUS
<1>0. MarkTypeOK
  BY MarkTypeInit
<1>1. PICK s \in Legacy : fmChain = s.chain /\ fmCredit = s.credit /\ fmEscrow = s.escrow
  BY DEF MarkInit
<1>2. LegacyState(s)
  BY <1>1, MarkAssumption
<1>3. LocksDiffer
  BY <1>1, <1>2 DEF LocksDiffer, LegacyState
<1>4. \A b \in Funded : fmEscrow[b].marks = {} /\ HeadBacked(b)
  BY <1>1, <1>2 DEF LegacyState, HeadBacked, Legs
<1>5. \A b \in Funded, h \in Hashes :
        <<b, h>> \in fmCounted => fmEscrow[b].head /\ fmEscrow[b].hash = h
  BY <1>4 DEF MarkInit, Counting, Counts, FundHashIsVerified
<1>6. RunBacked(MarkIdle)
  BY DEF RunBacked, MarkIdle
<1>7. \A r \in MarkRuns : RunBacked(fmRun[r]) /\ fmRun[r].pc = "idle"
  BY <1>6 DEF MarkInit, MarkIdle
<1>8. RunsBacked
  BY <1>7 DEF RunsBacked
<1> QED
  BY <1>3, <1>4, <1>5, <1>8 DEF MarkInv, RowsBacked, HistoryBacked

\* The marks a step may put on a row are carried by the run, or the top-up's own.
LEMMA RowsStep ==
    ASSUME MarkTypeOK, MarkTypeOK', MarkInv, Keeps, NEW r \in MarkRuns, MarkStep(r)
    PROVE  RowsBacked'
<1> DEFINE q == fmRun[r]
<1>0. RunBacked(q) /\ q.row \in MarkedRow
  BY DEF MarkInv, RunsBacked, MarkTypeOK, MarkRun
<1>7. PICK a, g : a = q.bounty /\ g = q.hash
  OBVIOUS
<1>1. \A b \in Funded : HeadBacked(b)'
  BY HeadStays DEF MarkInv, RowsBacked
<1>2. ASSUME NEW b \in Funded, NEW h \in fmEscrow[b].marks
      PROVE  Backed(b, h)'
  <2>1. h \in Hashes
    BY DEF MarkTypeOK, MarkedRow
  <2> QED
    BY <2>1, BackedStays DEF MarkInv, RowsBacked
<1>3. ASSUME q.pc \in {"leg", "write", "commit"}, NEW h \in q.row.marks
      PROVE  a \in Funded /\ Backed(a, h)'
  <2>1. h \in Hashes /\ a \in Funded /\ Backed(a, h)
    BY <1>0, <1>3, <1>7 DEF MarkedRow, RunBacked, RunCarries
  <2> QED
    BY <2>1, BackedStays
<1>4. ASSUME fmEscrow' = fmEscrow
      PROVE  RowsBacked'
  <2>1. \A b \in Funded : \A h \in fmEscrow'[b].marks : Backed(b, h)'
    BY <1>2, <1>4
  <2> QED
    BY <1>1, <2>1 DEF RowsBacked
<1>5. ASSUME WritePaymentId(q.bounty, q.row), q.pc \in {"leg", "write"}
      PROVE  RowsBacked'
  <2>1. \A b \in Funded : b # a => fmEscrow'[b].marks = fmEscrow[b].marks
    BY <1>5, <1>7 DEF WritePaymentId, MarkTypeOK
  <2>2. a \in Funded => fmEscrow'[a].marks = q.row.marks
    BY <1>5, <1>7 DEF WritePaymentId, MarkTypeOK, MarkedRow
  <2>3. \A b \in Funded : \A h \in fmEscrow'[b].marks : Backed(b, h)'
    BY <1>2, <1>3, <1>5, <2>1, <2>2
  <2> QED
    BY <1>1, <2>3 DEF RowsBacked
<1>6. ASSUME TopUpCommits(r)
      PROVE  RowsBacked'
  <2>0. q.pc = "commit"
    BY <1>6 DEF TopUpCommits
  <2>1. a \in Funded /\ g \in Hashes /\ RunPaid(q)
    BY <1>0, <1>7, <2>0 DEF RunBacked, RunPaid
  <2>2. \A b \in Funded : b # a => fmEscrow'[b].marks = fmEscrow[b].marks
    BY <1>6, <1>7 DEF TopUpCommits, MarkTypeOK
  <2>3. fmEscrow'[a].marks = q.row.marks \cup {g}
    BY <1>6, <1>7, <2>1 DEF TopUpCommits, MarkTypeOK, MarkedRow
  <2>4. Backed(a, g)'
    <3>0. PICK leg : leg = [hash |-> g, amount |-> q.amount, payer |-> q.payer]
      OBVIOUS
    <3> DEFINE log == [usdc |-> TRUE, from |-> q.payer, value |-> q.amount, index |-> 0]
    <3>1. fmCredit'[g] = [bounty |-> a, amount |-> q.amount, payer |-> q.payer]
      BY <1>6, <1>7, <2>1 DEF TopUpCommits, RunPaid, TopUpPayer
    <3>2. leg \in Legs(a)'
      <4>1. leg \in Leg /\ fmEscrow'[a] \in MarkedRow /\ fmCredit' \in [Hashes -> CreditRow]
        BY <2>1, <3>0 DEF Leg, RunPaid, MarkTypeOK
      <4> QED
        BY <2>1, <3>0, <3>1, <4>1, LegIs DEF Legs
    <3>3. Owns(a, g)'
      BY <1>7, <2>1, <3>1 DEF Owns, HashUsedByOtherBounty, RunPaid, Keeps
    <3>4. fmChain'[g] = {log}
      BY <1>6, <1>7, <2>1 DEF TopUpCommits, RunPaid
    <3>5. MatchPayerFundingTransfer({log}, leg)
      <4>1. q.payer # NoPayer /\ q.amount > 0 /\ q.amount >= q.amount
        BY <2>1, <3>0, MarkAssumption DEF RunPaid
      <4>2. {l \in {log} : l.usdc /\ l.from = leg.payer /\ l.value >= leg.amount} = {log}
        BY <3>0, <4>1
      <4> QED
        BY <3>0, <4>1, <4>2 DEF MatchPayerFundingTransfer
    <3>6. leg.hash = g /\ MatchPayerFundingTransfer(fmChain'[g], leg)
      BY <3>0, <3>4, <3>5
    <3> HIDE DEF log
    <3> QED
      BY <3>2, <3>3, <3>6 DEF Backed
  <2>5. \A b \in Funded : \A h \in fmEscrow'[b].marks : Backed(b, h)'
    BY <1>2, <1>3, <2>0, <2>2, <2>3, <2>4
  <2> QED
    BY <1>1, <2>5 DEF RowsBacked
<1> QED
  BY <1>4, <1>5, <1>6 DEF MarkStep, ClaimReadsEscrow, ScriptReads, ClaimReadsCredits, SkipLeg,
     VerifyLeg, WriteMark, ScriptApplies, MarkRunLeaves, TopUpReads, TopUpSettles, MarkRunOnly

\* What counts now counts by a mark, which is backed, or by the head.
LEMMA HistoryStep ==
    ASSUME MarkTypeOK, MarkInv, Keeps, RowsBacked', NEW r \in MarkRuns, MarkStep(r)
    PROVE  HistoryBacked'
<1>1. fmCounted' \in {fmCounted, fmCounted \cup Counting(fmCredit', fmEscrow')}
  BY DEF MarkStep, ClaimReadsEscrow, ScriptReads, ClaimReadsCredits, SkipLeg, VerifyLeg,
     WriteMark, ScriptApplies, MarkRunLeaves, TopUpReads, TopUpSettles, TopUpCommits,
     MarkRunOnly, WritePaymentId
<1>2. ASSUME NEW b \in Funded, NEW h \in Hashes, <<b, h>> \in fmCounted
      PROVE  Backed(b, h)' \/ (fmEscrow'[b].head /\ fmEscrow'[b].hash = h)
  <2>1. CASE Backed(b, h)
    BY <2>1, BackedStays
  <2>2. CASE fmEscrow[b].head /\ fmEscrow[b].hash = h
    BY <2>2 DEF Keeps
  <2> QED
    BY <1>2, <2>1, <2>2 DEF MarkInv, HistoryBacked
<1>3. ASSUME NEW b \in Funded, NEW h \in Hashes, <<b, h>> \in Counting(fmCredit', fmEscrow')
      PROVE  Backed(b, h)' \/ (fmEscrow'[b].head /\ fmEscrow'[b].hash = h)
  <2>1. FundHashIsVerified(h, fmEscrow'[b])
    BY <1>3 DEF Counting, Counts
  <2> QED
    BY <2>1 DEF FundHashIsVerified, RowsBacked
<1>4. \A b \in Funded : \A h \in Hashes :
        <<b, h>> \in fmCounted' => Backed(b, h)' \/ (fmEscrow'[b].head /\ fmEscrow'[b].hash = h)
  BY <1>1, <1>2, <1>3
<1> QED
  BY <1>4 DEF HistoryBacked

\* A run that does not move keeps its promises: a top-up of another run has
\* another hash, and adds no credit but its own and that of a lock.
LEMMA OthersStay ==
    ASSUME MarkTypeOK, MarkInv, Keeps, NEW r \in MarkRuns, MarkStep(r),
           NEW s \in MarkRuns, fmRun'[s] = fmRun[s],
           fmRun[s].pc \in {"settled", "commit"} => fmCredit'[fmRun[s].hash].bounty = NoBounty
    PROVE  RunBacked(fmRun[s])'
<1> DEFINE q == fmRun[s]
<1>0. RunBacked(q)
  BY DEF MarkInv, RunsBacked
<1>1. q.pc \in {"credits", "leg", "write", "commit"} => RunCarries(fmRun[s])'
  BY <1>0, CarriesStays DEF RunBacked
<1>2. q.pc \in {"leg", "write"} => RunLegs(fmRun[s])'
  BY <1>0, LegsStay DEF RunBacked
<1>3. q.pc \in {"settled", "commit"} => RunPaid(fmRun[s])'
  BY <1>0, PaidStays DEF RunBacked
<1> QED
  BY <1>0, <1>1, <1>2, <1>3 DEF RunBacked

\* No step credits the hash of a top-up but the top-up itself.
LEMMA UnpaidStays ==
    ASSUME MarkTypeOK, MarkInv, NEW r \in MarkRuns, MarkStep(r), NEW s \in MarkRuns,
           fmRun[s].pc \in {"settled", "commit"}, r # s \/ ~ TopUpCommits(r)
    PROVE  fmCredit'[fmRun[s].hash].bounty = NoBounty
<1>1. RunPaid(fmRun[s])
  BY DEF MarkInv, RunsBacked, RunBacked
<1>2. CASE fmCredit' = fmCredit
  BY <1>1, <1>2 DEF RunPaid
<1>3. CASE TopUpCommits(r) /\ r # s
  <2>1. fmRun[r].hash # fmRun[s].hash /\ fmRun[r].bounty \in Funded
    BY <1>3 DEF TopUpCommits, MarkInv, RunsBacked, RunBacked
  <2>2. fmCredit'[fmRun[s].hash] = fmCredit[fmRun[s].hash]
    BY <1>1, <1>3, <2>1 DEF TopUpCommits, RunPaid
  <2> QED
    BY <1>1, <2>2 DEF RunPaid
<1> QED
  BY <1>2, <1>3 DEF MarkStep, ClaimReadsEscrow, ScriptReads, ClaimReadsCredits, SkipLeg,
     VerifyLeg, WriteMark, ScriptApplies, MarkRunLeaves, TopUpReads, TopUpSettles, MarkRunOnly,
     WritePaymentId

LEMMA IdleBacked ==
    ASSUME NEW r \in MarkRuns, fmRun'[r] = MarkIdle
    PROVE  RunBacked(fmRun[r])'
BY DEF RunBacked, MarkIdle

LEMMA MoverStays ==
    ASSUME MarkTypeOK, MarkTypeOK', MarkInv, Keeps, RowsBacked', NEW r \in MarkRuns, MarkStep(r)
    PROVE  RunBacked(fmRun[r])'
<1> DEFINE q == fmRun[r]
<1>0. RunBacked(q) /\ q \in MarkRun /\ q.row \in MarkedRow
  BY DEF MarkInv, RunsBacked, MarkTypeOK, MarkRun
<1>1. ASSUME NEW b \in Funded, ClaimReadsEscrow(r, b)
      PROVE  RunBacked(fmRun[r])'
  <2>1. fmRun'[r] = [MarkIdle EXCEPT !.pc = "credits", !.bounty = b, !.row = fmEscrow[b]]
        /\ fmEscrow' = fmEscrow
    BY <1>1 DEF ClaimReadsEscrow, MarkRunOnly, MarkTypeOK
  <2>2. fmRun'[r].pc = "credits" /\ fmRun'[r].bounty = b /\ fmRun'[r].row = fmEscrow'[b]
        /\ ~ fmRun'[r].script
    BY <2>1 DEF MarkIdle
  <2>3. RunCarries(fmRun[r])'
    BY <2>2 DEF RunCarries, RowsBacked
  <2> QED
    BY <2>2, <2>3 DEF RunBacked
<1>2. ASSUME NEW b \in Funded, ScriptReads(r, b)
      PROVE  RunBacked(fmRun[r])'
  <2>1. fmRun'[r] = [MarkIdle EXCEPT !.pc = "leg", !.script = TRUE, !.bounty = b,
                      !.row = fmEscrow[b], !.left = LegsOf(b, fmCredit, fmEscrow[b]),
                      !.used = {h \in Hashes : HashUsedByOtherBounty(b, h, fmCredit, fmEscrow)}]
        /\ fmEscrow' = fmEscrow /\ fmCredit' = fmCredit
    BY <1>2 DEF ScriptReads, MarkRunOnly, MarkTypeOK
  <2>2. /\ fmRun'[r].pc = "leg" /\ fmRun'[r].bounty = b /\ fmRun'[r].row = fmEscrow'[b]
        /\ fmRun'[r].left = Legs(b)'
        /\ fmRun'[r].used = {h \in Hashes : HashUsedByOtherBounty(b, h, fmCredit', fmEscrow')}
    BY <2>1 DEF MarkIdle, Legs
  <2>3. RunCarries(fmRun[r])'
    BY <2>2 DEF RunCarries, RowsBacked
  <2>4. \A leg \in Legs(b)' : leg.hash \in Hashes
    BY LegsTyped DEF Legs, Leg, MarkTypeOK
  <2>5. RunLegs(fmRun[r])'
    BY <2>2, <2>4 DEF RunLegs, Owns
  <2> QED
    BY <2>2, <2>3, <2>5 DEF RunBacked
<1>3. ASSUME ClaimReadsCredits(r)
      PROVE  RunBacked(fmRun[r])'
  <2>1. fmRun'[r] = [q EXCEPT !.pc = "leg", !.left = LegsOf(q.bounty, fmCredit, q.row)]
        /\ fmEscrow' = fmEscrow /\ fmCredit' = fmCredit /\ q.pc = "credits"
    BY <1>3 DEF ClaimReadsCredits, MarkRunOnly, MarkTypeOK
  <2>2. /\ fmRun'[r].pc = "leg" /\ fmRun'[r].bounty = q.bounty /\ fmRun'[r].row = q.row
        /\ fmRun'[r].left = LegsOf(q.bounty, fmCredit, q.row) /\ ~ fmRun'[r].script
        /\ q.bounty \in Funded
    BY <1>0, <2>1 DEF MarkRun, RunBacked
  <2>3. RunCarries(q)
    BY <1>0, <2>1 DEF RunBacked
  <2>4. LegsOf(q.bounty, fmCredit, q.row) = LegsOf(q.bounty, fmCredit, fmEscrow[q.bounty])
    BY <2>3 DEF RunCarries, LegsOf
  <2>5. RunLegs(fmRun[r])'
    BY <2>1, <2>2, <2>4 DEF RunLegs, Legs
  <2> QED
    BY <2>2, <2>3, <2>5, CarriesStays DEF RunBacked
<1>4. ASSUME NEW leg \in q.left, SkipLeg(r, leg)
      PROVE  RunBacked(fmRun[r])'
  <2>1. fmRun'[r] = [q EXCEPT !.left = @ \ {leg}] /\ q.pc = "leg"
    BY <1>4 DEF SkipLeg, MarkTypeOK
  <2>2. /\ fmRun'[r].pc = "leg" /\ fmRun'[r].bounty = q.bounty /\ fmRun'[r].row = q.row
        /\ fmRun'[r].left \in SUBSET q.left /\ fmRun'[r].script = q.script
        /\ fmRun'[r].used = q.used
    BY <1>0, <2>1 DEF MarkRun
  <2>3. q.bounty \in Funded /\ RunCarries(q) /\ RunLegs(q)
    BY <1>0, <2>1 DEF RunBacked
  <2> QED
    BY <2>2, <2>3, CarriesStays, LegsStay DEF RunBacked
<1>5. ASSUME NEW leg \in q.left, VerifyLeg(r, leg)
      PROVE  RunBacked(fmRun[r])'
  <2>1. /\ fmRun'[r] = [q EXCEPT !.left = @ \ {leg}, !.row.marks = @ \cup {leg.hash},
                                !.pc = IF q.script THEN "leg" ELSE "write"]
        /\ q.pc = "leg" /\ fmChain' = fmChain
        /\ fmCredit' = fmCredit /\ fmEscrow' = fmEscrow
    BY <1>5 DEF VerifyLeg, MarkRunOnly, MarkTypeOK
  <2>2. /\ fmRun'[r].pc \in {"leg", "write"} /\ fmRun'[r].bounty = q.bounty
        /\ fmRun'[r].row.head = q.row.head /\ fmRun'[r].row.hash = q.row.hash
        /\ fmRun'[r].row.payer = q.row.payer /\ fmRun'[r].row.amount = q.row.amount
        /\ fmRun'[r].row.marks = q.row.marks \cup {leg.hash}
        /\ fmRun'[r].left \in SUBSET q.left /\ fmRun'[r].script = q.script
        /\ fmRun'[r].used = q.used
    BY <1>0, <2>1 DEF MarkRun, MarkedRow
  <2>3. q.bounty \in Funded /\ RunCarries(q) /\ RunLegs(q)
    BY <1>0, <2>1 DEF RunBacked
  <2>4. PICK a : a = q.bounty
    OBVIOUS
  <2>5. Backed(a, leg.hash)
    <3>1. Owns(a, leg.hash) /\ leg \in Legs(a)
      BY <1>5, <2>3, <2>4 DEF VerifyLeg, RunLegs, Owns
    <3>2. MatchPayerFundingTransfer(fmChain[leg.hash], leg)
      BY <1>5 DEF VerifyLeg
    <3> QED
      BY <3>1, <3>2 DEF Backed
  <2>6. \A h \in q.row.marks \cup {leg.hash} : Backed(a, h)'
    <3>1. \A h \in q.row.marks \cup {leg.hash} : h \in Hashes /\ Backed(a, h)
      BY <1>0, <2>3, <2>4, <2>5 DEF RunCarries, MarkedRow, MarkRun, Leg
    <3> QED
      BY <2>3, <2>4, <3>1, BackedStays
  <2>7. RunCarries(fmRun[r])'
    BY <2>1, <2>2, <2>3, <2>4, <2>6 DEF RunCarries
  <2> QED
    BY <2>2, <2>3, <2>7, LegsStay DEF RunBacked
<1>6. ASSUME WriteMark(r)
      PROVE  RunBacked(fmRun[r])'
  <2>1. fmRun'[r] = [q EXCEPT !.pc = "leg"] /\ q.pc = "write"
    BY <1>6 DEF WriteMark, MarkTypeOK
  <2>2. /\ fmRun'[r].pc = "leg" /\ fmRun'[r].bounty = q.bounty /\ fmRun'[r].row = q.row
        /\ fmRun'[r].left \in SUBSET q.left /\ fmRun'[r].script = q.script
        /\ fmRun'[r].used = q.used
    BY <1>0, <2>1 DEF MarkRun
  <2>3. q.bounty \in Funded /\ RunCarries(q) /\ RunLegs(q)
    BY <1>0, <2>1 DEF RunBacked
  <2> QED
    BY <2>2, <2>3, CarriesStays, LegsStay DEF RunBacked
<1>7. ASSUME MarkRunEnds(r)
      PROVE  RunBacked(fmRun[r])'
  BY <1>7, IdleBacked DEF MarkRunEnds, MarkTypeOK
<1>8. ASSUME NEW b \in Funded, NEW h \in Hashes, NEW amount \in TopUpAmounts,
             NEW payer \in Payers, TopUpSettles(r, b, h, amount, payer)
      PROVE  RunBacked(fmRun[r])'
  <2>1. fmRun'[r] = [MarkIdle EXCEPT !.pc = "settled", !.bounty = b, !.hash = h,
                                     !.amount = amount, !.payer = payer]
        /\ fmChain'[h] = {[usdc |-> TRUE, from |-> payer, value |-> amount, index |-> 0]}
    BY <1>8 DEF TopUpSettles, MarkTypeOK
  <2>2. /\ fmRun'[r].pc = "settled" /\ fmRun'[r].bounty = b /\ fmRun'[r].hash = h
        /\ fmRun'[r].amount = amount /\ fmRun'[r].payer = payer
    BY <2>1 DEF MarkIdle
  <2>3. RunPaid(fmRun[r])'
    BY <1>8, <2>1, <2>2, MarkAssumption DEF RunPaid, TopUpSettles
  <2> QED
    BY <2>2, <2>3 DEF RunBacked
<1>9. ASSUME TopUpReads(r)
      PROVE  RunBacked(fmRun[r])'
  <2>1. fmRun'[r] = [q EXCEPT !.pc = "commit", !.row = fmEscrow[q.bounty]] /\ q.pc = "settled"
        /\ fmEscrow' = fmEscrow /\ fmCredit' = fmCredit
    BY <1>9 DEF TopUpReads, MarkRunOnly, MarkTypeOK
  <2>2. PICK a : a = q.bounty
    OBVIOUS
  <2>3. /\ fmRun'[r].pc = "commit" /\ fmRun'[r].bounty = a /\ fmRun'[r].row = fmEscrow'[a]
        /\ fmRun'[r].hash = q.hash /\ fmRun'[r].amount = q.amount /\ fmRun'[r].payer = q.payer
    BY <1>0, <2>1, <2>2 DEF MarkRun
  <2>4. a \in Funded /\ RunPaid(q)
    BY <1>0, <2>1, <2>2 DEF RunBacked
  <2>5. RunCarries(fmRun[r])'
    BY <2>3, <2>4 DEF RunCarries, RowsBacked
  <2>6. RunPaid(fmRun[r])'
    BY <2>1, <2>3, <2>4, PaidStays DEF RunPaid
  <2> QED
    BY <2>3, <2>4, <2>5, <2>6 DEF RunBacked
<1> QED
  BY <1>1, <1>2, <1>3, <1>4, <1>5, <1>6, <1>7, <1>8, <1>9
  DEF MarkStep, ScriptApplies, MarkRunLeaves, TopUpCommits

LEMMA RunsStep ==
    ASSUME MarkTypeOK, MarkTypeOK', MarkInv, Keeps, RowsBacked', NEW r \in MarkRuns, MarkStep(r)
    PROVE  RunsBacked'
<1>1. \A s \in MarkRuns \ {r} : fmRun'[s] = fmRun[s]
  BY DEF MarkTypeOK, MarkStep, ClaimReadsEscrow, ScriptReads, ClaimReadsCredits, SkipLeg,
     VerifyLeg, WriteMark, ScriptApplies, MarkRunLeaves, TopUpReads, TopUpSettles, TopUpCommits,
     MarkRunEnds
<1>2. ASSUME NEW s \in MarkRuns \ {r}
      PROVE  RunBacked(fmRun[s])'
  <2>1. fmRun[s].pc \in {"settled", "commit"} => fmCredit'[fmRun[s].hash].bounty = NoBounty
    BY UnpaidStays
  <2> QED
    BY <1>1, <2>1, OthersStay
<1>3. RunBacked(fmRun[r])'
  BY MoverStays
<1>4. ASSUME NEW s \in MarkRuns \ {r}, fmRun'[r].pc \in {"settled", "commit"},
             fmRun[s].pc \in {"settled", "commit"}
      PROVE  fmRun'[r].hash # fmRun[s].hash
  <2>1. CASE fmRun[r].pc \in {"settled", "commit"} /\ fmRun'[r].hash = fmRun[r].hash
    BY <1>4, <2>1 DEF MarkInv, RunsBacked
  <2>2. CASE \E b \in Funded, h \in Hashes, amount \in TopUpAmounts, payer \in Payers :
               TopUpSettles(r, b, h, amount, payer)
    <3>1. fmChain[fmRun[s].hash] # {}
      BY <1>4 DEF MarkInv, RunsBacked, RunBacked, RunPaid
    <3>2. fmChain[fmRun'[r].hash] = {}
      BY <2>2 DEF TopUpSettles, MarkTypeOK, MarkIdle
    <3> QED
      BY <3>1, <3>2
  <2>3. CASE MarkRunEnds(r)
    BY <1>4, <2>3 DEF MarkRunEnds, MarkTypeOK, MarkIdle
  <2>4. CASE fmRun'[r].pc \in {"credits", "leg", "write"}
    BY <1>4, <2>4
  <2>5. CASE TopUpReads(r)
    BY <1>4, <2>1, <2>5 DEF TopUpReads, MarkTypeOK, MarkRun
  <2>6. fmRun'[r].pc \in {"credits", "leg", "write"} \/ MarkRunEnds(r) \/ TopUpReads(r)
        \/ \E b \in Funded, h \in Hashes, amount \in TopUpAmounts, payer \in Payers :
             TopUpSettles(r, b, h, amount, payer)
    <3>1. CASE ClaimReadsCredits(r) \/ WriteMark(r)
      BY <3>1 DEF MarkTypeOK, MarkRun, ClaimReadsCredits, WriteMark
    <3>2. ASSUME NEW b \in Funded, ClaimReadsEscrow(r, b) \/ ScriptReads(r, b)
          PROVE  fmRun'[r].pc \in {"credits", "leg"}
      <4>1. CASE ClaimReadsEscrow(r, b)
        BY <4>1 DEF MarkTypeOK, MarkIdle, ClaimReadsEscrow
      <4>2. CASE ScriptReads(r, b)
        BY <4>2 DEF MarkTypeOK, MarkIdle, ScriptReads
      <4> QED
        BY <3>2, <4>1, <4>2
    <3>3. CASE \E leg \in fmRun[r].left : SkipLeg(r, leg) \/ VerifyLeg(r, leg)
      BY <3>3 DEF MarkTypeOK, MarkRun, SkipLeg, VerifyLeg
    <3> QED
      BY <3>1, <3>2, <3>3 DEF MarkStep, ScriptApplies, MarkRunLeaves, TopUpCommits
  <2> QED
    BY <2>2, <2>3, <2>4, <2>5, <2>6
<1>5. \A s \in MarkRuns : RunBacked(fmRun[s])'
  BY <1>2, <1>3
<1>6. \A s, t \in MarkRuns :
        /\ s # t
        /\ fmRun'[s].pc \in {"settled", "commit"} /\ fmRun'[t].pc \in {"settled", "commit"}
        => fmRun'[s].hash # fmRun'[t].hash
  BY <1>1, <1>4 DEF MarkInv, RunsBacked
<1> QED
  BY <1>5, <1>6 DEF RunsBacked

LEMMA MarkInvStep == MarkTypeOK /\ MarkInv /\ [MarkNext]_fmVars => (MarkTypeOK /\ MarkInv)'
<1> SUFFICES ASSUME MarkTypeOK, MarkInv, [MarkNext]_fmVars
             PROVE  (MarkTypeOK /\ MarkInv)'
  OBVIOUS
<1>1. ASSUME NEW r \in MarkRuns, MarkStep(r)
      PROVE  (MarkTypeOK /\ MarkInv)'
  <2>1. MarkTypeOK'
    <3>1. RunBacked(fmRun[r])
      BY DEF MarkInv, RunsBacked
    <3> QED
      BY <1>1, <3>1, MarkTypeStep DEF RunBacked, RunPaid
  <2>2. Keeps
    BY <1>1, <2>1, StepKeeps DEF MarkInv
  <2>3. RowsBacked'
    BY <1>1, <2>1, <2>2, RowsStep
  <2>4. HistoryBacked' /\ RunsBacked'
    BY <1>1, <2>1, <2>2, <2>3, HistoryStep, RunsStep
  <2>5. LocksDiffer'
    BY <2>2 DEF MarkInv, LocksDiffer, Keeps
  <2> QED
    BY <2>1, <2>3, <2>4, <2>5 DEF MarkInv
<1>2. CASE UNCHANGED fmVars
  <2> USE <1>2 DEF fmVars
  <2>1. MarkTypeOK' /\ LocksDiffer'
    BY DEF MarkTypeOK, MarkInv, LocksDiffer
  <2>2. \A b : HeadBacked(b)' = HeadBacked(b) /\ Legs(b)' = Legs(b)
    BY DEF HeadBacked, Legs
  <2>3. \A b, h : Owns(b, h)' = Owns(b, h) /\ Backed(b, h)' = Backed(b, h)
    BY <2>2 DEF Owns, Backed
  <2>4. RowsBacked' /\ HistoryBacked'
    BY <2>2, <2>3 DEF MarkInv, RowsBacked, HistoryBacked
  <2>5. \A r \in MarkRuns : RunBacked(fmRun[r])' = RunBacked(fmRun[r])
    BY DEF RunBacked, RunCarries, RunLegs, RunPaid, Legs, Backed, Owns
  <2>6. RunsBacked'
    BY <2>5 DEF MarkInv, RunsBacked
  <2> QED
    BY <2>1, <2>4, <2>6 DEF MarkInv
<1> QED
  BY <1>1, <1>2 DEF MarkNext

LEMMA MarkInvHolds == MarkSpec => [](MarkTypeOK /\ MarkInv)
<1>1. MarkInit => MarkTypeOK /\ MarkInv
  BY MarkTypeInit, MarkInvInit
<1> QED
  BY <1>1, MarkInvStep, PTL DEF MarkSpec
-----------------------------------------------------------------------------
(* Theorems                                                                 *)

\* Rows, receipts and runs keep their types, whatever the legacy rows were.
THEOREM MarkTypeCorrect == MarkSpec => []MarkTypeOK
  BY MarkInvHolds, PTL

\* The guard of the live rail counts only USDC that arrived, and no
\* transaction for two bounties, for any bounties, wallets and runs
\* (fundHashIsVerified, reconcileLegacyFunding, addBountyContribution).
THEOREM CountedArrived == MarkSpec => []CountedArrivedOnce
<1>1. MarkTypeOK /\ MarkInv => CountedArrivedOnce
  <2> SUFFICES ASSUME MarkTypeOK, MarkInv, NEW b \in Funded, NEW leg \in Legs(b),
                      FundHashIsVerified(leg.hash, fmEscrow[b])
               PROVE  /\ Arrived(fmChain[leg.hash], leg.amount)
                      /\ \A c \in Funded \ {b} : ~ Counts(c, leg.hash, fmCredit, fmEscrow[c])
    BY DEF CountedArrivedOnce, Legs
  <2>1. leg \in Leg /\ leg.hash \in Hashes /\ leg.hash # NoHash
    BY LegsTyped, MarkAssumption DEF MarkTypeOK, Legs, Leg
  <2>2. CASE leg.hash \in fmEscrow[b].marks
    <3>1. Backed(b, leg.hash)
      BY <2>2 DEF MarkInv, RowsBacked
    <3>2. PICK vouched \in Legs(b) :
            vouched.hash = leg.hash /\ MatchPayerFundingTransfer(fmChain[leg.hash], vouched)
      BY <3>1 DEF Backed
    <3>3. vouched.amount = leg.amount
      BY <3>2 DEF Legs, LegsOf
    <3>4. Arrived(fmChain[leg.hash], leg.amount)
      BY <3>2, <3>3, MatchArrived
    <3>5. \A c \in Funded \ {b} : fmCredit[leg.hash].bounty # c /\ fmEscrow[c].hash # leg.hash
      <4>1. fmCredit[leg.hash].bounty \in {b, NoBounty}
        BY <3>1 DEF Backed, Owns, HashUsedByOtherBounty
      <4>2. \A c \in Funded \ {b} : fmEscrow[c].hash # leg.hash
        BY <3>1 DEF Backed, Owns, HashUsedByOtherBounty
      <4> QED
        BY <4>1, <4>2, MarkAssumption
    <3> QED
      BY <3>4, <3>5 DEF Counts
  <2>3. CASE fmEscrow[b].head /\ leg.hash = fmEscrow[b].hash
    <3>1. /\ Arrived(fmChain[leg.hash], leg.amount)
          /\ fmCredit[leg.hash].bounty \in {b, NoBounty}
      BY <2>3 DEF MarkInv, RowsBacked, HeadBacked
    <3>2. \A c \in Funded \ {b} : fmCredit[leg.hash].bounty # c /\ fmEscrow[c].hash # leg.hash
      BY <2>1, <2>3, <3>1, MarkAssumption DEF MarkInv, LocksDiffer
    <3> QED
      BY <3>1, <3>2 DEF Counts
  <2> QED
    BY <2>2, <2>3 DEF FundHashIsVerified
<1> QED
  BY <1>1, MarkInvHolds, PTL

\* Whatever a stale write removed from the column, the next claim can verify
\* it again (reconcileLegacyFunding, WritePaymentId).
THEOREM LostMarksReturn == MarkSpec => []LostMarkReturns
<1>1. MarkTypeOK /\ MarkInv => LostMarkReturns
  <2> SUFFICES ASSUME MarkTypeOK, MarkInv, NEW b \in Funded, NEW leg \in Legs(b),
                      <<b, leg.hash>> \in fmCounted,
                      ~ FundHashIsVerified(leg.hash, fmEscrow[b])
               PROVE  /\ Owns(b, leg.hash)
                      /\ MatchPayerFundingTransfer(fmChain[leg.hash], leg)
    BY DEF LostMarkReturns, Legs, Owns
  <2>1. leg.hash \in Hashes
    BY LegsTyped DEF MarkTypeOK, Legs, Leg
  <2>2. Backed(b, leg.hash)
    BY <2>1 DEF MarkInv, HistoryBacked, FundHashIsVerified
  <2>3. PICK vouched \in Legs(b) :
          vouched.hash = leg.hash /\ MatchPayerFundingTransfer(fmChain[leg.hash], vouched)
    BY <2>2 DEF Backed
  <2>4. vouched = leg
    BY <2>3 DEF Legs, LegsOf
  <2> QED
    BY <2>2, <2>3, <2>4 DEF Backed
<1> QED
  BY <1>1, MarkInvHolds, PTL
-----------------------------------------------------------------------------
(* PayoutAddress: the ledger names the address that was paid                *)

\* A claim that may send has an address to send to, one that has sent knows where
\* the transfer went, and the ledger has an address only of a transfer.
ClaimKnows(q) ==
    /\ q.pc \in {"guard", "send", "confirm"} => q.to # NoAddress
    /\ q.pc = "confirm" => daSent[q.leg] = q.to

AddressInv ==
    /\ AddressTypeOK
    /\ \A c \in Claims : ClaimKnows(daCall[c])
    /\ \A l \in PaidLegs : daLedger[l].tx => daLedger[l].to = daSent[l] /\ daSent[l] # NoAddress

LEMMA AddressTyped ==
    /\ NoAddress \in Address /\ NoUser \in Users \cup {NoUser} /\ Hunter \in Users
    /\ NoClaim \in ClaimCall
    /\ \A u \in Users : "idle" \in ClaimPCs
  BY AddressAssumption DEF Address, NoClaim, ClaimCall, ClaimPCs, PaidLegs

LEMMA AddressStarts == AddressInit => AddressInv
<1> SUFFICES ASSUME AddressInit PROVE AddressInv
  OBVIOUS
<1>1. PICK u \in Users \cup {NoUser}, saved \in Address, paid \in Address :
        /\ paid # NoAddress => saved # NoAddress
        /\ daHub \in BOOLEAN /\ (daHub => u = NoUser /\ paid = NoAddress)
        /\ daWallet = [v \in Users |-> saved]
        /\ daLink = [winner |-> Hunter,
                     pool |-> IF u = Hunter THEN NoUser ELSE u,
                     hub |-> IF daHub THEN Hunter ELSE NoUser]
        /\ daRow = [winner |-> [user |-> Hunter, addr |-> paid, paid |-> paid # NoAddress],
                    pool |-> [user |-> u, addr |-> NoAddress, paid |-> FALSE]]
        /\ daLedger = [l \in PaidLegs |->
              IF l = "winner" /\ paid # NoAddress
              THEN [st |-> "confirmed", tx |-> TRUE, to |-> paid]
              ELSE [st |-> "none", tx |-> FALSE, to |-> NoAddress]]
        /\ daFee = (paid # NoAddress)
        /\ daSent = [l \in PaidLegs |-> IF l = "winner" THEN paid ELSE NoAddress]
        /\ daCall = [c \in Claims |-> NoClaim]
  BY DEF AddressInit
<1>2. daLink \in [Accounts -> Users \cup {NoUser}]
  <2>1. DOMAIN daLink = Accounts
    BY <1>1 DEF Accounts, GithubAccounts, PaidLegs
  <2>2. \A k \in Accounts : daLink[k] \in Users \cup {NoUser}
    BY <1>1, AddressTyped DEF Accounts, GithubAccounts, PaidLegs
  <2> QED
    BY <1>1, <2>1, <2>2 DEF Accounts, GithubAccounts, PaidLegs
<1>3. daRow \in [PaidLegs -> PayeeRow]
  <2>1. DOMAIN daRow = PaidLegs
    BY <1>1 DEF PaidLegs
  <2>2. daRow["winner"] \in PayeeRow /\ daRow["pool"] \in PayeeRow
    <3>1. daRow["winner"] = [user |-> Hunter, addr |-> paid, paid |-> paid # NoAddress]
      BY <1>1
    <3>2. daRow["pool"] = [user |-> u, addr |-> NoAddress, paid |-> FALSE]
      BY <1>1
    <3> QED
      BY <1>1, <3>1, <3>2, AddressTyped DEF PayeeRow
  <2> QED
    BY <1>1, <2>1, <2>2 DEF PaidLegs
<1>4. daLedger \in [PaidLegs -> LedgerLeg]
  BY <1>1, AddressTyped DEF PaidLegs, LedgerLeg
<1>5. daCall \in [Claims -> ClaimCall] /\ daSent \in [PaidLegs -> Address]
  BY <1>1, AddressTyped
<1>6. AddressTypeOK
  BY <1>1, <1>2, <1>3, <1>4, <1>5 DEF AddressTypeOK
<1>7. \A c \in Claims : ClaimKnows(daCall[c])
  BY <1>1 DEF ClaimKnows, NoClaim
<1>8. \A l \in PaidLegs : daLedger[l].tx => daLedger[l].to = daSent[l] /\ daSent[l] # NoAddress
  BY <1>1
<1> QED
  BY <1>6, <1>7, <1>8 DEF AddressInv

\* A step that moves one claim on while the chain stands still.
LEMMA ClaimMoves ==
    ASSUME AddressInv, NEW c \in Claims, NEW q \in ClaimCall,
           daCall' = [daCall EXCEPT ![c] = q], ClaimKnows(q),
           UNCHANGED <<daHub, daSent>>,
           daLedger' \in [PaidLegs -> LedgerLeg],
           \A l \in PaidLegs : daLedger'[l].tx =>
               daLedger'[l].to = daSent[l] /\ daSent[l] # NoAddress,
           daWallet' \in [Users -> Address], daLink' = daLink,
           daRow' \in [PaidLegs -> PayeeRow], daFee' \in BOOLEAN
    PROVE  AddressInv'
  BY DEF AddressInv, AddressTypeOK, ClaimKnows

LEMMA ClaimRests ==
    ASSUME AddressInv, NEW c \in Claims, NEW q \in ClaimCall,
           daCall' = [daCall EXCEPT ![c] = q], ClaimKnows(q),
           UNCHANGED <<daHub, daWallet, daLink, daRow, daLedger, daFee, daSent>>
    PROVE  AddressInv'
  BY ClaimMoves DEF AddressInv, AddressTypeOK

\* A claim that ends, or goes to a step where nothing is known of it.
LEMMA ClaimEnds ==
    /\ [NoClaim EXCEPT !.pc = "done"] \in ClaimCall
    /\ ClaimKnows([NoClaim EXCEPT !.pc = "done"])
    /\ \A q \in ClaimCall, pc \in {"load", "persist", "stamp", "settle", "finish"} :
         [q EXCEPT !.pc = pc] \in ClaimCall /\ ClaimKnows([q EXCEPT !.pc = pc])
    /\ \A q \in ClaimCall, pc \in {"guard", "send"} :
         /\ [q EXCEPT !.pc = pc] \in ClaimCall
         /\ q.to # NoAddress => ClaimKnows([q EXCEPT !.pc = pc])
<1>1. \A q \in ClaimCall, pc \in ClaimPCs : [q EXCEPT !.pc = pc] \in ClaimCall
  BY DEF ClaimCall
<1>2. {"load", "persist", "stamp", "settle", "finish", "guard", "send", "done"} \subseteq ClaimPCs
  BY DEF ClaimPCs
<1>3. \A q \in ClaimCall, pc \in {"load", "persist", "stamp", "settle", "finish", "done"} :
        ClaimKnows([q EXCEPT !.pc = pc])
  BY DEF ClaimCall, ClaimKnows
<1>4. \A q \in ClaimCall, pc \in {"guard", "send"} :
        q.to # NoAddress => ClaimKnows([q EXCEPT !.pc = pc])
  BY DEF ClaimCall, ClaimKnows
<1> QED
  BY <1>1, <1>2, <1>3, <1>4, AddressTyped

LEMMA StoredTyped ==
    ASSUME AddressInv, NEW l \in PaidLegs
    PROVE  StoredAddress(l) \in Address
<1>1. daRow[l] \in PayeeRow /\ daWallet \in [Users -> Address]
  BY DEF AddressInv, AddressTypeOK
<1> QED
  BY <1>1, AddressTyped DEF StoredAddress, PayeeRow

\* The steps before the settlement, and what only ends a claim.
LEMMA ClaimEntryStep ==
    ASSUME AddressInv, NEW c \in Claims,
           \/ \E l \in PaidLegs, u \in Users :
                \/ ClaimWithKey(c, l, u)
                \/ \E a \in Addresses, persist \in BOOLEAN : ClaimOnSite(c, l, u, a, persist)
           \/ SettleByPoster(c) \/ TakeWallet(c) \/ LoadRow(c) \/ PersistWallet(c)
           \/ StampAddress(c) \/ ClaimDies(c)
    PROVE  AddressInv'
<1>t. /\ daCall[c] \in ClaimCall /\ daCall \in [Claims -> ClaimCall]
      /\ daWallet \in [Users -> Address] /\ daRow \in [PaidLegs -> PayeeRow]
      /\ daLedger \in [PaidLegs -> LedgerLeg] /\ daFee \in BOOLEAN
  BY DEF AddressInv, AddressTypeOK
<1> DEFINE q == daCall[c]
<1>f. /\ q.leg \in PaidLegs /\ q.user \in Users /\ q.addr \in Address
      /\ q.member \in Users \cup {NoUser}
  BY <1>t DEF ClaimCall
<1>1. ASSUME NEW l \in PaidLegs, NEW u \in Users, ClaimWithKey(c, l, u)
      PROVE  AddressInv'
  <2> DEFINE new == [NoClaim EXCEPT !.pc = "wallet", !.leg = l, !.user = u]
  <2>1. new \in ClaimCall /\ ClaimKnows(new)
    BY AddressTyped DEF ClaimCall, ClaimPCs, ClaimKnows, NoClaim
  <2>2. daCall' = [daCall EXCEPT ![c] = new]
    BY <1>1 DEF ClaimWithKey
  <2> HIDE DEF new
  <2> QED
    BY <1>1, <2>1, <2>2, ClaimRests DEF ClaimWithKey
<1>2. ASSUME NEW l \in PaidLegs, NEW u \in Users, NEW a \in Addresses,
             NEW persist \in BOOLEAN, ClaimOnSite(c, l, u, a, persist)
      PROVE  AddressInv'
  <2> DEFINE new == [NoClaim EXCEPT !.pc = "load", !.leg = l, !.user = u, !.addr = a,
                                    !.persist = persist]
  <2>1. new \in ClaimCall /\ ClaimKnows(new)
    BY AddressTyped DEF ClaimCall, ClaimPCs, ClaimKnows, NoClaim, Address
  <2>2. daCall' = [daCall EXCEPT ![c] = new]
    BY <1>2 DEF ClaimOnSite
  <2> HIDE DEF new
  <2> QED
    BY <1>2, <2>1, <2>2, ClaimRests DEF ClaimOnSite
<1>3. ASSUME SettleByPoster(c) PROVE AddressInv'
  BY <1>3, AddressTyped, ClaimEnds, ClaimRests DEF SettleByPoster
<1>4. ASSUME TakeWallet(c) PROVE AddressInv'
  <2>1. CASE daWallet[q.user] = NoAddress
    BY <1>4, <2>1, ClaimEnds, ClaimRests DEF TakeWallet, EndClaim
  <2>2. CASE daWallet[q.user] # NoAddress
    <3> DEFINE new == [q EXCEPT !.pc = "load", !.addr = daWallet[q.user]]
    <3>1. new \in ClaimCall /\ ClaimKnows(new)
      BY <1>t, <1>f DEF ClaimCall, ClaimPCs, ClaimKnows
    <3>2. daCall' = [daCall EXCEPT ![c] = new]
      BY <1>4, <2>2 DEF TakeWallet
    <3> HIDE DEF new
    <3> QED
      BY <1>4, <3>1, <3>2, ClaimRests DEF TakeWallet
  <2> QED
    BY <2>1, <2>2
<1>5. ASSUME LoadRow(c) PROVE AddressInv'
  <2>1. CASE ~ OwnsRow(q.leg, q.user)
    BY <1>5, <2>1, ClaimEnds, ClaimRests DEF LoadRow, EndClaim
  <2>2. CASE OwnsRow(q.leg, q.user)
    <3> DEFINE new == [q EXCEPT !.pc = IF q.persist THEN "persist" ELSE "stamp",
                                !.member = daRow[q.leg].user]
    <3>1. daRow[q.leg].user \in Users \cup {NoUser}
      BY <1>t, <1>f DEF PayeeRow
    <3>2. new \in ClaimCall /\ ClaimKnows(new)
      BY <1>t, <1>f, <3>1 DEF ClaimCall, ClaimPCs, ClaimKnows
    <3>3. daCall' = [daCall EXCEPT ![c] = new]
      BY <1>5, <2>2 DEF LoadRow
    <3> HIDE DEF new
    <3> QED
      BY <1>5, <3>2, <3>3, ClaimRests DEF LoadRow
  <2> QED
    BY <2>1, <2>2
<1>6. ASSUME PersistWallet(c) PROVE AddressInv'
  <2>1. daWallet' \in [Users -> Address]
    BY <1>6, <1>t, <1>f DEF PersistWallet
  <2>2. daCall' = [daCall EXCEPT ![c] = [q EXCEPT !.pc = "stamp"]]
    BY <1>6 DEF PersistWallet, ClaimGoto
  <2>3. \A l \in PaidLegs : daLedger[l].tx =>
            daLedger[l].to = daSent[l] /\ daSent[l] # NoAddress
    BY DEF AddressInv
  <2> QED
    BY <1>6, <1>t, <2>1, <2>2, <2>3, ClaimEnds, ClaimMoves DEF PersistWallet
<1>7. ASSUME StampAddress(c) PROVE AddressInv'
  <2> DEFINE new == [NoClaim EXCEPT !.pc = "settle", !.leg = q.leg, !.user = q.user]
  <2>1. new \in ClaimCall /\ ClaimKnows(new)
    BY <1>f, AddressTyped DEF ClaimCall, ClaimPCs, ClaimKnows, NoClaim
  <2>2. daCall' = [daCall EXCEPT ![c] = new]
    BY <1>7 DEF StampAddress
  <2>3. daRow' \in [PaidLegs -> PayeeRow]
    <3>1. daRow[q.leg] \in PayeeRow
      BY <1>t, <1>f
    <3>2. [daRow[q.leg] EXCEPT !.addr = q.addr,
             !.user = IF q.member = NoUser THEN q.user ELSE q.member] \in PayeeRow
      BY <3>1, <1>f DEF PayeeRow
    <3>3. daRow' = [daRow EXCEPT ![q.leg] = [daRow[q.leg] EXCEPT !.addr = q.addr,
             !.user = IF q.member = NoUser THEN q.user ELSE q.member]]
      BY <1>7, <1>t, <1>f DEF StampAddress
    <3> QED
      BY <1>t, <3>2, <3>3
  <2>4. \A l \in PaidLegs : daLedger[l].tx =>
            daLedger[l].to = daSent[l] /\ daSent[l] # NoAddress
    BY DEF AddressInv
  <2> HIDE DEF new
  <2> QED
    BY <1>7, <1>t, <2>1, <2>2, <2>3, <2>4, ClaimMoves DEF StampAddress
<1>8. ASSUME ClaimDies(c) PROVE AddressInv'
  BY <1>8, ClaimEnds, ClaimRests DEF ClaimDies, EndClaim
<1> QED
  BY <1>1, <1>2, <1>3, <1>4, <1>5, <1>6, <1>7, <1>8

\* The steps of settleEscrow.
LEMMA ClaimSettleStep ==
    ASSUME AddressInv, NEW c \in Claims,
           \/ PlanDestination(c) \/ PlanLeg(c) \/ CheckDestination(c)
           \/ Release(c) \/ ReleaseFails(c) \/ ConfirmDestination(c)
           \/ \E fee \in BOOLEAN : FinishClaim(c, fee)
    PROVE  AddressInv'
<1>t. /\ daCall[c] \in ClaimCall /\ daCall \in [Claims -> ClaimCall]
      /\ daWallet \in [Users -> Address] /\ daRow \in [PaidLegs -> PayeeRow]
      /\ daLedger \in [PaidLegs -> LedgerLeg] /\ daFee \in BOOLEAN
      /\ daSent \in [PaidLegs -> Address]
  BY DEF AddressInv, AddressTypeOK
<1> DEFINE q == daCall[c]
<1>f. q.leg \in PaidLegs /\ q.to \in Address /\ q.hunter \in Address
  BY <1>t DEF ClaimCall
<1>k. ClaimKnows(q)
  BY DEF AddressInv
<1>s. \A l \in PaidLegs : daLedger[l].tx =>
          daLedger[l].to = daSent[l] /\ daSent[l] # NoAddress
  BY DEF AddressInv
<1>l. daLedger[q.leg] \in LedgerLeg
  BY <1>t, <1>f
\* Where a leg fails its row keeps its address.
<1>x. ASSUME FailLeg(c) PROVE AddressInv'
  <2>1. daLedger' = [daLedger EXCEPT ![q.leg] = [daLedger[q.leg] EXCEPT !.st = "failed"]]
    BY <1>x DEF FailLeg, SetLeg
  <2>2. [daLedger[q.leg] EXCEPT !.st = "failed"] \in LedgerLeg
    BY <1>l DEF LedgerLeg
  <2>3. daLedger' \in [PaidLegs -> LedgerLeg]
    BY <1>t, <2>1, <2>2
  <2>4. \A l \in PaidLegs : daLedger'[l].tx = daLedger[l].tx /\ daLedger'[l].to = daLedger[l].to
    BY <1>t, <1>l, <2>1 DEF LedgerLeg
  <2> QED
    BY <1>x, <1>t, <1>s, <2>3, <2>4, ClaimEnds, ClaimMoves DEF FailLeg, EndClaim
<1>1. ASSUME PlanDestination(c) PROVE AddressInv'
  <2> DEFINE new == [NoClaim EXCEPT !.pc = "plan", !.leg = q.leg, !.to = StoredAddress(q.leg),
                                    !.hunter = StoredAddress("winner")]
  <2>1. StoredAddress(q.leg) \in Address /\ StoredAddress("winner") \in Address
    BY <1>f, StoredTyped DEF PaidLegs
  <2>2. new \in ClaimCall /\ ClaimKnows(new)
    <3> HIDE DEF q
    <3> QED
      BY <1>f, <2>1, AddressTyped DEF ClaimCall, ClaimPCs, ClaimKnows, NoClaim
  <2>3. \/ daCall' = [daCall EXCEPT ![c] = new]
        \/ EndClaim(c)
    BY <1>1 DEF PlanDestination
  <2> HIDE DEF new
  <2>4. UNCHANGED <<daHub, daWallet, daLink, daRow, daLedger, daFee, daSent>>
    BY <1>1 DEF PlanDestination
  <2> QED
    BY <2>2, <2>3, <2>4, ClaimEnds, ClaimRests DEF EndClaim
<1>2. ASSUME PlanLeg(c) PROVE AddressInv'
  <2>1. CASE daLedger[q.leg].tx
    BY <1>2, <1>t, <2>1, ClaimEnds, ClaimRests DEF PlanLeg, ClaimGoto
  <2>2. CASE ~ daLedger[q.leg].tx /\ q.to = NoAddress
    BY <1>2, <2>2, ClaimEnds, ClaimRests DEF PlanLeg, EndClaim
  <2>3. CASE ~ daLedger[q.leg].tx /\ q.to # NoAddress
    <3> DEFINE row == [daLedger[q.leg] EXCEPT !.st = "submitted",
                         !.to = IF daLedger[q.leg].st = "none" THEN q.to ELSE daLedger[q.leg].to]
    <3>1. /\ daLedger' = [daLedger EXCEPT ![q.leg] = row]
          /\ daCall' = [daCall EXCEPT ![c] = [q EXCEPT !.pc = "guard"]]
      BY <1>2, <2>3 DEF PlanLeg, ClaimGoto
    <3>2. row \in LedgerLeg /\ ~ row.tx
      BY <1>l, <1>f, <2>3 DEF LedgerLeg
    <3>3. daLedger' \in [PaidLegs -> LedgerLeg]
      BY <1>t, <3>1, <3>2
    <3>4. \A l \in PaidLegs : daLedger'[l].tx =>
              daLedger'[l].to = daSent[l] /\ daSent[l] # NoAddress
      BY <1>t, <1>s, <3>1, <3>2
    <3> QED
      BY <1>2, <1>t, <2>3, <3>1, <3>3, <3>4, ClaimEnds, ClaimMoves DEF PlanLeg
  <2> QED
    BY <2>1, <2>2, <2>3
<1>3. ASSUME CheckDestination(c) PROVE AddressInv'
  <2>1. CASE StoredAddress(q.leg) = q.to
    <3>1. q.to # NoAddress
      BY <1>3, <1>k DEF CheckDestination, ClaimKnows
    <3> QED
      BY <1>3, <1>t, <2>1, <3>1, ClaimEnds, ClaimRests DEF CheckDestination, ClaimGoto
  <2>2. CASE StoredAddress(q.leg) # q.to
    BY <1>3, <2>2, <1>x DEF CheckDestination
  <2> QED
    BY <2>1, <2>2
\* The rail answers a key it knows with the address it paid.
<1>4. ASSUME Release(c) PROVE AddressInv'
  <2>1. q.to # NoAddress /\ daSent[q.leg] \in {NoAddress, q.to}
    BY <1>4, <1>k DEF Release, ClaimKnows
  <2>2. /\ daSent' = [daSent EXCEPT ![q.leg] = q.to]
        /\ daCall' = [daCall EXCEPT ![c] = [q EXCEPT !.pc = "confirm"]]
    BY <1>4 DEF Release, ClaimGoto
  <2>3. \A l \in PaidLegs : daSent[l] # NoAddress => daSent'[l] = daSent[l]
    BY <1>t, <2>1, <2>2
  <2>4. [q EXCEPT !.pc = "confirm"] \in ClaimCall
    BY <1>t DEF ClaimCall, ClaimPCs
  <2>5. AddressTypeOK'
    BY <1>4, <1>t, <1>f, <2>2, <2>4 DEF Release, AddressInv, AddressTypeOK
  <2>6. \A d \in Claims : ClaimKnows(daCall[d])'
    <3> SUFFICES ASSUME NEW d \in Claims PROVE ClaimKnows(daCall[d])'
      OBVIOUS
    <3>1. CASE d = c
      <4>1. daCall'[d].pc = "confirm" /\ daCall'[d].leg = q.leg /\ daCall'[d].to = q.to
        BY <1>t, <2>2, <3>1 DEF ClaimCall
      <4>2. daSent'[q.leg] = q.to
        BY <1>t, <1>f, <2>2
      <4> QED
        BY <2>1, <4>1, <4>2 DEF ClaimKnows
    <3>2. CASE d # c
      <4>1. daCall'[d] = daCall[d] /\ ClaimKnows(daCall[d]) /\ daCall[d].leg \in PaidLegs
        BY <1>t, <2>2, <3>2 DEF AddressInv, ClaimCall
      <4> QED
        BY <2>3, <4>1 DEF ClaimKnows
    <3> QED
      BY <3>1, <3>2
  <2> QED
    BY <1>4, <1>s, <2>3, <2>5, <2>6 DEF Release, AddressInv
<1>5. ASSUME ReleaseFails(c) PROVE AddressInv'
  BY <1>5, <1>x DEF ReleaseFails
<1>6. ASSUME ConfirmDestination(c) PROVE AddressInv'
  <2> DEFINE row == [st |-> "confirmed", tx |-> TRUE, to |-> q.to]
  <2>1. q.to # NoAddress /\ daSent[q.leg] = q.to
    BY <1>6, <1>k DEF ConfirmDestination, ClaimKnows
  <2>2. /\ daLedger' = [daLedger EXCEPT ![q.leg] = row]
        /\ daCall' = [daCall EXCEPT ![c] = [q EXCEPT !.pc = "finish"]]
    BY <1>6 DEF ConfirmDestination, ClaimGoto
  <2>3. daLedger' \in [PaidLegs -> LedgerLeg]
    BY <1>t, <1>f, <2>2 DEF LedgerLeg
  <2>4. \A l \in PaidLegs : daLedger'[l].tx =>
            daLedger'[l].to = daSent[l] /\ daSent[l] # NoAddress
    BY <1>t, <1>f, <1>s, <2>1, <2>2
  <2>5. daRow' \in [PaidLegs -> PayeeRow]
    <3>1. [daRow["pool"] EXCEPT !.addr = q.to, !.paid = TRUE] \in PayeeRow
      BY <1>t, <1>f DEF PayeeRow, PaidLegs
    <3>2. \/ daRow' = daRow
          \/ daRow' = [daRow EXCEPT !["pool"] = [daRow["pool"] EXCEPT !.addr = q.to, !.paid = TRUE]]
      BY <1>6, <1>t DEF ConfirmDestination, PaidLegs
    <3> QED
      BY <1>t, <3>1, <3>2
  <2> QED
    BY <1>6, <1>t, <2>2, <2>3, <2>4, <2>5, ClaimEnds, ClaimMoves DEF ConfirmDestination
<1>7. ASSUME NEW fee \in BOOLEAN, FinishClaim(c, fee) PROVE AddressInv'
  <2>1. daFee' \in BOOLEAN
    BY <1>7, <1>t DEF FinishClaim
  <2>2. daRow' \in [PaidLegs -> PayeeRow]
    <3>1. [daRow["winner"] EXCEPT !.addr = q.hunter, !.paid = TRUE] \in PayeeRow
      BY <1>t, <1>f DEF PayeeRow, PaidLegs
    <3>2. \/ daRow' = daRow
          \/ daRow' = [daRow EXCEPT !["winner"] =
                         [daRow["winner"] EXCEPT !.addr = q.hunter, !.paid = TRUE]]
      BY <1>7, <1>t DEF FinishClaim, PaidLegs
    <3> QED
      BY <1>t, <3>1, <3>2
  <2> QED
    BY <1>7, <1>t, <1>s, <2>1, <2>2, ClaimEnds, ClaimMoves DEF FinishClaim, EndClaim
<1> QED
  BY <1>1, <1>2, <1>3, <1>4, <1>5, <1>6, <1>7

LEMMA AddressStep == AddressInv /\ [AddressNext]_daVars => AddressInv'
<1> SUFFICES ASSUME AddressInv, [AddressNext]_daVars PROVE AddressInv'
  OBVIOUS
<1>1. ASSUME NEW c \in Claims, ClaimStep(c) PROVE AddressInv'
  BY <1>1, ClaimEntryStep, ClaimSettleStep DEF ClaimStep
<1>2. ASSUME NEW k \in Accounts, UnlinkAccount(k) PROVE AddressInv'
  BY <1>2, AddressTyped DEF UnlinkAccount, AddressInv, AddressTypeOK, ClaimKnows
<1>3. ASSUME NEW k \in Accounts, NEW u \in Users, LinkAccount(k, u) PROVE AddressInv'
  <2>1. daLink' \in [Accounts -> Users \cup {NoUser}]
    BY <1>3 DEF LinkAccount, AddressInv, AddressTypeOK
  <2> QED
    BY <1>3, <2>1 DEF LinkAccount, AddressInv, AddressTypeOK, ClaimKnows
<1>4. ASSUME UNCHANGED daVars PROVE AddressInv'
  BY <1>4 DEF daVars, AddressInv, AddressTypeOK, ClaimKnows
<1> QED
  BY <1>1, <1>2, <1>3, <1>4 DEF AddressNext

\* Wallets, accounts, claims and the ledger keep their types.
LEMMA AddressTypeCorrect == AddressSpec => []AddressTypeOK
<1>1. AddressInv => AddressTypeOK
  BY DEF AddressInv
<1> QED
  BY <1>1, AddressStarts, AddressStep, PTL DEF AddressSpec

\* The ledger names the address that the chain paid, for any claims, users and
\* addresses, whatever overtakes what (markLegConfirmed).
THEOREM LedgerIsWherePaid == AddressSpec => []LedgerWherePaid
<1>1. AddressInv => LedgerWherePaid
  BY DEF AddressInv, LedgerWherePaid
<1> QED
  BY AddressStarts, AddressStep, <1>1, PTL DEF AddressSpec

-----------------------------------------------------------------------------
(* Checkout: what a wallet was made to pay is on the record                 *)

\* What a press knows.  A calm one is alone in the handler and finds the bounty
\* as it was when it was posted.
CkKnows(p) ==
    LET q == ckPress[p]
    IN  /\ q.pc \in {"idle", "sign", "post"} => q.told = "nothing"
        /\ q.pc \in {"idle", "sign", "post", "settle"} => p \notin ckSettled
        /\ q.pc = "lock" => ~ q.topUp /\ q.told = "paid"
        /\ q.pc = "write" => ~ q.topUp
        /\ InHandler(p) => q.told # "paid"
        /\ q.told = "paid" =>
             IF q.topUp THEN p \in ckEscrow.credited ELSE ckEscrow.hash # CkNone
        /\ InHandler(p) /\ q.calm =>
             /\ \A r \in CkPresses : InHandler(r) => r = p
             /\ q.topUp => Wanted(TRUE)
             /\ ~ q.topUp => ckBounty.deleted \/ Wanted(FALSE)

\* The recorded hash is of a press that has left the handler, and fail_reason
\* names one that came for a deleted bounty.
HashKnown ==
    /\ ckBounty.st = "funded" => ckEscrow.hash # CkNone
    /\ ckEscrow.hash # CkNone => ckPress[ckEscrow.hash].pc \in {"lock", "done"}
    /\ ckEscrow.noted # CkNone => ckPress[ckEscrow.noted].gone

\* A press that found the bounty deleted, and was alone, has left a hash behind.
GoneKnown(p) ==
    LET q == ckPress[p]
    IN  q.gone => /\ q.pc \in {"write", "done"} /\ ckBounty.deleted
                  /\ q.pc = "done" /\ q.calm => ckEscrow.hash # CkNone

\* What a press that is about to write puts in the place of a recorded hash, or
\* drops from fail_reason, is of presses that were not alone, but for the hash it
\* has read and keeps.
WriterKnows(p) ==
    LET saw == ckPress[p].saw
    IN  CkAt(p, "write") =>
          /\ saw # CkNone => /\ ckPress[p].gone /\ ckPress[saw].pc \in {"lock", "done"}
                             /\ saw = ckEscrow.hash \/ ~ ckPress[saw].calm
          /\ ckEscrow.hash \notin {CkNone, saw} => ~ ckPress[ckEscrow.hash].calm
          /\ saw = CkNone =>
               \A q \in CkPresses : q # p /\ ckPress[q].gone => ~ ckPress[q].calm

CheckoutInv ==
    /\ CheckoutTypeOK
    /\ HashKnown
    /\ \A p \in CkPresses : CkKnows(p) /\ GoneKnown(p) /\ WriterKnows(p)
    /\ \A p \in ckSettled :
         InHandler(p) \/ CkKept(p) \/ Displaced(p) \/ ~ ckPress[p].calm

LEMMA CheckoutTyped ==
    ASSUME CheckoutTypeOK, NEW p \in CkPresses
    PROVE  /\ ckPress[p] \in Press /\ p # CkNone
           /\ ckBounty.st \in {"pending_fund", "funded", "ended"} /\ ckBounty.deleted \in BOOLEAN
           /\ ckBounty.open \in BOOLEAN /\ ckBounty.face \in CkFaces
           /\ ckEscrow.hash \in CkPresses \cup {CkNone}
           /\ ckEscrow.noted \in CkPresses \cup {CkNone} /\ ckEscrow.credited \subseteq CkPresses
           /\ ckPress[p].saw \in CkPresses \cup {CkNone} /\ ckPress[p].gone \in BOOLEAN
  BY CheckoutAssumption DEF CheckoutTypeOK, Press

LEMMA CheckoutStarts == CheckoutInit => CheckoutInv
<1> SUFFICES ASSUME CheckoutInit PROVE CheckoutInv
  OBVIOUS
<1>1. NoPress \in Press /\ NoPress.pc = "idle" /\ NoPress.told = "nothing" /\ ~ NoPress.gone
  BY DEF NoPress, Press, PressPC
<1>2. CheckoutTypeOK
  BY <1>1 DEF CheckoutInit, CheckoutTypeOK
<1>3. \A p \in CkPresses : ckPress[p] = NoPress
  BY DEF CheckoutInit
<1>4. /\ ckEscrow.hash = CkNone /\ ckEscrow.noted = CkNone /\ ckSettled = {}
      /\ ckBounty.st = "pending_fund"
  BY DEF CheckoutInit
<1> QED
  BY <1>1, <1>2, <1>3, <1>4
  DEF CheckoutInv, HashKnown, CkKnows, GoneKnown, WriterKnows, InHandler, CkAt

\* What the presses are about to write stays true of them while no hash is written,
\* nobody reads the row, and a press that was not alone stays so.
LEMMA RowKept ==
    ASSUME CheckoutInv, CheckoutTypeOK', UNCHANGED <<ckEscrow.hash, ckEscrow.noted>>,
           ckBounty.deleted => ckBounty'.deleted, ckBounty'.st = "funded" => ckEscrow.hash # CkNone,
           \A q \in CkPresses :
             /\ ckPress'[q].gone = ckPress[q].gone /\ ckPress'[q].saw = ckPress[q].saw
             /\ ckPress'[q].calm => ckPress[q].calm
             /\ CkAt(q, "write")' => CkAt(q, "write")
             /\ ckPress[q].pc \in {"lock", "done"} => ckPress'[q].pc \in {"lock", "done"}
             /\ ckPress[q].gone => \/ ckPress'[q].pc = ckPress[q].pc
                                   \/ ckPress'[q].pc = "done" /\ ~ ckPress'[q].calm
    PROVE  /\ HashKnown' /\ \A q \in CkPresses : GoneKnown(q)' /\ WriterKnows(q)'
           /\ \A q \in CkPresses : Displaced(q) => Displaced(q)'
<1>1. /\ ckEscrow'.hash = ckEscrow.hash /\ ckEscrow'.noted = ckEscrow.noted
      /\ ckEscrow.hash \in CkPresses \cup {CkNone} /\ ckEscrow.noted \in CkPresses \cup {CkNone}
      /\ CkNone \notin CkPresses
  BY CheckoutAssumption DEF CheckoutInv, CheckoutTypeOK
<1>2. HashKnown'
  BY <1>1 DEF CheckoutInv, HashKnown
<1>3. ASSUME NEW q \in CkPresses PROVE GoneKnown(q)' /\ WriterKnows(q)'
  <2>1. GoneKnown(q) /\ WriterKnows(q) /\ ckPress[q].saw \in CkPresses \cup {CkNone}
    BY CheckoutTyped DEF CheckoutInv
  <2>2. GoneKnown(q)'
    BY <1>1, <2>1 DEF GoneKnown
  <2>3. WriterKnows(q)'
    <3> SUFFICES ASSUME CkAt(q, "write")' PROVE WriterKnows(q)'
      BY DEF WriterKnows, CkAt
    <3>1. CkAt(q, "write")
      OBVIOUS
    <3> QED
      BY <1>1, <2>1, <3>1 DEF WriterKnows
  <2> QED
    BY <2>2, <2>3
<1>4. \A q \in CkPresses : Displaced(q) => Displaced(q)'
  BY <1>1 DEF Displaced
<1> QED
  BY <1>2, <1>3, <1>4

\* A step that moves one press and no money, and lets nobody into the handler.
LEMMA PressMoves ==
    ASSUME CheckoutInv, NEW p \in CkPresses, NEW r \in Press,
           ckPress' = [ckPress EXCEPT ![p] = r], UNCHANGED <<ckBounty, ckEscrow, ckSettled>>,
           r.calm = ckPress[p].calm, r.gone = ckPress[p].gone, r.saw = ckPress[p].saw,
           r.pc \in {"settle", "record", "write"} =>
             InHandler(p) /\ r.topUp = ckPress[p].topUp /\ r.told # "paid",
           r.pc \in {"lock", "done"} \/ ckPress[p].pc \notin {"lock", "done"},
           r.pc \in {"idle", "sign", "post"} => r.told = "nothing",
           r.pc \in {"idle", "sign", "post", "settle"} => p \notin ckSettled,
           r.pc = "lock" => ~ r.topUp /\ r.told = "paid",
           r.pc = "write" => ~ r.topUp /\ CkAt(p, "write"),
           r.gone => r.pc = ckPress[p].pc,
           r.told = "paid" => IF r.topUp THEN p \in ckEscrow.credited ELSE ckEscrow.hash # CkNone,
           p \in ckSettled => r.pc \in {"settle", "record", "write"} \/ CkKept(p) \/ ~ r.calm
    PROVE  CheckoutInv'
<1>1. /\ ckPress'[p] = r
      /\ \A q \in CkPresses : q # p => ckPress'[q] = ckPress[q]
      /\ ckPress' \in [CkPresses -> Press]
  BY DEF CheckoutInv, CheckoutTypeOK
<1>2. /\ InHandler(p)' = (r.pc \in {"settle", "record", "write"})
      /\ \A q \in CkPresses : q # p => InHandler(q)' = InHandler(q)
      /\ InHandler(p)' => InHandler(p)
  BY <1>1 DEF InHandler
<1>3. CheckoutTypeOK'
  BY <1>1 DEF CheckoutInv, CheckoutTypeOK
<1>4. \A q \in CkPresses : ckPress'[q].calm = ckPress[q].calm
  BY <1>1
<1>5. /\ HashKnown' /\ \A q \in CkPresses : GoneKnown(q)' /\ WriterKnows(q)'
      /\ \A q \in CkPresses : Displaced(q) => Displaced(q)'
  <2>1. ckBounty.st = "funded" => ckEscrow.hash # CkNone
    BY DEF CheckoutInv, HashKnown
  <2>2. ASSUME NEW q \in CkPresses
        PROVE  /\ ckPress'[q].gone = ckPress[q].gone /\ ckPress'[q].saw = ckPress[q].saw
               /\ ckPress'[q].calm => ckPress[q].calm
               /\ CkAt(q, "write")' => CkAt(q, "write")
               /\ ckPress[q].pc \in {"lock", "done"} => ckPress'[q].pc \in {"lock", "done"}
               /\ ckPress[q].gone => \/ ckPress'[q].pc = ckPress[q].pc
                                     \/ ckPress'[q].pc = "done" /\ ~ ckPress'[q].calm
    BY <1>1, <1>4 DEF CkAt
  <2>3. /\ UNCHANGED <<ckEscrow.hash, ckEscrow.noted>>
        /\ ckBounty.deleted => ckBounty'.deleted
        /\ ckBounty'.st = "funded" => ckEscrow.hash # CkNone
    BY <2>1
  <2> QED
    BY <1>3, <2>2, <2>3, RowKept
<1>6. \A q \in CkPresses : CkKnows(q)'
  <2> SUFFICES ASSUME NEW q \in CkPresses PROVE CkKnows(q)'
    OBVIOUS
  <2>1. CkKnows(q)
    BY DEF CheckoutInv
  <2>2. InHandler(q)' /\ ckPress'[q].calm =>
          InHandler(q) /\ ckPress[q].calm /\ ckPress'[q].topUp = ckPress[q].topUp
    BY <1>1, <1>2, <1>4
  <2>3. CASE q = p
    BY <1>1, <1>2, <2>1, <2>2, <2>3 DEF CkKnows, Wanted
  <2>4. CASE q # p
    BY <1>1, <1>2, <2>1, <2>2, <2>4 DEF CkKnows, Wanted
  <2> QED
    BY <2>3, <2>4
<1>7. \A q \in ckSettled :
        InHandler(q)' \/ CkKept(q)' \/ Displaced(q)' \/ ~ ckPress'[q].calm
  BY <1>1, <1>2, <1>5 DEF CheckoutInv, CheckoutTypeOK, CkKept
<1> QED
  BY <1>3, <1>5, <1>6, <1>7 DEF CheckoutInv

\* The handler, or the browser, ends a press with an answer.
LEMMA AnswerMoves ==
    ASSUME CheckoutInv, NEW p \in CkPresses, NEW told \in {"paid", "failed"}, CkAnswer(p, told),
           UNCHANGED <<ckBounty, ckEscrow, ckSettled>>, ckPress[p].pc \notin {"write", "done"},
           told = "paid" =>
             IF ckPress[p].topUp THEN p \in ckEscrow.credited ELSE ckEscrow.hash # CkNone,
           p \in ckSettled => CkKept(p) \/ ~ ckPress[p].calm
    PROVE  CheckoutInv'
<1> DEFINE r == [ckPress[p] EXCEPT !.pc = "done", !.told = CkTell(p, told)]
<1>1. ckPress[p] \in Press /\ CkKnows(p) /\ ~ ckPress[p].gone
  BY CheckoutTyped DEF CheckoutInv, GoneKnown
<1>2. /\ r \in Press /\ r.pc = "done" /\ r.told \in {ckPress[p].told, told}
      /\ r.calm = ckPress[p].calm /\ r.topUp = ckPress[p].topUp
      /\ r.gone = ckPress[p].gone /\ r.saw = ckPress[p].saw
  BY <1>1 DEF Press, PressPC, CkTell
<1>3. ckPress' = [ckPress EXCEPT ![p] = r]
  BY <1>1 DEF CkAnswer, CheckoutInv, CheckoutTypeOK
<1> HIDE DEF r
<1> QED
  BY <1>1, <1>2, <1>3, PressMoves DEF CkKnows

LEMMA RecordedMoves ==
    ASSUME CheckoutInv, NEW p \in CkPresses, ckPress[p].pc \in {"sign", "post"},
           PaidBefore(ckPress[p].topUp), CkRecorded(p),
           UNCHANGED <<ckBounty, ckEscrow, ckSettled>>
    PROVE  CheckoutInv'
<1> DEFINE r == [ckPress[p] EXCEPT !.pc = "lock", !.told = "paid"]
<1>1. ckPress[p] \in Press /\ CkKnows(p) /\ ckPress[p].told = "nothing" /\ ~ ckPress[p].gone
  BY CheckoutTyped DEF CheckoutInv, CkKnows, GoneKnown
<1>2. ~ ckPress[p].topUp /\ ckEscrow.hash # CkNone
  BY DEF PaidBefore, CheckoutInv, HashKnown
<1>3. /\ r \in Press /\ r.pc = "lock" /\ r.told = "paid"
      /\ r.calm = ckPress[p].calm /\ r.topUp = ckPress[p].topUp
      /\ r.gone = ckPress[p].gone /\ r.saw = ckPress[p].saw
  BY <1>1 DEF Press, PressPC
<1>4. ckPress' = [ckPress EXCEPT ![p] = r]
  BY <1>1, <1>2 DEF CkRecorded, CkTell, CheckoutInv, CheckoutTypeOK
<1> HIDE DEF r
<1> QED
  BY <1>1, <1>2, <1>3, <1>4, PressMoves DEF CkKnows

\* The steps of a press that move no money.
PressOnly(p) ==
    \/ PressPay(p) \/ (\E price \in CkFaces : SignChallenge(p, price)) \/ NoChallenge(p)
    \/ AnsweredUnpaid(p) \/ AnswerLost(p) \/ LockFails(p) \/ PostRefused(p)
    \/ SettleRefused(p)

LEMMA PressOnlyStep ==
    ASSUME CheckoutInv, NEW p \in CkPresses, PressOnly(p)
    PROVE  CheckoutInv'
<1> DEFINE q == ckPress[p]
<1>1. q \in Press /\ CkKnows(p) /\ (q.gone => q.pc \in {"write", "done"})
  BY CheckoutTyped DEF CheckoutInv, GoneKnown
<1>f. ckPress \in [CkPresses -> Press]
  BY DEF CheckoutInv, CheckoutTypeOK
<1>s. p \in ckSettled /\ ~ q.gone => InHandler(p) \/ CkKept(p) \/ ~ q.calm
  BY DEF CheckoutInv, Displaced
<1>2. CASE PressPay(p)
  <2> DEFINE top == ckBounty.st = "funded"
             r == [q EXCEPT !.pc = "sign", !.topUp = top]
  <2>0. top \in BOOLEAN
    OBVIOUS
  <2>1. /\ q.pc = "idle" /\ ~ q.gone /\ ckPress' = [ckPress EXCEPT ![p] = r]
        /\ q.told = "nothing" /\ p \notin ckSettled /\ UNCHANGED <<ckBounty, ckEscrow, ckSettled>>
    BY <1>1, <1>f, <1>2 DEF PressPay, CkAt, CkKnows
  <2> HIDE DEF top
  <2>2. /\ r \in Press /\ r.pc = "sign" /\ r.told = q.told /\ r.calm = q.calm
        /\ r.gone = q.gone /\ r.saw = q.saw
    BY <1>1, <2>0 DEF Press, PressPC
  <2> HIDE DEF r
  <2> QED
    BY <2>1, <2>2, PressMoves
<1>3. ASSUME NEW price \in CkFaces, SignChallenge(p, price) PROVE CheckoutInv'
  <2> DEFINE r == [q EXCEPT !.pc = "post", !.price = price]
  <2>1. /\ q.pc = "sign" /\ ~ q.gone /\ ckPress' = [ckPress EXCEPT ![p] = r]
        /\ q.told = "nothing" /\ p \notin ckSettled /\ UNCHANGED <<ckBounty, ckEscrow, ckSettled>>
    BY <1>1, <1>f, <1>3 DEF SignChallenge, CkAt, CkKnows
  <2>2. /\ r \in Press /\ r.pc = "post" /\ r.told = q.told /\ r.calm = q.calm
        /\ r.gone = q.gone /\ r.saw = q.saw
    BY <1>1 DEF Press, PressPC
  <2> HIDE DEF r
  <2> QED
    BY <2>1, <2>2, PressMoves
<1>4. CASE NoChallenge(p)
  BY <1>1, <1>4, AnswerMoves DEF NoChallenge, CkAt, CkKnows
<1>5. CASE AnsweredUnpaid(p)
  BY <1>5, RecordedMoves DEF AnsweredUnpaid
<1>6. CASE AnswerLost(p)
  <2> DEFINE r == [q EXCEPT !.told = "failed"]
  <2>1. InHandler(p) /\ ckPress' = [ckPress EXCEPT ![p] = r]
    BY <1>1, <1>f, <1>6 DEF AnswerLost
  <2>2. /\ r \in Press /\ r.pc = q.pc /\ r.told = "failed" /\ r.calm = q.calm
        /\ r.topUp = q.topUp /\ r.gone = q.gone /\ r.saw = q.saw
    BY <1>1 DEF Press
  <2> HIDE DEF r
  <2> QED
    BY <1>1, <1>6, <2>1, <2>2, PressMoves DEF AnswerLost, CkKnows, InHandler, CkAt
<1>7. CASE LockFails(p)
  BY <1>1, <1>s, <1>7, AnswerMoves DEF LockFails, CkAt, CkKnows, InHandler
<1>8. CASE PostRefused(p)
  BY <1>1, <1>8, AnswerMoves DEF PostRefused, CkAt, CkKnows
<1>9. CASE SettleRefused(p)
  BY <1>1, <1>9, AnswerMoves DEF SettleRefused, CkAt, CkKnows
<1> QED
  BY <1>2, <1>3, <1>4, <1>5, <1>6, <1>7, <1>8, <1>9 DEF PressOnly

\* The read before the write.  A press that finds no hash on a deleted bounty comes
\* before all others that found it deleted and were alone.
LEMMA ReadRowStep ==
    ASSUME CheckoutInv, NEW p \in CkPresses, RecordInbound(p)
    PROVE  CheckoutInv'
<1> DEFINE q == ckPress[p]
           wanted == ckBounty.st = "pending_fund" /\ ckEscrow.hash = CkNone
<1>1. q \in Press /\ CkKnows(p) /\ ~ q.gone
  BY CheckoutTyped DEF CheckoutInv, GoneKnown, RecordInbound, CkAt
<1>2. /\ q.pc = "record" /\ ~ q.topUp /\ UNCHANGED <<ckBounty, ckEscrow, ckSettled>>
      /\ InHandler(p)
  BY DEF RecordInbound, CkAt, InHandler
<1>f. /\ ckPress \in [CkPresses -> Press] /\ CkNone \notin CkPresses
      /\ ckEscrow.hash \in CkPresses \cup {CkNone} /\ ckEscrow.noted \in CkPresses \cup {CkNone}
      /\ ckBounty.deleted \in BOOLEAN
  BY CheckoutTyped, CheckoutAssumption DEF CheckoutInv, CheckoutTypeOK
<1>3. CASE ckBounty.deleted \/ wanted
  <2> DEFINE gone == ckBounty.deleted
             saw == ckEscrow.hash
             r == [q EXCEPT !.pc = "write", !.gone = gone, !.saw = saw]
  <2>1. ckPress' = [ckPress EXCEPT ![p] = r]
    BY <1>1, <1>f, <1>3 DEF RecordInbound
  <2>2. /\ r \in Press /\ r.pc = "write" /\ r.told = q.told /\ r.calm = q.calm
        /\ r.topUp = q.topUp /\ r.gone = ckBounty.deleted /\ r.saw = ckEscrow.hash
    <3>1. gone \in BOOLEAN /\ saw \in CkPresses \cup {CkNone}
      BY <1>f
    <3> HIDE DEF gone, saw
    <3>2. /\ r \in Press /\ r.pc = "write" /\ r.told = q.told /\ r.calm = q.calm
          /\ r.topUp = q.topUp /\ r.gone = gone /\ r.saw = saw
      BY <1>1, <3>1 DEF Press, PressPC
    <3> QED
      BY <3>2 DEF gone, saw
  <2> HIDE DEF r
  <2>3. /\ ckPress'[p] = r
        /\ \A x \in CkPresses : x # p => ckPress'[x] = ckPress[x]
        /\ ckPress' \in [CkPresses -> Press]
    BY <1>f, <2>1, <2>2
  <2>4. CheckoutTypeOK'
    BY <1>2, <2>3 DEF CheckoutInv, CheckoutTypeOK
  <2>5. \A x \in CkPresses : InHandler(x)' = InHandler(x) /\ ckPress'[x].calm = ckPress[x].calm
    BY <1>2, <2>2, <2>3 DEF InHandler
  <2>6. ckEscrow.hash # p /\ ckEscrow.noted # p
    BY <1>1, <1>2, <1>f DEF CheckoutInv, HashKnown
  <2>7. HashKnown'
    BY <1>2, <1>f, <2>3, <2>6 DEF CheckoutInv, HashKnown
  <2>8. ASSUME NEW x \in CkPresses PROVE CkKnows(x)' /\ GoneKnown(x)'
    <3>1. CkKnows(x) /\ GoneKnown(x)
      BY DEF CheckoutInv
    <3>2. CkKnows(x)'
      BY <1>1, <1>2, <2>2, <2>3, <2>5, <3>1 DEF CkKnows, Wanted
    <3>3. GoneKnown(x)'
      BY <1>1, <1>2, <2>2, <2>3, <2>5, <3>1 DEF GoneKnown
    <3> QED
      BY <3>2, <3>3
  <2>9. ASSUME NEW x \in CkPresses, x # p, InHandler(x) PROVE ~ ckPress[p].calm /\ ~ ckPress[x].calm
    BY <1>2, <2>9 DEF CheckoutInv, CkKnows
  <2>10. ASSUME NEW x \in CkPresses, CkAt(x, "write")' PROVE WriterKnows(x)'
    <3>1. CASE x = p
      <4>1. ckEscrow.hash # CkNone => ckPress'[ckEscrow.hash].pc \in {"lock", "done"}
        BY <1>f, <2>3, <2>6 DEF CheckoutInv, HashKnown
      <4>2. ASSUME NEW y \in CkPresses, y # p, ckPress'[y].gone, ckEscrow.hash = CkNone
            PROVE  ~ ckPress'[y].calm
        <5>1. ckPress[y].gone /\ GoneKnown(y)
          BY <2>3, <4>2 DEF CheckoutInv
        <5> QED
          BY <2>5, <2>9, <4>2, <5>1 DEF GoneKnown, InHandler
      <4>3. ckEscrow.hash # CkNone => ckBounty.deleted
        BY <1>3
      <4> QED
        BY <1>2, <1>f, <2>2, <2>3, <3>1, <4>1, <4>2, <4>3 DEF WriterKnows
    <3>2. CASE x # p
      <4>1. /\ CkAt(x, "write") /\ ckPress'[x] = ckPress[x] /\ WriterKnows(x)
            /\ ckPress[x].saw \in CkPresses \cup {CkNone}
        BY <2>3, <2>10, <3>2, CheckoutTyped DEF CheckoutInv, CkAt
      <4>2. ~ ckPress[p].calm
        BY <2>9, <3>2, <4>1 DEF CkAt, InHandler
      <4>3. ckPress[x].saw # CkNone =>
              /\ ckPress[ckPress[x].saw].pc \in {"lock", "done"}
              /\ ckPress'[ckPress[x].saw] = ckPress[ckPress[x].saw]
        BY <1>2, <1>f, <2>3, <4>1 DEF WriterKnows
      <4>4. ckEscrow.hash # CkNone => ckPress'[ckEscrow.hash] = ckPress[ckEscrow.hash]
        BY <1>f, <2>3, <2>6
      <4>5. ASSUME NEW y \in CkPresses, y # x, ckPress'[y].gone, ckPress[x].saw = CkNone
            PROVE  ~ ckPress'[y].calm
        BY <2>3, <2>5, <4>1, <4>2, <4>5 DEF WriterKnows
      <4> QED
        BY <1>2, <4>1, <4>3, <4>4, <4>5 DEF WriterKnows
    <3> QED
      BY <3>1, <3>2
  <2>11. \A x \in CkPresses : WriterKnows(x)'
    BY <2>10 DEF WriterKnows, CkAt
  <2>12. ASSUME NEW x \in ckSettled
         PROVE  InHandler(x)' \/ CkKept(x)' \/ Displaced(x)' \/ ~ ckPress'[x].calm
    <3>1. x \in CkPresses /\ (InHandler(x) \/ CkKept(x) \/ Displaced(x) \/ ~ ckPress[x].calm)
      BY DEF CheckoutInv, CheckoutTypeOK
    <3> QED
      BY <1>1, <1>2, <2>3, <2>5, <3>1 DEF CkKept, Displaced
  <2> QED
    BY <1>2, <2>4, <2>7, <2>8, <2>11, <2>12 DEF CheckoutInv
<1>4. CASE ~ (ckBounty.deleted \/ wanted)
  <2>1. CkAnswer(p, "failed")
    BY <1>4 DEF RecordInbound
  <2>2. ~ q.calm
    BY <1>1, <1>2, <1>4 DEF CkKnows, Wanted
  <2> QED
    BY <1>2, <2>1, <2>2, AnswerMoves
<1> QED
  BY <1>3, <1>4

\* A step of the bounty, or of the lock, that may disturb the presses in the handler.
LEMMA BountyMoves ==
    ASSUME CheckoutInv, CheckoutTypeOK', ckSettled' = ckSettled,
           ckEscrow'.hash = ckEscrow.hash, ckEscrow.credited \subseteq ckEscrow'.credited,
           ckEscrow'.noted = ckEscrow.noted, ckBounty'.st = "funded" => ckEscrow.hash # CkNone,
           ckBounty.deleted => ckBounty'.deleted,
           \A q \in CkPresses :
             /\ ckPress'[q].pc = ckPress[q].pc \/ (CkAt(q, "lock") /\ ckPress'[q].pc = "done")
             /\ ckPress'[q].topUp = ckPress[q].topUp /\ ckPress'[q].told = ckPress[q].told
             /\ ckPress'[q].gone = ckPress[q].gone /\ ckPress'[q].saw = ckPress[q].saw
             /\ ckPress'[q].calm => ckPress[q].calm,
           \A q \in CkPresses : InHandler(q) /\ ckPress'[q].calm =>
             IF ckPress[q].topUp THEN Wanted(TRUE)' ELSE ckBounty'.deleted \/ Wanted(FALSE)'
    PROVE  CheckoutInv'
<1>1. \A q \in CkPresses : InHandler(q)' = InHandler(q)
  BY DEF InHandler, CkAt
<1>2. \A q \in CkPresses : GoneKnown(q)
  BY DEF CheckoutInv
<1>3. /\ HashKnown' /\ \A q \in CkPresses : GoneKnown(q)' /\ WriterKnows(q)'
      /\ \A q \in CkPresses : Displaced(q) => Displaced(q)'
  <2>1. ASSUME NEW q \in CkPresses
        PROVE  /\ CkAt(q, "write")' => CkAt(q, "write")
               /\ ckPress[q].pc \in {"lock", "done"} => ckPress'[q].pc \in {"lock", "done"}
               /\ ckPress[q].gone => ckPress'[q].pc = ckPress[q].pc
    BY <1>2 DEF CkAt, GoneKnown
  <2>2. UNCHANGED <<ckEscrow.hash, ckEscrow.noted>>
    OBVIOUS
  <2> QED
    BY <2>1, <2>2, RowKept
<1>4. \A q \in CkPresses : CkKnows(q)'
  <2> SUFFICES ASSUME NEW q \in CkPresses PROVE CkKnows(q)'
    OBVIOUS
  <2>1. CkKnows(q)
    BY DEF CheckoutInv
  <2> QED
    BY <1>1, <2>1 DEF CkKnows, CkAt
<1>5. \A q \in ckSettled :
        InHandler(q)' \/ CkKept(q)' \/ Displaced(q)' \/ ~ ckPress'[q].calm
  BY <1>1, <1>3 DEF CheckoutInv, CheckoutTypeOK, CkKept
<1> QED
  BY <1>3, <1>4, <1>5 DEF CheckoutInv

BountyOnly ==
    \/ \E p \in CkPresses : LockInbound(p)
    \/ \E f \in CkFaces : EditFace(f)
    \/ EndBounty \/ DeleteBounty \/ CloseTopUps

LEMMA BountyStep ==
    ASSUME CheckoutInv, BountyOnly
    PROVE  CheckoutInv'
<1>f. /\ ckPress \in [CkPresses -> Press]
      /\ \A q \in CkPresses : ckPress[q] \in Press /\ CkKnows(q)
  BY DEF CheckoutInv, CheckoutTypeOK
<1>t. CheckoutTypeOK
  BY DEF CheckoutInv
<1>1. ASSUME NEW p \in CkPresses, LockInbound(p) PROVE CheckoutInv'
  <2>1. ~ ckPress[p].topUp /\ ckPress[p].told = "paid" /\ CkAt(p, "lock")
    BY <1>1, <1>f DEF LockInbound, CkKnows, CkAt
  <2>2. ckEscrow.hash \in CkPresses
    BY <1>f, <1>t, <2>1, CheckoutTyped DEF CkKnows
  <2>3. ASSUME NEW q \in CkPresses
        PROVE  /\ ckPress'[q] \in Press
               /\ ckPress'[q].pc = IF q = p THEN "done" ELSE ckPress[q].pc
               /\ ckPress'[q].topUp = ckPress[q].topUp /\ ckPress'[q].told = ckPress[q].told
               /\ ckPress'[q].gone = ckPress[q].gone /\ ckPress'[q].saw = ckPress[q].saw
               /\ ckPress'[q].calm = (ckPress[q].calm /\ ~ InHandler(q))
    <3> DEFINE calm == ckPress[q].calm /\ ~ InHandler(q)
               pc == IF q = p THEN "done" ELSE ckPress[q].pc
    <3>1. ckPress'[q] = [ckPress[q] EXCEPT !.pc = pc, !.calm = calm]
      BY <1>1 DEF LockInbound
    <3>2. calm \in BOOLEAN /\ pc \in PressPC /\ ckPress[q] \in Press
      BY <1>f DEF Press, PressPC
    <3> HIDE DEF calm, pc
    <3>3. /\ ckPress'[q] \in Press /\ ckPress'[q].pc = pc /\ ckPress'[q].calm = calm
          /\ ckPress'[q].topUp = ckPress[q].topUp /\ ckPress'[q].told = ckPress[q].told
          /\ ckPress'[q].gone = ckPress[q].gone /\ ckPress'[q].saw = ckPress[q].saw
      BY <3>1, <3>2 DEF Press
    <3> QED
      BY <3>3 DEF calm, pc
  <2>4. ckPress' \in [CkPresses -> Press]
    BY <1>1, <2>3 DEF LockInbound
  <2>5. /\ ckBounty' = [ckBounty EXCEPT !.st = "funded"] /\ ckSettled' = ckSettled
        /\ ckEscrow' = [ckEscrow EXCEPT !.credited = @ \cup {ckEscrow.hash}]
    BY <1>1 DEF LockInbound
  <2>6. CheckoutTypeOK'
    BY <1>t, <2>2, <2>4, <2>5 DEF CheckoutTypeOK
  <2>7. /\ ckEscrow'.hash = ckEscrow.hash /\ ckEscrow.credited \subseteq ckEscrow'.credited
        /\ ckEscrow'.noted = ckEscrow.noted
    BY <1>t, <2>5 DEF CheckoutTypeOK
  <2>8. ckEscrow.hash # CkNone /\ ckBounty'.deleted = ckBounty.deleted
    BY <1>t, <2>2, <2>5, CheckoutAssumption DEF CheckoutTypeOK
  <2> QED
    BY <2>1, <2>3, <2>5, <2>6, <2>7, <2>8, BountyMoves
<1>2. ASSUME NEW f \in CkFaces, EditFace(f) PROVE CheckoutInv'
  <2>1. /\ ckBounty' = [ckBounty EXCEPT !.face = f] /\ UNCHANGED <<ckEscrow, ckPress, ckSettled>>
    BY <1>2 DEF EditFace
  <2>2. CheckoutTypeOK'
    BY <1>t, <2>1 DEF CheckoutTypeOK
  <2>3. /\ ckBounty'.st = ckBounty.st /\ ckBounty'.deleted = ckBounty.deleted
        /\ ckBounty'.open = ckBounty.open
    BY <1>t, <2>1 DEF CheckoutTypeOK
  <2> QED
    BY <1>f, <2>1, <2>2, <2>3, BountyMoves DEF Wanted, CkKnows, CheckoutInv, HashKnown
<1>d. ASSUME NEW q \in CkPresses, NEW hit \in BOOLEAN,
             ckPress'[q] = [ckPress[q] EXCEPT !.calm = @ /\ ~ (InHandler(q) /\ hit)]
      PROVE  /\ ckPress'[q] \in Press
             /\ ckPress'[q].pc = ckPress[q].pc
             /\ ckPress'[q].topUp = ckPress[q].topUp /\ ckPress'[q].told = ckPress[q].told
             /\ ckPress'[q].gone = ckPress[q].gone /\ ckPress'[q].saw = ckPress[q].saw
             /\ ckPress'[q].calm => ckPress[q].calm /\ (InHandler(q) => ~ hit)
  <2> DEFINE calm == ckPress[q].calm /\ ~ (InHandler(q) /\ hit)
  <2>1. ckPress'[q] = [ckPress[q] EXCEPT !.calm = calm]
    BY <1>d
  <2>2. calm \in BOOLEAN /\ ckPress[q] \in Press
    BY <1>f
  <2> HIDE DEF calm
  <2>3. /\ ckPress'[q] \in Press /\ ckPress'[q].pc = ckPress[q].pc /\ ckPress'[q].calm = calm
        /\ ckPress'[q].topUp = ckPress[q].topUp /\ ckPress'[q].told = ckPress[q].told
        /\ ckPress'[q].gone = ckPress[q].gone /\ ckPress'[q].saw = ckPress[q].saw
    BY <2>1, <2>2 DEF Press
  <2> QED
    BY <2>3 DEF calm
<1>3. CASE EndBounty
  <2>1. /\ ckBounty' = [ckBounty EXCEPT !.st = "ended"] /\ UNCHANGED <<ckEscrow, ckSettled>>
        /\ ckPress' = [q \in CkPresses |->
              [ckPress[q] EXCEPT !.calm = @ /\ ~ (InHandler(q) /\ TRUE)]]
    BY <1>3 DEF EndBounty, CkDisturb
  <2>2. ASSUME NEW q \in CkPresses
        PROVE  ckPress'[q] = [ckPress[q] EXCEPT !.calm = @ /\ ~ (InHandler(q) /\ TRUE)]
    BY <2>1
  <2>3. ckPress' \in [CkPresses -> Press]
    BY <1>d, <2>1, <2>2
  <2>4. CheckoutTypeOK'
    BY <1>t, <2>1, <2>3 DEF CheckoutTypeOK
  <2>5. ckBounty'.st = "ended" /\ ckBounty'.deleted = ckBounty.deleted
    BY <1>t, <2>1 DEF CheckoutTypeOK
  <2> QED
    BY <1>d, <2>1, <2>2, <2>4, <2>5, BountyMoves
<1>4. CASE DeleteBounty
  <2>1. /\ ckBounty' = [ckBounty EXCEPT !.deleted = TRUE, !.st = "ended"]
        /\ UNCHANGED <<ckEscrow, ckSettled>>
        /\ ckPress' = [q \in CkPresses |->
              [ckPress[q] EXCEPT !.calm = @ /\ ~ (InHandler(q) /\ ckPress[q].topUp)]]
    BY <1>4 DEF DeleteBounty, CkDisturb
  <2>2. ASSUME NEW q \in CkPresses
        PROVE  /\ ckPress'[q] = [ckPress[q] EXCEPT !.calm = @ /\ ~ (InHandler(q) /\ ckPress[q].topUp)]
               /\ ckPress[q].topUp \in BOOLEAN
    BY <1>f, <2>1 DEF Press
  <2>3. ckPress' \in [CkPresses -> Press]
    BY <1>d, <2>1, <2>2
  <2>4. CheckoutTypeOK'
    BY <1>t, <2>1, <2>3 DEF CheckoutTypeOK
  <2>5. ckBounty'.st = "ended" /\ ckBounty'.deleted
    BY <1>t, <2>1 DEF CheckoutTypeOK
  <2> QED
    BY <1>d, <2>1, <2>2, <2>4, <2>5, BountyMoves
<1>5. CASE CloseTopUps
  <2>1. /\ ckBounty.st = "funded"
        /\ ckBounty' = [ckBounty EXCEPT !.open = FALSE]
        /\ UNCHANGED <<ckEscrow, ckSettled>>
        /\ ckPress' = [q \in CkPresses |->
              [ckPress[q] EXCEPT !.calm = @ /\ ~ (InHandler(q) /\ ckPress[q].topUp)]]
    BY <1>5 DEF CloseTopUps, CkDisturb
  <2>2. ASSUME NEW q \in CkPresses
        PROVE  /\ ckPress'[q] = [ckPress[q] EXCEPT !.calm = @ /\ ~ (InHandler(q) /\ ckPress[q].topUp)]
               /\ ckPress[q].topUp \in BOOLEAN
    BY <1>f, <2>1 DEF Press
  <2>3. ckPress' \in [CkPresses -> Press]
    BY <1>d, <2>1, <2>2
  <2>4. CheckoutTypeOK'
    BY <1>t, <2>1, <2>3 DEF CheckoutTypeOK
  <2>5. ckBounty'.st = ckBounty.st /\ ckBounty'.deleted = ckBounty.deleted
    BY <1>t, <2>1 DEF CheckoutTypeOK
  <2>6. ASSUME NEW q \in CkPresses, InHandler(q), ckPress'[q].calm
        PROVE  ~ ckPress[q].topUp /\ (ckBounty'.deleted \/ Wanted(FALSE)')
    <3>1. ckPress[q].calm /\ ~ ckPress[q].topUp
      BY <1>d, <2>2, <2>6
    <3>2. ckBounty.deleted \/ Wanted(FALSE)
      BY <1>f, <2>6, <3>1 DEF CkKnows
    <3> QED
      BY <2>1, <2>5, <3>1, <3>2 DEF Wanted
  <2> QED
    BY <1>d, <2>1, <2>2, <2>4, <2>5, <2>6, BountyMoves DEF CheckoutInv, HashKnown
<1> QED
  BY <1>1, <1>2, <1>3, <1>4, <1>5 DEF BountyOnly

\* A posted payment comes into the handler: whoever was there is not alone any more.
LEMMA EnterStep ==
    ASSUME CheckoutInv, NEW p \in CkPresses, NEW topUp \in BOOLEAN, CkEnter(p, topUp),
           topUp => Wanted(TRUE), ~ topUp => ckBounty.deleted \/ Wanted(FALSE),
           UNCHANGED <<ckBounty, ckEscrow, ckSettled>>
    PROVE  CheckoutInv'
<1> DEFINE others == {q \in CkPresses : InHandler(q)}
           alone == others = {}
<1>f. /\ ckPress \in [CkPresses -> Press]
      /\ \A q \in CkPresses : ckPress[q] \in Press /\ CkKnows(q)
  BY DEF CheckoutInv, CheckoutTypeOK
<1>1. /\ ckPress[p].pc = "post" /\ ckPress[p].told = "nothing" /\ p \notin ckSettled
      /\ ~ ckPress[p].gone
  BY <1>f DEF CkEnter, CkAt, CkKnows, CheckoutInv, GoneKnown
<1>2. /\ ckPress'[p] = [ckPress[p] EXCEPT !.pc = "settle", !.topUp = topUp,
              !.asked = IF topUp THEN @ ELSE ckBounty.face, !.calm = alone]
      /\ \A q \in CkPresses : q # p =>
            ckPress'[q] = [ckPress[q] EXCEPT !.calm = @ /\ q \notin others]
      /\ DOMAIN ckPress' = CkPresses
  BY DEF CkEnter
<1>3. /\ ckPress'[p] \in Press /\ ckPress'[p].pc = "settle" /\ ckPress'[p].topUp = topUp
      /\ ckPress'[p].told = "nothing" /\ ckPress'[p].calm = alone
      /\ ckPress'[p].gone = ckPress[p].gone /\ ckPress'[p].saw = ckPress[p].saw
  <2> DEFINE asked == IF topUp THEN ckPress[p].asked ELSE ckBounty.face
             r == [ckPress[p] EXCEPT !.pc = "settle", !.topUp = topUp, !.asked = asked,
                                     !.calm = alone]
  <2>1. alone \in BOOLEAN /\ asked \in CkFaces \cup {CkNone}
    BY <1>f, CheckoutTyped DEF CheckoutInv, Press
  <2>2. ckPress'[p] = r
    BY <1>2
  <2> HIDE DEF alone, asked
  <2> QED
    BY <1>f, <1>1, <2>1, <2>2 DEF Press, PressPC
<1>4. ASSUME NEW q \in CkPresses, q # p
      PROVE  /\ ckPress'[q] \in Press /\ ckPress'[q].pc = ckPress[q].pc
             /\ ckPress'[q].topUp = ckPress[q].topUp /\ ckPress'[q].told = ckPress[q].told
             /\ ckPress'[q].gone = ckPress[q].gone /\ ckPress'[q].saw = ckPress[q].saw
             /\ ckPress'[q].calm => ckPress[q].calm /\ ~ InHandler(q)
  <2> DEFINE calm == ckPress[q].calm /\ q \notin others
  <2>1. ckPress'[q] = [ckPress[q] EXCEPT !.calm = calm]
    BY <1>2, <1>4
  <2>2. calm \in BOOLEAN /\ ckPress[q] \in Press
    BY <1>f
  <2> HIDE DEF calm
  <2>3. /\ ckPress'[q] \in Press /\ ckPress'[q].pc = ckPress[q].pc /\ ckPress'[q].calm = calm
        /\ ckPress'[q].topUp = ckPress[q].topUp /\ ckPress'[q].told = ckPress[q].told
        /\ ckPress'[q].gone = ckPress[q].gone /\ ckPress'[q].saw = ckPress[q].saw
    BY <2>1, <2>2 DEF Press
  <2> QED
    BY <2>3 DEF calm
<1>5. ckPress' \in [CkPresses -> Press]
  <2>1. ckPress' = [q \in CkPresses |-> ckPress'[q]]
    BY DEF CkEnter
  <2> QED
    BY <1>3, <1>4, <2>1
<1>6. CheckoutTypeOK'
  BY <1>5 DEF CheckoutInv, CheckoutTypeOK
<1>7. /\ InHandler(p)' /\ ~ InHandler(p)
      /\ \A q \in CkPresses : q # p => InHandler(q)' = InHandler(q)
  BY <1>1, <1>3, <1>4 DEF InHandler
<1>9. /\ HashKnown' /\ \A q \in CkPresses : GoneKnown(q)' /\ WriterKnows(q)'
      /\ \A q \in CkPresses : Displaced(q) => Displaced(q)'
  <2>1. ckEscrow'.hash = ckEscrow.hash /\ ckEscrow'.noted = ckEscrow.noted
    OBVIOUS
  <2>2. p # ckEscrow.hash /\ p # ckEscrow.noted /\ CkNone \notin CkPresses
    BY <1>1, CheckoutAssumption DEF CheckoutInv, HashKnown
  <2>3. HashKnown'
    BY <1>4, <2>1, <2>2 DEF CheckoutInv, HashKnown, CheckoutTypeOK
  <2>4. ASSUME NEW q \in CkPresses PROVE GoneKnown(q)' /\ WriterKnows(q)'
    <3>1. GoneKnown(q) /\ WriterKnows(q) /\ ckPress[q].saw \in CkPresses \cup {CkNone}
      BY CheckoutTyped DEF CheckoutInv
    <3>2. CASE q = p
      BY <1>1, <1>3, <3>2 DEF GoneKnown, WriterKnows, CkAt
    <3>3. CASE q # p
      <4>1. GoneKnown(q)'
        BY <1>4, <2>1, <3>1, <3>3 DEF GoneKnown
      <4>2. ASSUME CkAt(q, "write")' PROVE WriterKnows(q)'
        <5>1. CkAt(q, "write") /\ ckPress'[q].saw = ckPress[q].saw /\ ckPress'[q].gone = ckPress[q].gone
          BY <1>4, <3>3, <4>2 DEF CkAt
        <5>2. ckPress[q].saw # CkNone => ckPress[q].saw \in CkPresses /\ ckPress[q].saw # p
          BY <1>1, <3>1, <5>1 DEF WriterKnows
        <5>3. ckEscrow.hash # CkNone => ckEscrow.hash \in CkPresses
          BY DEF CheckoutInv, CheckoutTypeOK
        <5>4. ASSUME NEW y \in CkPresses, y # q, ckPress'[y].gone, ckPress[q].saw = CkNone
              PROVE  ~ ckPress'[y].calm
          BY <1>1, <1>3, <1>4, <3>1, <5>1, <5>4 DEF WriterKnows
        <5> QED
          BY <1>4, <2>1, <2>2, <3>1, <5>1, <5>2, <5>3, <5>4 DEF WriterKnows
      <4> QED
        BY <4>1, <4>2 DEF WriterKnows, CkAt
    <3> QED
      BY <3>2, <3>3
  <2>5. \A q \in CkPresses : Displaced(q) => Displaced(q)'
    BY <1>1, <1>4, <2>1 DEF Displaced
  <2> QED
    BY <2>3, <2>4, <2>5
<1>10. CkKnows(p)'
  <2>1. InHandler(p)' /\ ckPress'[p].calm => \A r \in CkPresses : InHandler(r)' => r = p
    BY <1>3, <1>7
  <2> QED
    BY <1>1, <1>3, <2>1 DEF CkKnows, Wanted
<1>11. ASSUME NEW q \in CkPresses, q # p PROVE CkKnows(q)'
  BY <1>f, <1>4, <1>7, <1>11 DEF CkKnows
<1>12. \A q \in ckSettled :
         InHandler(q)' \/ CkKept(q)' \/ Displaced(q)' \/ ~ ckPress'[q].calm
  BY <1>1, <1>4, <1>7, <1>9 DEF CheckoutInv, CheckoutTypeOK, CkKept
<1> QED
  BY <1>6, <1>9, <1>10, <1>11, <1>12 DEF CheckoutInv

\* A step of a press in the handler that moves money or credits it: only p changes,
\* and it does not come in.
LEMMA MoneyMoves ==
    ASSUME CheckoutInv, NEW p \in CkPresses, NEW r \in Press, InHandler(p),
           ckPress' = [ckPress EXCEPT ![p] = r], ckBounty' = ckBounty,
           ckEscrow' \in [hash: CkPresses \cup {CkNone}, credited: SUBSET CkPresses,
                          noted: CkPresses \cup {CkNone}],
           ckSettled' \in {ckSettled, ckSettled \cup {p}},
           ckEscrow.credited \subseteq ckEscrow'.credited,
           ckEscrow'.hash = ckEscrow.hash, ckEscrow'.noted = ckEscrow.noted,
           r.pc \in {"record", "done"}, r.calm => ckPress[p].calm,
           r.topUp = ckPress[p].topUp, r.gone = ckPress[p].gone, r.saw = ckPress[p].saw,
           CkAt(p, "write") => ~ r.calm /\ r.pc = "done",
           r.pc = "record" => r.told # "paid",
           r.told = "paid" => IF r.topUp THEN p \in ckEscrow'.credited ELSE ckEscrow'.hash # CkNone,
           p \in ckSettled' => r.pc = "record" \/ CkKept(p)' \/ ~ r.calm
    PROVE  CheckoutInv'
<1>f. /\ ckPress \in [CkPresses -> Press]
      /\ \A q \in CkPresses : ckPress[q] \in Press /\ CkKnows(q) /\ GoneKnown(q)
  BY DEF CheckoutInv, CheckoutTypeOK
<1>1. /\ ckPress'[p] = r
      /\ \A q \in CkPresses : q # p => ckPress'[q] = ckPress[q]
      /\ ckPress' \in [CkPresses -> Press]
  BY <1>f
<1>2. /\ InHandler(p)' = (r.pc = "record")
      /\ \A q \in CkPresses : q # p => InHandler(q)' = InHandler(q)
  BY <1>1 DEF InHandler
<1>3. CheckoutTypeOK'
  BY <1>1 DEF CheckoutInv, CheckoutTypeOK
<1>4. /\ HashKnown' /\ \A q \in CkPresses : GoneKnown(q)' /\ WriterKnows(q)'
      /\ \A q \in CkPresses : Displaced(q) => Displaced(q)'
  <2>1. ASSUME NEW q \in CkPresses
        PROVE  /\ ckPress'[q].gone = ckPress[q].gone /\ ckPress'[q].saw = ckPress[q].saw
               /\ ckPress'[q].calm => ckPress[q].calm
               /\ CkAt(q, "write")' => CkAt(q, "write")
               /\ ckPress[q].pc \in {"lock", "done"} => ckPress'[q].pc \in {"lock", "done"}
               /\ ckPress[q].gone => \/ ckPress'[q].pc = ckPress[q].pc
                                     \/ ckPress'[q].pc = "done" /\ ~ ckPress'[q].calm
    <3>1. CASE q = p
      BY <1>f, <1>1, <3>1 DEF CkAt, GoneKnown, InHandler
    <3>2. CASE q # p
      BY <1>1, <3>2 DEF CkAt
    <3> QED
      BY <3>1, <3>2
  <2>2. /\ UNCHANGED <<ckEscrow.hash, ckEscrow.noted>> /\ (ckBounty.deleted => ckBounty'.deleted)
        /\ ckBounty'.st = "funded" => ckEscrow.hash # CkNone
    BY DEF CheckoutInv, HashKnown
  <2> QED
    BY <1>3, <2>1, <2>2, RowKept
<1>5. ASSUME NEW q \in ckSettled'
      PROVE  InHandler(q)' \/ CkKept(q)' \/ Displaced(q)' \/ ~ ckPress'[q].calm
  <2>1. CASE q = p
    BY <1>1, <1>2, <1>5, <2>1
  <2>2. CASE q # p
    <3>1. q \in ckSettled /\ q \in CkPresses
      BY <2>2 DEF CheckoutInv, CheckoutTypeOK
    <3>2. CkKept(q) => CkKept(q)'
      BY DEF CkKept
    <3> QED
      BY <1>1, <1>2, <1>4, <2>2, <3>1, <3>2 DEF CheckoutInv
  <2> QED
    BY <2>1, <2>2
<1>6. ASSUME NEW q \in CkPresses PROVE CkKnows(q)'
  <2>1. CASE q = p
    BY <1>f, <1>1, <1>2, <2>1 DEF CkKnows, Wanted, InHandler
  <2>2. CASE q # p
    BY <1>f, <1>1, <1>2, <2>2 DEF CkKnows, Wanted, InHandler
  <2> QED
    BY <2>1, <2>2
<1> QED
  BY <1>3, <1>4, <1>5, <1>6 DEF CheckoutInv

\* A press writes the row: it takes the place of a hash, or of a payment in
\* fail_reason, only when that one was not alone, or is displaced by the next.
LEMMA WriteMoves ==
    ASSUME CheckoutInv, NEW p \in CkPresses, NEW r \in Press, CkAt(p, "write"),
           ckPress' = [ckPress EXCEPT ![p] = r], UNCHANGED <<ckBounty, ckSettled>>,
           ckEscrow' \in [hash: CkPresses \cup {CkNone}, credited: SUBSET CkPresses,
                          noted: CkPresses \cup {CkNone}],
           ckEscrow'.credited = ckEscrow.credited,
           IF ckPress[p].saw # CkNone
           THEN ckEscrow'.hash = ckPress[p].saw /\ ckEscrow'.noted = p
           ELSE ckEscrow'.hash = p /\ ckEscrow'.noted = CkNone,
           r.pc \in {"lock", "done"}, r.gone => r.pc = "done", r.calm = ckPress[p].calm,
           r.topUp = ckPress[p].topUp, r.gone = ckPress[p].gone, r.saw = ckPress[p].saw,
           r.pc = "lock" => r.told = "paid"
    PROVE  CheckoutInv'
<1> DEFINE saw == ckPress[p].saw
           hash == ckEscrow.hash
<1>f. /\ ckPress \in [CkPresses -> Press] /\ CkNone \notin CkPresses
      /\ hash \in CkPresses \cup {CkNone} /\ ckEscrow.noted \in CkPresses \cup {CkNone}
      /\ saw \in CkPresses \cup {CkNone}
      /\ \A q \in CkPresses : ckPress[q] \in Press /\ CkKnows(q) /\ GoneKnown(q) /\ WriterKnows(q)
  BY CheckoutTyped, CheckoutAssumption DEF CheckoutInv, CheckoutTypeOK
<1>1. /\ ckPress'[p] = r
      /\ \A q \in CkPresses : q # p => ckPress'[q] = ckPress[q]
      /\ ckPress' \in [CkPresses -> Press]
  BY <1>f
<1>2. /\ ~ InHandler(p)' /\ InHandler(p) /\ ~ ckPress[p].topUp
      /\ \A q \in CkPresses : q # p => InHandler(q)' = InHandler(q)
      /\ \A q \in CkPresses : ckPress'[q].calm = ckPress[q].calm
      /\ \A q \in CkPresses : ckPress'[q].gone = ckPress[q].gone /\ ckPress'[q].saw = ckPress[q].saw
  BY <1>f, <1>1 DEF InHandler, CkAt, CkKnows
<1>3. CheckoutTypeOK'
  BY <1>1 DEF CheckoutInv, CheckoutTypeOK
\* The two presses of the row, and what p knows of them.
<1>4. /\ saw # CkNone => /\ ckPress[p].gone /\ saw # p /\ ckPress[saw].pc \in {"lock", "done"}
                         /\ saw = hash \/ ~ ckPress[saw].calm
      /\ hash \notin {CkNone, saw} => ~ ckPress[hash].calm
      /\ saw = CkNone => \A q \in CkPresses : q # p /\ ckPress[q].gone => ~ ckPress[q].calm
      /\ hash # p
  BY <1>f DEF WriterKnows, CheckoutInv, HashKnown, CkAt
<1>5. ckEscrow'.hash \in CkPresses /\ ckEscrow'.hash # CkNone
  BY <1>f
\* Whoever is still in the handler was there together with p.
<1>6. ASSUME NEW q \in CkPresses, q # p, InHandler(q) PROVE ~ ckPress[p].calm /\ ~ ckPress[q].calm
  BY <1>f, <1>2, <1>6 DEF CkKnows
<1>7. HashKnown'
  BY <1>1, <1>2, <1>4, <1>5 DEF HashKnown
<1>8. ASSUME NEW q \in CkPresses PROVE GoneKnown(q)'
  BY <1>f, <1>1, <1>2, <1>5 DEF GoneKnown, CkAt
<1>9. ASSUME NEW q \in CkPresses, CkAt(q, "write")' PROVE WriterKnows(q)'
  <2>1. q # p /\ CkAt(q, "write") /\ ckPress'[q] = ckPress[q] /\ InHandler(q)
    BY <1>1, <1>9 DEF CkAt, InHandler
  <2>2. WriterKnows(q) /\ ckPress[q].saw \in CkPresses \cup {CkNone} /\ ~ ckPress[p].calm
    BY <1>f, <1>6, <2>1, CheckoutTyped DEF CheckoutInv
  <2>3. ASSUME ckPress[q].saw # CkNone
        PROVE  /\ ckPress[q].gone /\ ckPress'[ckPress[q].saw].pc \in {"lock", "done"}
               /\ ckPress[q].saw = ckEscrow'.hash \/ ~ ckPress'[ckPress[q].saw].calm
    <3>1. /\ ckPress[q].gone /\ ckPress[ckPress[q].saw].pc \in {"lock", "done"}
          /\ ckPress[q].saw = hash \/ ~ ckPress[ckPress[q].saw].calm
      BY <2>1, <2>2, <2>3 DEF WriterKnows
    <3>2. ckPress[q].saw # p /\ ckPress'[ckPress[q].saw] = ckPress[ckPress[q].saw]
      BY <1>1, <2>2, <2>3, <3>1 DEF CkAt
    <3> QED
      BY <1>f, <1>4, <2>2, <2>3, <3>1, <3>2
  <2>4. ckEscrow'.hash # ckPress[q].saw => ~ ckPress'[ckEscrow'.hash].calm
    <3>1. CASE saw = CkNone
      BY <1>1, <1>2, <2>2, <3>1
    <3>2. CASE saw # CkNone
      <4>1. ckEscrow'.hash = saw /\ saw \in CkPresses
        BY <1>f, <3>2
      <4>2. CASE saw = hash
        BY <1>2, <2>1, <2>2, <3>2, <4>1, <4>2 DEF WriterKnows
      <4>3. CASE saw # hash
        BY <1>2, <1>4, <3>2, <4>1, <4>3
      <4> QED
        BY <4>2, <4>3
    <3> QED
      BY <3>1, <3>2
  <2>5. ASSUME NEW y \in CkPresses, y # q, ckPress'[y].gone, ckPress[q].saw = CkNone
        PROVE  ~ ckPress'[y].calm
    BY <1>2, <2>1, <2>2, <2>5 DEF WriterKnows
  <2> QED
    BY <1>5, <2>1, <2>3, <2>4, <2>5 DEF WriterKnows
<1>10. ASSUME NEW q \in CkPresses PROVE CkKnows(q)'
  <2>1. CASE q = p
    BY <1>f, <1>1, <1>2, <1>5, <2>1 DEF CkKnows, CkAt
  <2>2. CASE q # p
    BY <1>f, <1>1, <1>2, <1>5, <2>2 DEF CkKnows, Wanted
  <2> QED
    BY <2>1, <2>2
<1>11. ASSUME NEW q \in ckSettled
       PROVE  InHandler(q)' \/ CkKept(q)' \/ Displaced(q)' \/ ~ ckPress'[q].calm
  <2>1. CASE q = p
    BY <2>1 DEF CkKept
  <2>2. CASE q # p
    <3>1. /\ q \in CkPresses /\ ckPress'[q] = ckPress[q] /\ InHandler(q)' = InHandler(q)
          /\ InHandler(q) \/ CkKept(q) \/ Displaced(q) \/ ~ ckPress[q].calm
      BY <1>1, <1>2, <2>2 DEF CheckoutInv, CheckoutTypeOK
    <3>2. q = hash => q = saw \/ ~ ckPress[q].calm
      BY <1>4, <1>f, <3>1
    <3>3. q = ckEscrow.noted => ckPress[q].gone
      BY <1>f, <3>1 DEF CheckoutInv, HashKnown
    <3>4. CASE saw # CkNone
      BY <1>5, <2>2, <3>1, <3>2, <3>3, <3>4, <1>f DEF CkKept, Displaced
    <3>5. CASE saw = CkNone
      BY <1>4, <1>5, <2>2, <3>1, <3>2, <3>3, <3>5, <1>f DEF CkKept, Displaced
    <3> QED
      BY <3>4, <3>5
  <2> QED
    BY <2>1, <2>2
<1>12. \A q \in CkPresses : WriterKnows(q)'
  BY <1>9 DEF WriterKnows, CkAt
<1> QED
  BY <1>3, <1>7, <1>8, <1>10, <1>11, <1>12 DEF CheckoutInv

PaymentOnly(p) ==
    \/ PostPayment(p) \/ PostToDeleted(p) \/ SettlePayment(p) \/ SettledUnanswered(p)
    \/ WriteInbound(p) \/ ApplyTopUp(p)

LEMMA PaymentStep ==
    ASSUME CheckoutInv, NEW p \in CkPresses, PaymentOnly(p)
    PROVE  CheckoutInv'
<1> DEFINE q == ckPress[p]
           Rows == [hash: CkPresses \cup {CkNone}, credited: SUBSET CkPresses,
                    noted: CkPresses \cup {CkNone}]
<1>1. /\ q \in Press /\ CkKnows(p) /\ ckEscrow \in Rows
      /\ ckPress \in [CkPresses -> Press] /\ p # CkNone
      /\ q.gone => q.pc \in {"write", "done"}
      /\ CkAt(p, "write") /\ q.saw # CkNone => q.gone
      /\ q.saw \in CkPresses \cup {CkNone}
  BY CheckoutTyped DEF CheckoutInv, CheckoutTypeOK, GoneKnown, WriterKnows
<1>2. CASE PostPayment(p)
  <2>1. q.topUp \in BOOLEAN
    BY <1>1 DEF Press
  <2> QED
    BY <1>2, <2>1, EnterStep DEF PostPayment
<1>3. CASE PostToDeleted(p)
  BY <1>3, EnterStep DEF PostToDeleted
<1>4. CASE SettlePayment(p)
  <2> DEFINE r == [q EXCEPT !.pc = "record"]
  <2>1. /\ q.pc = "settle" /\ ckPress' = [ckPress EXCEPT ![p] = r]
        /\ ckSettled' = ckSettled \cup {p} /\ UNCHANGED <<ckBounty, ckEscrow>>
    BY <1>1, <1>4 DEF SettlePayment, CkAt
  <2>2. /\ r \in Press /\ r.pc = "record" /\ r.topUp = q.topUp /\ r.told = q.told
        /\ r.calm = q.calm /\ r.gone = q.gone /\ r.saw = q.saw
    BY <1>1 DEF Press, PressPC
  <2> HIDE DEF r
  <2> QED
    BY <1>1, <2>1, <2>2, MoneyMoves DEF CkKnows, InHandler, CkAt
<1>5. CASE SettledUnanswered(p)
  <2> DEFINE r == [q EXCEPT !.pc = "done", !.calm = FALSE, !.told = CkTell(p, "failed")]
  <2>1. /\ InHandler(p) /\ ckPress' = [ckPress EXCEPT ![p] = r]
        /\ ckSettled' = ckSettled \cup {p} /\ UNCHANGED <<ckBounty, ckEscrow>>
    BY <1>1, <1>5 DEF SettledUnanswered
  <2>2. /\ r \in Press /\ r.pc = "done" /\ r.topUp = q.topUp /\ r.told \in {q.told, "failed"}
        /\ ~ r.calm /\ r.gone = q.gone /\ r.saw = q.saw
    BY <1>1 DEF Press, PressPC, CkTell
  <2> HIDE DEF r
  <2> QED
    BY <1>1, <2>1, <2>2, MoneyMoves DEF CkKnows
<1>6. CASE WriteInbound(p) /\ ~ q.gone
  <2> DEFINE pc == IF q.told = "nothing" THEN "lock" ELSE "done"
             r == [q EXCEPT !.told = CkTell(p, "paid"), !.pc = pc]
  <2>1. /\ CkAt(p, "write") /\ ~ q.topUp /\ q.told # "paid" /\ q.saw = CkNone
    BY <1>1, <1>6 DEF WriteInbound, CkAt, CkKnows, InHandler
  <2>2. /\ ckPress' = [ckPress EXCEPT ![p] = r]
        /\ ckEscrow' = [ckEscrow EXCEPT !.hash = p, !.noted = CkNone]
        /\ UNCHANGED <<ckBounty, ckSettled>>
    BY <1>1, <1>6, <2>1 DEF WriteInbound, CkRecorded
  <2>3. /\ pc \in {"lock", "done"} /\ CkTell(p, "paid") \in {"nothing", "paid", "failed"}
        /\ pc = "lock" => CkTell(p, "paid") = "paid"
    BY <1>1 DEF CkTell, Press
  <2> HIDE DEF pc
  <2>4. /\ r \in Press /\ r.pc = pc /\ r.topUp = q.topUp /\ r.calm = q.calm
        /\ r.told = CkTell(p, "paid") /\ r.gone = q.gone /\ r.saw = q.saw
    BY <1>1, <2>3 DEF Press, PressPC
  <2> HIDE DEF r
  <2>5. /\ ckEscrow' \in Rows /\ ckEscrow'.hash = p /\ ckEscrow'.credited = ckEscrow.credited
        /\ ckEscrow'.noted = CkNone
    BY <1>1, <2>2
  <2> QED
    BY <1>1, <1>6, <2>1, <2>2, <2>3, <2>4, <2>5, WriteMoves
<1>7. CASE WriteInbound(p) /\ q.gone
  <2> DEFINE r == [q EXCEPT !.pc = "done", !.told = CkTell(p, "failed")]
             hash == IF q.saw # CkNone THEN q.saw ELSE p
             noted == IF q.saw # CkNone THEN p ELSE CkNone
  <2>1. /\ CkAt(p, "write") /\ ckPress' = [ckPress EXCEPT ![p] = r]
        /\ ckEscrow' = [ckEscrow EXCEPT !.hash = hash, !.noted = noted]
        /\ UNCHANGED <<ckBounty, ckSettled>>
    BY <1>1, <1>7 DEF WriteInbound, CkAnswer
  <2>2. hash \in CkPresses \cup {CkNone} /\ noted \in CkPresses \cup {CkNone}
    BY <1>1
  <2>3. /\ r \in Press /\ r.pc = "done" /\ r.topUp = q.topUp /\ r.calm = q.calm
        /\ r.told \in {q.told, "failed"} /\ r.gone = q.gone /\ r.saw = q.saw
    BY <1>1 DEF Press, PressPC, CkTell
  <2> HIDE DEF r, hash, noted
  <2>4. /\ ckEscrow' \in Rows /\ ckEscrow'.hash = hash /\ ckEscrow'.noted = noted
        /\ ckEscrow'.credited = ckEscrow.credited
    BY <1>1, <2>1, <2>2
  <2>5. IF q.saw # CkNone THEN ckEscrow'.hash = q.saw /\ ckEscrow'.noted = p
        ELSE ckEscrow'.hash = p /\ ckEscrow'.noted = CkNone
    BY <2>4 DEF hash, noted
  <2> QED
    BY <1>1, <2>1, <2>3, <2>4, <2>5, WriteMoves
<1>8. CASE ApplyTopUp(p) /\ Wanted(TRUE)
  <2> DEFINE r == [q EXCEPT !.pc = "done", !.told = CkTell(p, "paid")]
  <2>1. q.pc = "record" /\ InHandler(p) /\ q.topUp
    BY <1>8 DEF ApplyTopUp, CkAt, InHandler
  <2>2. /\ ckPress' = [ckPress EXCEPT ![p] = r]
        /\ ckEscrow' = [ckEscrow EXCEPT !.credited = @ \cup {p}] /\ UNCHANGED <<ckBounty, ckSettled>>
    BY <1>1, <1>8, <2>1 DEF ApplyTopUp, CkRecorded, CkAnswer
  <2>3. /\ r \in Press /\ r.pc = "done" /\ r.topUp = q.topUp /\ r.calm = q.calm
        /\ r.gone = q.gone /\ r.saw = q.saw
    BY <1>1 DEF Press, PressPC, CkTell
  <2> HIDE DEF r
  <2>4. /\ ckEscrow' \in Rows /\ ckEscrow'.hash = ckEscrow.hash
        /\ ckEscrow'.credited = ckEscrow.credited \cup {p}
        /\ ckEscrow'.noted = ckEscrow.noted
    BY <1>1, <2>2
  <2> QED
    BY <1>1, <2>1, <2>2, <2>3, <2>4, MoneyMoves DEF CkKept, CkAt
<1>9. CASE ApplyTopUp(p) /\ ~ Wanted(TRUE)
  <2>1. CkAnswer(p, "failed") /\ UNCHANGED <<ckBounty, ckEscrow, ckSettled>>
    BY <1>9 DEF ApplyTopUp
  <2>2. ~ q.calm /\ q.pc = "record"
    BY <1>1, <1>9 DEF ApplyTopUp, CkAt, CkKnows, InHandler
  <2> QED
    BY <2>1, <2>2, AnswerMoves
<1> QED
  BY <1>2, <1>3, <1>4, <1>5, <1>6, <1>7, <1>8, <1>9 DEF PaymentOnly

LEMMA CheckoutStep == CheckoutInv /\ [CheckoutNext]_ckVars => CheckoutInv'
<1> SUFFICES ASSUME CheckoutInv, [CheckoutNext]_ckVars PROVE CheckoutInv'
  OBVIOUS
<1>1. CASE CheckoutNext
  <2>1. BountyOnly \/ \E p \in CkPresses : PressOnly(p) \/ RecordInbound(p) \/ PaymentOnly(p)
    BY <1>1 DEF CheckoutNext, BountyOnly, PressOnly, PaymentOnly
  <2> QED
    BY <2>1, BountyStep, PressOnlyStep, ReadRowStep, PaymentStep
<1>2. CASE UNCHANGED ckVars
  BY <1>2 DEF ckVars, CheckoutInv, CheckoutTypeOK, HashKnown, CkKnows, GoneKnown, WriterKnows,
              InHandler, CkAt, CkKept, Displaced, Wanted
<1> QED
  BY <1>1, <1>2

\* Presses of the button, their requests and the rows they reach keep their types.
LEMMA CheckoutTypeCorrect == CheckoutSpec => []CheckoutTypeOK
<1>1. CheckoutInv => CheckoutTypeOK
  BY DEF CheckoutInv
<1> QED
  BY <1>1, CheckoutStarts, CheckoutStep, PTL DEF CheckoutSpec

\* What a wallet was made to pay is on the record once its handler has ended, and a
\* panel that says paid is right, for any number of presses, tabs and people and any
\* faces, unless two payments were in the handler together, the bounty ended around
\* the payment, the facilitator's answer failed (inbound.ts:160), or the payment was
\* the second of three to a deleted bounty, whose place in fail_reason the third took
\* (inbound.ts:82).
THEOREM PaymentIsKept == CheckoutSpec => []SettledIsKept
<1>1. CheckoutInv => SettledIsKept
  BY DEF CheckoutInv, SettledIsKept, CkKnows
<1> QED
  BY CheckoutStarts, CheckoutStep, <1>1, PTL DEF CheckoutSpec

-----------------------------------------------------------------------------
(* ApiGateway: what moves money was admitted with the money scope, or as the  *)
(* cancellation of a draft that was read as unfunded                        *)

MayMove(q) == q.pc = "perform" => "money" \in q.scopes \/ q.saw = "pending_fund"

GwInv ==
    /\ GatewayTypeOK /\ MoneyNeedsMoneyScope
    /\ \A c \in GwCalls : MayMove(gwCall[c])

LEMMA GwInitInv == GatewayInit => GwInv
<1> SUFFICES ASSUME GatewayInit
             PROVE  GwInv
  OBVIOUS
<1>1. gwUser \in [GwUsers -> [wallet: BOOLEAN, github: BOOLEAN, admin: BOOLEAN]]
  BY DEF GatewayInit
<1>2. gwKey \in [GwKeys -> [st: {"none", "live", "revoked"}, owner: GwUsers,
                            scopes: SUBSET Scopes]]
  BY DEF GatewayInit, GwUsers
<1>3. gwBounty \in [st: GwBountyStatus, claim: GwClaimStatus]
  BY DEF GatewayInit, GwBountyStatus, GwClaimStatus
<1>4. \A c \in GwCalls : MayMove(gwCall[c])
  BY DEF GatewayInit, MayMove, NoGatewayCall
<1> QED
  BY <1>1, <1>2, <1>3, <1>4 DEF GatewayInit, GwInv, GatewayTypeOK, MoneyNeedsMoneyScope

LEMMA GwTables ==
    ASSUME GwInv, UNCHANGED gwMoved,
           \/ \E k \in GwKeys, u \in GwUsers, scopes \in GwGrants : CreateKey(u, k, scopes)
           \/ \E k \in GwKeys : RevokeKey(k)
           \/ \E u \in GwUsers : DisconnectGithub(u)
           \/ DraftFunded \/ PullMerged
    PROVE  GwInv'
<1> USE DEF GwInv
<1>1. UNCHANGED gwCall
  BY DEF CreateKey, RevokeKey, DisconnectGithub, DraftFunded, PullMerged
<1>2. gwUser' \in [GwUsers -> [wallet: BOOLEAN, github: BOOLEAN, admin: BOOLEAN]]
  <2>1. CASE UNCHANGED gwUser
    BY <2>1 DEF GatewayTypeOK
  <2>2. ASSUME NEW u \in GwUsers, DisconnectGithub(u)
        PROVE  gwUser' \in [GwUsers -> [wallet: BOOLEAN, github: BOOLEAN, admin: BOOLEAN]]
    BY <2>2 DEF DisconnectGithub, GatewayTypeOK
  <2> QED
    BY <2>1, <2>2 DEF CreateKey, RevokeKey, DraftFunded, PullMerged
<1>3. gwKey' \in [GwKeys -> [st: {"none", "live", "revoked"}, owner: GwUsers,
                             scopes: SUBSET Scopes]]
  <2>1. ASSUME NEW k \in GwKeys, NEW u \in GwUsers, NEW scopes \in GwGrants,
               CreateKey(u, k, scopes)
        PROVE  gwKey' \in [GwKeys -> [st: {"none", "live", "revoked"}, owner: GwUsers,
                                      scopes: SUBSET Scopes]]
    <3> DEFINE row == [st |-> "live", owner |-> u, scopes |-> scopes]
    <3>1. row \in [st: {"none", "live", "revoked"}, owner: GwUsers, scopes: SUBSET Scopes]
      BY GatewayAssumption
    <3> HIDE DEF row
    <3> QED
      BY <2>1, <3>1 DEF CreateKey, GatewayTypeOK, row
  <2>2. ASSUME NEW k \in GwKeys, RevokeKey(k)
        PROVE  gwKey' \in [GwKeys -> [st: {"none", "live", "revoked"}, owner: GwUsers,
                                      scopes: SUBSET Scopes]]
    BY <2>2 DEF RevokeKey, GatewayTypeOK
  <2>3. CASE UNCHANGED gwKey
    BY <2>3 DEF GatewayTypeOK
  <2> QED
    BY <2>1, <2>2, <2>3 DEF DisconnectGithub, DraftFunded, PullMerged
<1>4. gwBounty' \in [st: GwBountyStatus, claim: GwClaimStatus]
  <2>1. CASE DraftFunded
    BY <2>1 DEF DraftFunded, GatewayTypeOK, GwBountyStatus
  <2>2. CASE PullMerged
    BY <2>2 DEF PullMerged, GatewayTypeOK, GwClaimStatus
  <2>3. CASE UNCHANGED gwBounty
    BY <2>3 DEF GatewayTypeOK
  <2> QED
    BY <2>1, <2>2, <2>3 DEF CreateKey, RevokeKey, DisconnectGithub
<1> QED
  BY <1>1, <1>2, <1>3, <1>4 DEF GatewayTypeOK, MoneyNeedsMoneyScope, MayMove

LEMMA GwCallStep ==
    ASSUME GwInv, NEW c \in GwCalls, NEW q \in GatewayCall \cup {NoGatewayCall}, MayMove(q),
           gwCall' = [gwCall EXCEPT ![c] = q], UNCHANGED <<gwUser, gwKey>>,
           gwBounty' \in [st: GwBountyStatus, claim: GwClaimStatus],
           \/ UNCHANGED gwMoved
           \/ /\ gwCall[c].pc = "perform" /\ gwCall[c] \in GatewayCall
              /\ gwMoved' = gwMoved \cup {MovedBy(gwCall[c])}
    PROVE  GwInv'
<1> USE DEF GwInv
<1>1. gwCall' \in [GwCalls -> GatewayCall \cup {NoGatewayCall}]
      /\ \A d \in GwCalls : gwCall'[d] = IF d = c THEN q ELSE gwCall[d]
  BY DEF GatewayTypeOK
<1>2. \A d \in GwCalls : MayMove(gwCall'[d])
  BY <1>1
<1>3. gwMoved' \subseteq [op: GwOps, scopes: SUBSET Scopes, saw: GwBountyStatus]
      /\ MoneyNeedsMoneyScope'
  BY DEF GatewayTypeOK, MovedBy, GatewayCall, MoneyNeedsMoneyScope, MayMove
<1> QED
  BY <1>1, <1>2, <1>3 DEF GatewayTypeOK, MayMove

LEMMA GwNextInv == GwInv /\ [GatewayNext]_gwVars => GwInv'
<1> SUFFICES ASSUME GwInv, [GatewayNext]_gwVars
             PROVE  GwInv'
  OBVIOUS
<1>1. CASE \/ \E k \in GwKeys, u \in GwUsers, scopes \in GwGrants : CreateKey(u, k, scopes)
           \/ \E k \in GwKeys : RevokeKey(k)
           \/ \E u \in GwUsers : DisconnectGithub(u)
           \/ DraftFunded \/ PullMerged
  <2>1. UNCHANGED gwMoved
    BY <1>1 DEF CreateKey, RevokeKey, DisconnectGithub, DraftFunded, PullMerged
  <2> QED
    BY <1>1, <2>1, GwTables
<1>2. ASSUME NEW c \in GwCalls, NEW k \in GwKeys, NEW op \in GwOps, Authenticate(c, k, op)
      PROVE  GwInv'
  <2> DEFINE q == [pc |-> "run", op |-> op, owner |-> gwKey[k].owner,
                   scopes |-> gwKey[k].scopes, saw |-> gwBounty.st]
  <2>1. q \in GatewayCall /\ q.pc = "run"
    BY DEF GwInv, GatewayTypeOK, GatewayCall
  <2>2. gwCall' = [gwCall EXCEPT ![c] = q] /\ UNCHANGED <<gwUser, gwKey, gwBounty, gwMoved>>
    BY <1>2 DEF Authenticate
  <2>3. gwBounty \in [st: GwBountyStatus, claim: GwClaimStatus] /\ MayMove(q)
    BY <2>1 DEF GwInv, GatewayTypeOK, MayMove
  <2> HIDE DEF q
  <2> QED
    BY <2>1, <2>2, <2>3, GwCallStep
<1>3. ASSUME NEW c \in GwCalls, AnswerCall(c) \/ RefuseCall(c) \/ GatewayDies(c)
      PROVE  GwInv'
  <2>1. gwBounty \in [st: GwBountyStatus, claim: GwClaimStatus] /\ MayMove(NoGatewayCall)
    BY DEF GwInv, GatewayTypeOK, MayMove, NoGatewayCall
  <2> QED
    BY <1>3, <2>1, GwCallStep DEF AnswerCall, RefuseCall, GatewayDies, GwDone
<1>4. ASSUME NEW c \in GwCalls, AdmitCall(c)
      PROVE  GwInv'
  <2> DEFINE q == [gwCall[c] EXCEPT !.pc = "perform", !.saw = gwBounty.st]
  <2>1. gwCall[c] \in GatewayCall /\ gwBounty \in [st: GwBountyStatus, claim: GwClaimStatus]
        /\ gwCall \in [GwCalls -> GatewayCall \cup {NoGatewayCall}]
    BY <1>4 DEF AdmitCall, GwAt, GwInv, GatewayTypeOK, NoGatewayCall
  <2>2. q \in GatewayCall /\ q.scopes = gwCall[c].scopes /\ q.saw = gwBounty.st
    BY <2>1 DEF GatewayCall
  <2>3. gwCall[c].op = "cancel" => gwBounty.st = "pending_fund"
    BY <1>4 DEF AdmitCall, Admissible, CancelOpen
  <2>4. gwCall[c].op \in {"claim", "refund"} => "money" \in gwCall[c].scopes
    BY <1>4 DEF AdmitCall, Admissible, Scoped, ScopeOf
  <2>5. MayMove(q)
    BY <1>4, <2>2, <2>3, <2>4 DEF AdmitCall, GwAt, MayMove
  <2>6. gwCall' = [gwCall EXCEPT ![c] = q] /\ UNCHANGED <<gwUser, gwKey, gwBounty, gwMoved>>
    BY <1>4, <2>1 DEF AdmitCall
  <2> HIDE DEF q
  <2> QED
    BY <2>1, <2>2, <2>5, <2>6, GwCallStep
<1>5. ASSUME NEW c \in GwCalls, RefundEscrow(c) \/ PerformClaim(c)
      PROVE  GwInv'
  <2>1. gwCall[c] \in GatewayCall /\ gwCall[c].pc = "perform"
        /\ gwBounty \in [st: GwBountyStatus, claim: GwClaimStatus]
    BY <1>5 DEF RefundEscrow, PerformClaim, GwAt, GwInv, GatewayTypeOK, NoGatewayCall
  <2>2. gwBounty' \in [st: GwBountyStatus, claim: GwClaimStatus]
    <3>1. CASE RefundEscrow(c)
      BY <2>1, <3>1 DEF RefundEscrow, GwBountyStatus
    <3>2. CASE PerformClaim(c)
      BY <2>1, <3>2 DEF PerformClaim, GwBountyStatus, GwClaimStatus
    <3> QED
      BY <1>5, <3>1, <3>2
  <2>3. UNCHANGED gwMoved \/ gwMoved' = gwMoved \cup {MovedBy(gwCall[c])}
    <3>1. CASE RefundEscrow(c)
      BY <3>1 DEF RefundEscrow
    <3>2. CASE PerformClaim(c)
      BY <3>2 DEF PerformClaim
    <3> QED
      BY <1>5, <3>1, <3>2
  <2>4. MayMove(NoGatewayCall)
    BY DEF MayMove, NoGatewayCall
  <2>5. GwDone(c) /\ UNCHANGED <<gwUser, gwKey>>
    BY <1>5 DEF RefundEscrow, PerformClaim
  <2> QED
    BY <2>1, <2>2, <2>3, <2>4, <2>5, GwCallStep DEF GwDone
<1>6. CASE UNCHANGED gwVars
  BY <1>6 DEF gwVars, GwInv, GatewayTypeOK, MoneyNeedsMoneyScope, MayMove
<1> QED
  BY <1>1, <1>2, <1>3, <1>4, <1>5, <1>6 DEF GatewayNext

\* The rows and calls of the API keep their types, for any keys and calls.
THEOREM GatewayTypeCorrect == GatewaySpec => []GatewayTypeOK
<1>1. GwInv => GatewayTypeOK
  BY DEF GwInv
<1> QED
  BY <1>1, GwInitInv, GwNextInv, PTL DEF GatewaySpec

\* No key without the money scope moves money, except the cancellation of a
\* bounty that was a draft when handleCancel read it, whatever keys are granted
\* and revoked and whatever links are cut meanwhile.
THEOREM MoneyNeedsScope == GatewaySpec => []MoneyNeedsMoneyScope
<1>1. GwInv => MoneyNeedsMoneyScope
  BY DEF GwInv
<1> QED
  BY <1>1, GwInitInv, GwNextInv, PTL DEF GatewaySpec

-----------------------------------------------------------------------------
(* AdminDesk: what the administrator is told about a bounty is so            *)

\* The bounty and its escrow follow each other, unless a draft was voided after its
\* lock.
RowsAgree ==
    /\ adBounty.st = "pending_fund" => adEscrow.st = "pending"
    /\ adEscrow.st = "pending" => adBounty.st = "pending_fund" /\ ~ adBounty.deleted
    /\ adEscrow.st = "failed" => adBounty.st = "cancelled"
    /\ adBounty.st \in {"funded", "settling", "refunding"} => adEscrow.st = adBounty.st
    /\ adEscrow.st \in {"funded", "settling", "refunding"} =>
         adCrossed \/ adBounty.st = adEscrow.st

\* Where the money is.  Legs are paid in a settlement, contributions in a refund,
\* and a deleted bounty has paid out all it got.
MoneyPlaced ==
    /\ ~ adEscrow.hash => adEscrow.st \in {"pending", "failed"}
    /\ adEscrow.st \notin {"settling", "settled"} => \A l \in AdLegs : adLeg[l] = "none"
    /\ adEscrow.st = "settled" => \A l \in AdLegs : adLeg[l] = "confirmed"
    /\ adEscrow.st \notin {"refunding", "refunded"} => adOut = {} /\ ~ adEscrow.refunded
    /\ adEscrow.refunded \/ adEscrow.st = "refunded" => adBack = AdFunders
    /\ adBounty.deleted => \/ Unapplied \/ ~ adEscrow.hash
                           \/ adOut = AdFunders
                           \/ \A l \in AdLegs : adLeg[l] \in {"sent", "confirmed"}

\* What a refund that is said to have gone well says.
AllBack == adBack = AdFunders \/ adCrossed

\* What a request knows.  An administrator's has seen more than a draft.
CallKnows(q) ==
    /\ q.pc \in {"idle", "delete"} => q.moved = {}
    /\ q.pc = "plan" => adEscrow.st \in {"funded", "refunding", "refunded"}
    /\ q.pc \in {"pay", "mark"} => adEscrow.st \in {"refunding", "refunded"}
    /\ q.pc = "mark" => q.leg \subseteq adOut
    /\ q.pc = "void" => ~ q.admin
    /\ q.pc = "read" /\ q.admin =>
         adBounty.st # "pending_fund" /\ (adBounty.st = "cancelled" => AllBack)
    /\ q.pc = "audit" /\ q.ok => AllBack

\* What was sent back is in the log, in a request that will log it, or untold.
Told ==
    /\ \A a \in adAudit : a.action = "refund" /\ a.result = "ok" => AllBack
    /\ \A f \in adOut :
         \/ f \in adUntold
         \/ f \in adLogged
         \/ \E c \in AdCalls : f \in adCall[c].moved

\* While money does not move, a tile says what is so now.
TilesHold ==
    adReport.calm =>
        /\ adReport.owed = {} => \A held \in adReport.chain : Liability <= held
        /\ adReport.chain = {} => \A owed \in adReport.owed : owed = Liability
        /\ \A held \in adReport.chain, owed \in adReport.owed : owed <= held

DeskInv ==
    /\ DeskTypeOK /\ RowsAgree /\ MoneyPlaced
    /\ \A c \in AdCalls : CallKnows(adCall[c])
    /\ Told /\ TilesHold
DeskCore ==
    /\ DeskTypeOK /\ RowsAgree /\ MoneyPlaced
    /\ \A c \in AdCalls : CallKnows(adCall[c])
    /\ Told

LEMMA DeskTyped ==
    ASSUME DeskTypeOK
    PROVE  /\ adBounty \in [st: DeskBounty, deleted: BOOLEAN]
           /\ adEscrow \in [st: DeskEscrow, hash: BOOLEAN, refunded: BOOLEAN]
           /\ adLeg \in [AdLegs -> DeskLeg]
           /\ adBack \subseteq adOut /\ adOut \subseteq AdFunders
           /\ adAudit \subseteq DeskRow
           /\ adCall \in [AdCalls -> DeskCall]
           /\ adReport \in DeskReport
           /\ adCrossed \in BOOLEAN
           /\ adUntold \subseteq AdFunders /\ adLogged \subseteq AdFunders
BY DEF DeskTypeOK

LEMMA DeskStarts == DeskInit => DeskInv
<1> SUFFICES ASSUME DeskInit PROVE DeskInv
  OBVIOUS
<1>1. DeskTypeOK
  BY DEF DeskInit, DeskTypeOK, DeskBounty, DeskEscrow, DeskLeg, DeskCall, NoDeskCall,
     DeskReport, NoReport
<1>2. RowsAgree /\ MoneyPlaced
  BY DEF DeskInit, RowsAgree, MoneyPlaced
<1>3. \A c \in AdCalls : CallKnows(adCall[c])
  BY DEF DeskInit, CallKnows, NoDeskCall
<1>4. Told /\ TilesHold
  BY DEF DeskInit, Told, TilesHold, NoReport
<1> QED
  BY <1>1, <1>2, <1>3, <1>4 DEF DeskInv

-----------------------------------------------------------------------------
\* The steps of the money that comes in and goes to hunters.
MoneyIn == PayIn \/ LockFunds \/ SettleBegins \/ \E l \in AdLegs : SettleLeg(l)

LEMMA MoneyInTypes ==
    ASSUME DeskCore, MoneyIn
    PROVE  /\ adBounty' \in [st: DeskBounty, deleted: BOOLEAN]
           /\ adEscrow' \in [st: DeskEscrow, hash: BOOLEAN, refunded: BOOLEAN]
           /\ adLeg' \in [AdLegs -> DeskLeg]
<1> USE DeskTyped DEF DeskCore
<1>1. CASE PayIn
  BY <1>1 DEF PayIn, DeskEscrow
<1>2. CASE LockFunds
  BY <1>2 DEF LockFunds, DeskBounty, DeskEscrow
<1>3. CASE SettleBegins
  BY <1>3 DEF SettleBegins, DeskBounty, DeskEscrow, DeskLeg
<1>4. ASSUME NEW l \in AdLegs, SettleLeg(l)
      PROVE  /\ adBounty' \in [st: DeskBounty, deleted: BOOLEAN]
             /\ adEscrow' \in [st: DeskEscrow, hash: BOOLEAN, refunded: BOOLEAN]
             /\ adLeg' \in [AdLegs -> DeskLeg]
  <2>1. PICK st \in DeskLeg : adLeg' = [adLeg EXCEPT ![l] = st]
    BY <1>4 DEF SettleLeg, DeskLeg
  <2>2. \/ /\ adBounty' = [adBounty EXCEPT !.st = "settled"]
           /\ adEscrow' = [adEscrow EXCEPT !.st = "settled"]
        \/ UNCHANGED <<adBounty, adEscrow>>
    BY <1>4 DEF SettleLeg
  <2>3. adLeg' \in [AdLegs -> DeskLeg]
    BY <2>1
  <2> QED
    BY <2>2, <2>3 DEF DeskBounty, DeskEscrow
<1> QED
  BY <1>1, <1>2, <1>3, <1>4 DEF MoneyIn

\* A leg of a settlement moves: the settlement is under way, and ends with its last leg.
LEMMA LegMoves ==
    ASSUME DeskCore, NEW l \in AdLegs, SettleLeg(l)
    PROVE  /\ adEscrow.st = "settling" /\ adEscrow'.hash = adEscrow.hash
           /\ adEscrow'.refunded = adEscrow.refunded
           /\ adBounty'.deleted = adBounty.deleted
           /\ \/ /\ adBounty'.st = "settled" /\ adEscrow'.st = "settled"
                 /\ \A k \in AdLegs : adLeg'[k] = "confirmed"
              \/ /\ adBounty' = adBounty /\ adEscrow' = adEscrow
           /\ \A k \in AdLegs : adLeg[k] \in {"sent", "confirmed"}
                                  => adLeg'[k] \in {"sent", "confirmed"}
           /\ UNCHANGED <<adOut, adBack, adAudit, adLogged, adCall, adCrossed, adUntold>>
<1> USE DeskTyped DEF DeskCore
<1>1. adLeg[l] \in {"pending", "failed", "sent"}
  BY DEF SettleLeg
<1>2. adEscrow.st = "settling"
  BY <1>1 DEF MoneyPlaced
<1>3. \/ adLeg[l] = "pending"
      \/ adLeg[l] = "failed"
      \/ adLeg[l] = "sent" /\ adLeg' = [adLeg EXCEPT ![l] = "confirmed"]
  BY DEF SettleLeg
<1>4. \A k \in AdLegs : k # l => adLeg'[k] = adLeg[k]
  BY DEF SettleLeg
<1>5. \A k \in AdLegs : adLeg[k] \in {"sent", "confirmed"}
                          => adLeg'[k] \in {"sent", "confirmed"}
  BY <1>3, <1>4
<1>6. \/ /\ adBounty' = [adBounty EXCEPT !.st = "settled"]
         /\ adEscrow' = [adEscrow EXCEPT !.st = "settled"]
         /\ \A k \in AdLegs : adLeg'[k] = "confirmed"
      \/ adBounty' = adBounty /\ adEscrow' = adEscrow
  BY DEF SettleLeg
<1>7. UNCHANGED <<adOut, adBack, adAudit, adLogged, adCall, adCrossed, adUntold>>
  BY DEF SettleLeg
<1> QED
  BY <1>2, <1>5, <1>6, <1>7

LEMMA MoneyInStep ==
    ASSUME DeskCore, MoneyIn, adReport' \in DeskReport
    PROVE  DeskCore'
<1> USE DeskTyped DEF DeskCore
<1>0. /\ UNCHANGED <<adOut, adBack, adAudit, adLogged, adCall, adCrossed, adUntold>>
  BY DEF MoneyIn, PayIn, LockFunds, SettleBegins, SettleLeg
<1>1. DeskTypeOK'
  BY <1>0, MoneyInTypes DEF DeskTypeOK
<1>2. Told'
  BY <1>0 DEF Told, AllBack
<1>3. CASE PayIn
  <2>1. /\ adEscrow.st \in {"pending", "failed"} /\ adEscrow'.st = adEscrow.st
        /\ adEscrow'.refunded = adEscrow.refunded /\ adEscrow'.hash = TRUE
        /\ UNCHANGED <<adBounty, adLeg>>
    BY <1>3 DEF PayIn
  <2>2. RowsAgree'
    BY <1>0, <2>1 DEF RowsAgree
  <2>3. MoneyPlaced'
    BY <1>0, <2>1 DEF MoneyPlaced, Unapplied
  <2>4. \A c \in AdCalls : CallKnows(adCall[c])'
    BY <1>0, <2>1 DEF CallKnows, AllBack
  <2> QED
    BY <1>1, <1>2, <2>2, <2>3, <2>4
<1>4. CASE LockFunds
  <2>1. /\ adBounty.st = "pending_fund" /\ ~ adBounty.deleted
        /\ adEscrow.st = "pending" /\ adEscrow.hash
        /\ adBounty'.st = "funded" /\ ~ adBounty'.deleted
        /\ adEscrow'.st = "funded" /\ adEscrow'.hash
        /\ adEscrow'.refunded = adEscrow.refunded
        /\ UNCHANGED <<adLeg>>
    BY <1>4 DEF LockFunds
  <2>2. RowsAgree'
    BY <1>0, <2>1 DEF RowsAgree
  <2>3. MoneyPlaced'
    BY <1>0, <2>1 DEF MoneyPlaced
  <2>4. \A c \in AdCalls : CallKnows(adCall[c])'
    BY <1>0, <2>1 DEF CallKnows, AllBack
  <2> QED
    BY <1>1, <1>2, <2>2, <2>3, <2>4
<1>5. CASE SettleBegins
  <2>1. /\ adBounty.st = "funded" /\ ~ adBounty.deleted
        /\ adEscrow.st = "funded" /\ ~ RefundUnderWay
        /\ adBounty'.st = "settling" /\ ~ adBounty'.deleted
        /\ adEscrow'.st = "settling" /\ adEscrow'.hash = adEscrow.hash
        /\ adEscrow'.refunded = adEscrow.refunded
    BY <1>5 DEF SettleBegins
  <2>2. RowsAgree'
    BY <1>0, <2>1 DEF RowsAgree
  <2>3. MoneyPlaced'
    BY <1>0, <2>1 DEF MoneyPlaced
  <2>4. \A c \in AdCalls : CallKnows(adCall[c])'
    BY <1>0, <2>1 DEF CallKnows, AllBack, RefundUnderWay
  <2> QED
    BY <1>1, <1>2, <2>2, <2>3, <2>4
<1>6. ASSUME NEW l \in AdLegs, SettleLeg(l) PROVE DeskCore'
  <2>1. /\ adEscrow.st = "settling" /\ adEscrow'.hash = adEscrow.hash
        /\ adEscrow'.refunded = adEscrow.refunded
        /\ adBounty'.deleted = adBounty.deleted
        /\ \/ /\ adBounty'.st = "settled" /\ adEscrow'.st = "settled"
              /\ \A k \in AdLegs : adLeg'[k] = "confirmed"
           \/ /\ adBounty' = adBounty /\ adEscrow' = adEscrow
        /\ \A k \in AdLegs : adLeg[k] \in {"sent", "confirmed"}
                               => adLeg'[k] \in {"sent", "confirmed"}
    BY <1>6, LegMoves
  <2>2. RowsAgree'
    BY <1>0, <2>1 DEF RowsAgree
  <2>3. MoneyPlaced'
    BY <1>0, <2>1 DEF MoneyPlaced, Unapplied
  <2>4. \A c \in AdCalls : CallKnows(adCall[c])'
    BY <1>0, <2>1 DEF CallKnows, AllBack
  <2> QED
    BY <1>1, <1>2, <2>2, <2>3, <2>4
<1> QED
  BY <1>3, <1>4, <1>5, <1>6 DEF MoneyIn

-----------------------------------------------------------------------------
\* A step of one request keeps what the log tells.
LEMMA ToldStep ==
    ASSUME DeskCore, NEW c \in AdCalls, NEW q \in DeskCall,
           adCall' = [adCall EXCEPT ![c] = q],
           AllBack => AllBack', adAudit \subseteq adAudit', adLogged \subseteq adLogged',
           adUntold \subseteq adUntold',
           \A a \in adAudit' : a \in adAudit \/ (a.action = "refund" /\ a.result = "ok" => AllBack'),
           \A f \in adOut' : f \in adOut \/ f \in q.moved,
           \A f \in adCall[c].moved :
             f \in q.moved \/ f \in adUntold' \/ f \in adLogged'
    PROVE  Told'
<1>1. /\ adCall'[c] = q
      /\ \A d \in AdCalls : d # c => adCall'[d] = adCall[d]
  BY DeskTyped DEF DeskCore
<1>2. ASSUME NEW a \in adAudit', a.action = "refund", a.result = "ok" PROVE AllBack'
  BY <1>2 DEF DeskCore, Told
<1>3. ASSUME NEW f \in adOut'
      PROVE  \/ f \in adUntold'
             \/ f \in adLogged'
             \/ \E d \in AdCalls : f \in adCall'[d].moved
  <2>1. CASE f \in q.moved
    BY <2>1, <1>1
  <2>2. CASE f \in adOut
    <3>1. CASE f \in adLogged
      BY <3>1
    <3>2. CASE \E d \in AdCalls : f \in adCall[d].moved
      <4>1. PICK d \in AdCalls : f \in adCall[d].moved
        BY <3>2
      <4>2. CASE d = c
        BY <4>1, <4>2, <1>1
      <4>3. CASE d # c
        BY <4>1, <4>3, <1>1
      <4> QED
        BY <4>2, <4>3
    <3> QED
      BY <2>2, <3>1, <3>2 DEF DeskCore, Told
  <2> QED
    BY <2>1, <2>2
<1> QED
  BY <1>2, <1>3 DEF Told

LEMMA CallStep ==
    ASSUME DeskCore, NEW c \in AdCalls, NEW q \in DeskCall,
           adCall' = [adCall EXCEPT ![c] = q], CallKnows(q)',
           \A p \in DeskCall : CallKnows(p) => CallKnows(p)'
    PROVE  \A d \in AdCalls : CallKnows(adCall[d])'
<1> TAKE d \in AdCalls
<1>1. CASE d = c
  <2>1. adCall'[d] = q
    BY <1>1, DeskTyped DEF DeskCore
  <2> QED
    BY <2>1 DEF CallKnows, AllBack
<1>2. CASE d # c
  <2>1. adCall'[d] = adCall[d] /\ adCall[d] \in DeskCall
    BY <1>2, DeskTyped DEF DeskCore
  <2>2. PICK p \in DeskCall : p = adCall[d]
    BY <2>1
  <2>3. CallKnows(p)'
    BY <2>2 DEF DeskCore
  <2> QED
    BY <2>1, <2>2, <2>3 DEF CallKnows, AllBack
<1> QED
  BY <1>1, <1>2

\* The end of a refund, audited or not.
LEMMA ReturnMoves ==
    ASSUME DeskCore, NEW c \in AdCalls, NEW ok \in BOOLEAN, AdReturn(c, ok),
           ok => AllBack' \/ ~ adCall[c].admin
    PROVE  \E q \in DeskCall :
             /\ adCall' = [adCall EXCEPT ![c] = q] /\ CallKnows(q)'
             /\ adUntold \subseteq adUntold' /\ adUntold' \subseteq AdFunders
             /\ \A f \in adCall[c].moved : f \in q.moved \/ f \in adUntold'
<1>0. adCall[c] \in DeskCall /\ adUntold \subseteq AdFunders
  BY DeskTyped DEF DeskCore
<1>1. CASE adCall[c].admin
  <2>0. [adCall[c] EXCEPT !.pc = "audit", !.ok = ok] \in DeskCall
    BY <1>0 DEF DeskCall
  <2> PICK q \in DeskCall : q = [adCall[c] EXCEPT !.pc = "audit", !.ok = ok]
    BY <2>0
  <2>1. adCall' = [adCall EXCEPT ![c] = q] /\ adUntold' = adUntold
    BY <1>1, DeskTyped DEF AdReturn, DeskCore
  <2>2. q.pc = "audit" /\ q.ok = ok /\ q.moved = adCall[c].moved
    BY <1>0 DEF DeskCall
  <2>3. CallKnows(q)'
    BY <1>1, <2>2 DEF CallKnows
  <2> QED
    BY <1>0, <2>1, <2>2, <2>3
<1>2. CASE ~ adCall[c].admin
  <2>1. /\ adCall' = [adCall EXCEPT ![c] = NoDeskCall]
        /\ adUntold' = adUntold \cup adCall[c].moved
    BY <1>2 DEF AdReturn, AdEnd
  <2>2. NoDeskCall \in DeskCall /\ CallKnows(NoDeskCall)'
    BY DEF NoDeskCall, DeskCall, CallKnows
  <2>3. adUntold' \subseteq AdFunders
    BY <1>0, <2>1 DEF DeskCall
  <2> QED
    BY <2>1, <2>2, <2>3
<1> QED
  BY <1>1, <1>2

\* The steps of a request that leave the money alone.
LEMMA CallOnly ==
    ASSUME DeskCore, NEW c \in AdCalls, NEW q \in DeskCall, adReport' \in DeskReport,
           adCall' = [adCall EXCEPT ![c] = q], CallKnows(q),
           UNCHANGED <<adMoney, adCrossed>>,
           adAudit \subseteq adAudit', adAudit' \subseteq DeskRow,
           adLogged \subseteq adLogged', adLogged' \subseteq AdFunders,
           adUntold \subseteq adUntold', adUntold' \subseteq AdFunders,
           \A a \in adAudit' : a \in adAudit \/ (a.action = "refund" /\ a.result = "ok" => AllBack),
           \A f \in adCall[c].moved :
             f \in q.moved \/ f \in adUntold' \/ f \in adLogged'
    PROVE  DeskCore'
<1>1. UNCHANGED <<adBounty, adEscrow, adLeg, adOut, adBack, adCrossed>>
  BY DEF adMoney
<1>2. AllBack' = AllBack
  BY <1>1 DEF AllBack
<1>3. RowsAgree' /\ MoneyPlaced'
  BY <1>1 DEF DeskCore, RowsAgree, MoneyPlaced, Unapplied
<1>4. \A p \in DeskCall : CallKnows(p) => CallKnows(p)'
  BY <1>1, <1>2 DEF CallKnows
<1>5. \A d \in AdCalls : CallKnows(adCall[d])'
  BY <1>4, CallStep
<1>6. Told'
  BY <1>1, <1>2, ToldStep
<1>7. DeskTypeOK'
  BY <1>1, DeskTyped DEF DeskCore, DeskTypeOK
<1> QED
  BY <1>3, <1>5, <1>6, <1>7 DEF DeskCore

LEMMA IdleCall ==
    /\ NoDeskCall \in DeskCall /\ CallKnows(NoDeskCall) /\ NoDeskCall.moved = {}
    /\ NoDeskCall.pc = "idle"
BY DEF NoDeskCall, DeskCall, CallKnows

\* A row of the log.
LEMMA RowAdded ==
    ASSUME DeskCore, NEW action \in {"refund", "delete"}, NEW result \in {"ok", "refused"},
           NEW moved \in SUBSET AdFunders, AuditRow(action, result, moved),
           action = "refund" /\ result = "ok" => AllBack
    PROVE  /\ adAudit \subseteq adAudit' /\ adAudit' \subseteq DeskRow
           /\ adLogged \subseteq adLogged' /\ adLogged' \subseteq AdFunders
           /\ \A a \in adAudit' : a \in adAudit \/ (a.action = "refund" /\ a.result = "ok" => AllBack)
           /\ moved \subseteq adLogged'
<1> DEFINE r == [action |-> action, result |-> result]
<1>1. r \in DeskRow /\ r.action = action /\ r.result = result
  BY DEF DeskRow
<1>2. adAudit' = adAudit \cup {r} /\ adLogged' = adLogged \cup moved
  BY DEF AuditRow
<1> HIDE DEF r
<1> QED
  BY <1>1, <1>2, DeskTyped DEF DeskCore

QuietCall(c) ==
    \/ RefuseRefund(c) \/ AskRefund(c) \/ AskCancel(c) \/ ReadRefund(c)
    \/ FailRefund(c) \/ AuditRefund(c) \/ DieAtDesk(c) \/ AskDelete(c)

LEMMA QuietCallStep ==
    ASSUME DeskCore, NEW c \in AdCalls, QuietCall(c), adReport' \in DeskReport
    PROVE  DeskCore'
<1>0. /\ adCall[c] \in DeskCall /\ CallKnows(adCall[c])
      /\ adCall \in [AdCalls -> DeskCall]
      /\ adUntold \subseteq AdFunders /\ adAudit \subseteq DeskRow
      /\ adLogged \subseteq AdFunders
      /\ adCall[c].moved \subseteq AdFunders
  <2>1. adCall[c] \in DeskCall
    BY DeskTyped DEF DeskCore
  <2> QED
    BY <2>1, DeskTyped DEF DeskCore, DeskCall
<1>1. CASE RefuseRefund(c)
  <2>1. adCall' = [adCall EXCEPT ![c] = adCall[c]]
    BY <1>0, <1>1 DEF RefuseRefund
  <2>2. /\ UNCHANGED <<adMoney, adCrossed>> /\ adUntold' = adUntold
        /\ AuditRow("refund", "refused", {})
    BY <1>1 DEF RefuseRefund
  <2>3. /\ adAudit \subseteq adAudit' /\ adAudit' \subseteq DeskRow
        /\ adLogged \subseteq adLogged' /\ adLogged' \subseteq AdFunders
        /\ \A a \in adAudit' : a \in adAudit \/ (a.action = "refund" /\ a.result = "ok" => AllBack)
    BY <2>2, RowAdded
  <2> QED
    BY <1>0, <2>1, <2>2, <2>3, CallOnly
<1>2. ASSUME NEW pc \in {"read", "delete"}, NEW admin \in BOOLEAN, AdBegin(c, pc, admin),
             UNCHANGED <<adMoney, adCrossed, adUntold>>,
             UNCHANGED <<adAudit, adLogged>>,
             pc = "read" /\ admin => adBounty.st \notin NoFundedEscrow
      PROVE  DeskCore'
  <2> DEFINE q == [NoDeskCall EXCEPT !.pc = pc, !.admin = admin]
  <2>1. /\ adCall' = [adCall EXCEPT ![c] = q] /\ adCall[c].pc = "idle"
    BY <1>2 DEF AdBegin, AdAt
  <2>2. q \in DeskCall /\ q.pc = pc /\ q.admin = admin /\ q.moved = {}
    BY DEF NoDeskCall, DeskCall
  <2> HIDE DEF q
  <2>3. CallKnows(q)
    BY <1>2, <2>2 DEF CallKnows, NoFundedEscrow
  <2>4. adCall[c].moved = {}
    BY <1>0, <2>1 DEF CallKnows
  <2> QED
    BY <1>0, <1>2, <2>1, <2>2, <2>3, <2>4, CallOnly
<1>3. CASE AskRefund(c)
  BY <1>2, <1>3 DEF AskRefund
<1>4. CASE AskCancel(c)
  BY <1>2, <1>4 DEF AskCancel
<1>5. ASSUME NEW ok \in BOOLEAN, AdReturn(c, ok), ok => AllBack \/ ~ adCall[c].admin,
             UNCHANGED <<adMoney, adAudit, adLogged, adCrossed>>
      PROVE  DeskCore'
  <2>1. AllBack' = AllBack
    BY <1>5 DEF AllBack, adMoney
  <2>2. PICK q \in DeskCall :
             /\ adCall' = [adCall EXCEPT ![c] = q] /\ CallKnows(q)'
             /\ adUntold \subseteq adUntold' /\ adUntold' \subseteq AdFunders
             /\ \A f \in adCall[c].moved : f \in q.moved \/ f \in adUntold'
    BY <1>5, <2>1, ReturnMoves
  <2>3. CallKnows(q)
    BY <1>5, <2>1, <2>2 DEF CallKnows, adMoney
  <2> QED
    BY <1>0, <1>5, <2>2, <2>3, CallOnly
<1>6. ASSUME NEW pc \in {"void", "plan"}, AdGoto(c, pc), adCall[c].pc = "read",
             UNCHANGED <<adMoney, adAudit, adLogged, adCrossed, adUntold>>,
             pc = "void" => adBounty.st = "pending_fund",
             pc = "plan" => adBounty.st \in {"funded", "refunding"}
      PROVE  DeskCore'
  <2> DEFINE q == [adCall[c] EXCEPT !.pc = pc]
  <2>1. adCall' = [adCall EXCEPT ![c] = q]
    BY <1>6 DEF AdGoto
  <2>2. q \in DeskCall /\ q.pc = pc /\ q.moved = adCall[c].moved /\ q.admin = adCall[c].admin
    BY <1>0 DEF DeskCall
  <2> HIDE DEF q
  <2>3. CallKnows(q)
    BY <1>0, <1>6, <2>2 DEF CallKnows, DeskCore, RowsAgree
  <2> QED
    BY <1>0, <1>6, <2>1, <2>2, <2>3, CallOnly
<1>7. CASE ReadRefund(c)
  <2>1. adCall[c].pc = "read" /\ UNCHANGED <<adMoney, adAudit, adLogged, adCrossed>>
    BY <1>7 DEF ReadRefund, AdAt
  <2>2. \/ AdReturn(c, FALSE)
        \/ adBounty.st = "pending_fund" /\ AdGoto(c, "void") /\ UNCHANGED adUntold
        \/ adBounty.st = "cancelled" /\ AdReturn(c, TRUE)
        \/ adBounty.st \in {"funded", "refunding"} /\ AdGoto(c, "plan") /\ UNCHANGED adUntold
    <3>1. CASE adBounty.deleted
      BY <1>7, <3>1 DEF ReadRefund
    <3>2. CASE ~ adBounty.deleted /\ adBounty.st = "pending_fund"
      BY <1>7, <3>2 DEF ReadRefund
    <3>3. CASE ~ adBounty.deleted /\ adBounty.st = "cancelled"
      BY <1>7, <3>3 DEF ReadRefund
    <3>4. CASE ~ adBounty.deleted /\ adBounty.st \in {"funded", "refunding"}
      BY <1>7, <3>4 DEF ReadRefund
    <3>5. CASE ~ adBounty.deleted /\ adBounty.st \notin {"pending_fund", "cancelled", "funded",
                                                         "refunding"}
      BY <1>7, <3>5 DEF ReadRefund
    <3> QED
      BY <3>1, <3>2, <3>3, <3>4, <3>5
  <2>3. CASE AdReturn(c, FALSE)
    BY <2>1, <2>3, <1>5
  <2>4. CASE adBounty.st = "cancelled" /\ AdReturn(c, TRUE)
    <3>1. AllBack \/ ~ adCall[c].admin
      BY <1>0, <2>1, <2>4 DEF CallKnows, DeskCall
    <3> QED
      BY <2>1, <2>4, <3>1, <1>5
  <2>5. CASE \/ adBounty.st = "pending_fund" /\ AdGoto(c, "void") /\ UNCHANGED adUntold
             \/ adBounty.st \in {"funded", "refunding"} /\ AdGoto(c, "plan") /\ UNCHANGED adUntold
    BY <2>1, <2>5, <1>6
  <2> QED
    BY <2>2, <2>3, <2>4, <2>5
<1>8. CASE FailRefund(c)
  BY <1>5, <1>8 DEF FailRefund
<1>9. CASE AuditRefund(c)
  <2> DEFINE result == IF adCall[c].ok THEN "ok" ELSE "refused"
  <2>1. /\ adCall[c].pc = "audit" /\ adCall' = [adCall EXCEPT ![c] = NoDeskCall]
        /\ AuditRow("refund", result, adCall[c].moved)
        /\ UNCHANGED <<adMoney, adCrossed>> /\ adUntold' = adUntold
    BY <1>9 DEF AuditRefund, AdAt, AdEnd
  <2>2. result \in {"ok", "refused"} /\ (result = "ok" => AllBack)
    BY <1>0, <2>1 DEF CallKnows, DeskCall
  <2> HIDE DEF result
  <2>3. /\ adAudit \subseteq adAudit' /\ adAudit' \subseteq DeskRow
        /\ adLogged \subseteq adLogged' /\ adLogged' \subseteq AdFunders
        /\ \A a \in adAudit' : a \in adAudit \/ (a.action = "refund" /\ a.result = "ok" => AllBack)
        /\ adCall[c].moved \subseteq adLogged'
    BY <1>0, <2>1, <2>2, RowAdded
  <2> QED
    BY <1>0, <2>1, <2>3, IdleCall, CallOnly
<1>10. CASE DieAtDesk(c)
  <2>1. /\ adCall' = [adCall EXCEPT ![c] = NoDeskCall]
        /\ adUntold' = adUntold \cup adCall[c].moved
        /\ UNCHANGED <<adMoney, adCrossed>> /\ adAudit' = adAudit
        /\ adLogged' = adLogged
    BY <1>10 DEF DieAtDesk, AdEnd
  <2> QED
    BY <1>0, <2>1, IdleCall, CallOnly
<1>11. CASE AskDelete(c)
  <2>1. CASE DeleteBlocked
    <3>1. adCall' = [adCall EXCEPT ![c] = adCall[c]]
      BY <1>0, <1>11, <2>1 DEF AskDelete
    <3>2. /\ UNCHANGED <<adMoney, adCrossed>> /\ adUntold' = adUntold
          /\ AuditRow("delete", "refused", {})
      BY <1>11, <2>1 DEF AskDelete
    <3>3. /\ adAudit \subseteq adAudit' /\ adAudit' \subseteq DeskRow
          /\ adLogged \subseteq adLogged' /\ adLogged' \subseteq AdFunders
          /\ \A a \in adAudit' : a \in adAudit \/ (a.action = "refund" /\ a.result = "ok" => AllBack)
      BY <3>2, RowAdded
    <3> QED
      BY <1>0, <3>1, <3>2, <3>3, CallOnly
  <2>2. CASE ~ DeleteBlocked
    BY <1>2, <1>11, <2>2 DEF AskDelete
  <2> QED
    BY <2>1, <2>2
<1> QED
  BY <1>1, <1>3, <1>4, <1>7, <1>8, <1>9, <1>10, <1>11 DEF QuietCall

-----------------------------------------------------------------------------
\* The sizes of what has left.
LEMMA DeskSizes ==
    ASSUME DeskTypeOK
    PROVE  /\ AdFace \in Nat /\ AdFace = Cardinality(AdLegs)
           /\ PaidOut \in Nat /\ PaidOut <= AdFace
           /\ Cardinality(LegsAt({"sent"})) \in Nat
           /\ Cardinality(LegsAt({"sent", "confirmed"})) \in Nat
           /\ Cardinality(LegsAt({"sent", "confirmed"})) <= AdFace
           /\ Cardinality(LegsAt({"sent", "confirmed"}))
                = Cardinality(LegsAt({"sent"})) + PaidOut
           /\ Cardinality(adOut) \in Nat /\ Cardinality(adOut) <= AdFace
           /\ Cardinality(adBack) \in Nat /\ Cardinality(adBack) <= Cardinality(adOut)
           /\ Cardinality(adOut) = Cardinality(adBack) + Cardinality(adOut \ adBack)
           /\ Cardinality(adOut \ adBack) \in Nat
           /\ PaidOut = AdFace => LegsAt({"confirmed"}) = AdLegs
           /\ Cardinality(adBack) = AdFace => adBack = AdFunders
<1>1. /\ LegsAt({"sent"}) \subseteq AdLegs /\ LegsAt({"confirmed"}) \subseteq AdLegs
      /\ LegsAt({"sent", "confirmed"}) \subseteq AdLegs
      /\ LegsAt({"sent", "confirmed"}) = LegsAt({"sent"}) \cup LegsAt({"confirmed"})
      /\ LegsAt({"sent"}) \cap LegsAt({"confirmed"}) = {}
  BY DEF LegsAt
<1>2. /\ adBack \subseteq adOut /\ adOut \subseteq AdFunders /\ adBack \subseteq AdFunders
      /\ adOut = adBack \cup (adOut \ adBack) /\ adBack \cap (adOut \ adBack) = {}
      /\ (adOut \ adBack) \subseteq AdFunders
  BY DEF DeskTypeOK
<1>3. /\ IsFiniteSet(AdLegs) /\ IsFiniteSet(AdFunders)
      /\ Cardinality(AdFunders) = Cardinality(AdLegs)
  BY DeskAssumption
<1>4. ASSUME NEW S \in SUBSET AdLegs
      PROVE  /\ IsFiniteSet(S) /\ Cardinality(S) \in Nat
             /\ Cardinality(S) <= Cardinality(AdLegs)
             /\ Cardinality(S) = Cardinality(AdLegs) => S = AdLegs
  BY <1>3, FS_Subset, FS_CardinalityType
<1>5. ASSUME NEW S \in SUBSET AdFunders
      PROVE  /\ IsFiniteSet(S) /\ Cardinality(S) \in Nat
             /\ Cardinality(S) <= Cardinality(AdFunders)
             /\ Cardinality(S) = Cardinality(AdFunders) => S = AdFunders
  BY <1>3, FS_Subset, FS_CardinalityType
<1>6. Cardinality(LegsAt({"sent", "confirmed"}))
        = Cardinality(LegsAt({"sent"})) + Cardinality(LegsAt({"confirmed"}))
  <2>1. Cardinality(LegsAt({"sent"}) \cup LegsAt({"confirmed"}))
          = Cardinality(LegsAt({"sent"})) + Cardinality(LegsAt({"confirmed"}))
              - Cardinality(LegsAt({"sent"}) \cap LegsAt({"confirmed"}))
    BY <1>1, <1>4, FS_Union
  <2>2. Cardinality(LegsAt({"sent"})) \in Nat /\ Cardinality(LegsAt({"confirmed"})) \in Nat
    BY <1>1, <1>4
  <2>3. Cardinality(LegsAt({"sent"}) \cap LegsAt({"confirmed"})) = 0
    BY <1>1, FS_EmptySet
  <2>4. Cardinality(LegsAt({"sent", "confirmed"}))
          = Cardinality(LegsAt({"sent"}) \cup LegsAt({"confirmed"}))
    BY <1>1
  <2> QED
    BY <2>1, <2>2, <2>3, <2>4
<1>7. /\ Cardinality(adOut) = Cardinality(adBack) + Cardinality(adOut \ adBack)
      /\ Cardinality(adBack) <= Cardinality(adOut)
  <2>1. Cardinality(adBack \cup (adOut \ adBack))
          = Cardinality(adBack) + Cardinality(adOut \ adBack)
              - Cardinality(adBack \cap (adOut \ adBack))
    BY <1>2, <1>5, FS_Union
  <2>2. Cardinality(adBack) \in Nat /\ Cardinality(adOut \ adBack) \in Nat
    BY <1>2, <1>5
  <2>3. Cardinality(adBack \cap (adOut \ adBack)) = 0
    BY <1>2, FS_EmptySet
  <2>4. Cardinality(adOut) = Cardinality(adBack \cup (adOut \ adBack))
    BY <1>2, Zenon
  <2> QED
    BY <2>1, <2>2, <2>3, <2>4
<1>8. /\ Cardinality(LegsAt({"sent"})) \in Nat
      /\ Cardinality(LegsAt({"sent", "confirmed"})) \in Nat
      /\ Cardinality(LegsAt({"sent", "confirmed"})) <= Cardinality(AdLegs)
      /\ Cardinality(LegsAt({"confirmed"})) \in Nat
      /\ Cardinality(LegsAt({"confirmed"})) <= Cardinality(AdLegs)
      /\ Cardinality(LegsAt({"confirmed"})) = Cardinality(AdLegs)
           => LegsAt({"confirmed"}) = AdLegs
  BY <1>1, <1>4
<1>9. /\ Cardinality(adOut) \in Nat /\ Cardinality(adOut) <= Cardinality(AdFunders)
      /\ Cardinality(adBack) \in Nat /\ Cardinality(adOut \ adBack) \in Nat
      /\ Cardinality(adBack) = Cardinality(AdFunders) => adBack = AdFunders
  BY <1>2, <1>5
<1>10. Cardinality(AdFunders) \in Nat
  BY <1>3, FS_CardinalityType
<1> QED
  BY <1>3, <1>6, <1>7, <1>8, <1>9, <1>10 DEF AdFace, PaidOut

\* What may be deleted has paid out all it got, or what it got was not locked.
LEMMA DeletableEmpty ==
    ASSUME DeskCore, ~ DeleteBlocked, ~ adBounty.deleted
    PROVE  \/ adEscrow.st \in {"pending", "failed"}
           \/ adOut = AdFunders
           \/ \A l \in AdLegs : adLeg[l] \in {"sent", "confirmed"}
<1> USE DeskTyped, DeskSizes DEF DeskCore
<1>1. CASE adEscrow.st = "settled"
  BY <1>1 DEF MoneyPlaced
<1>2. CASE adEscrow.refunded \/ adEscrow.st = "refunded"
  BY <1>2 DEF MoneyPlaced
<1>3. CASE adEscrow.st \in {"funded", "settling", "refunding"} /\ ~ adEscrow.refunded
  <2>1. ~ (AdFace - PaidOut - Cardinality(adBack) > 0)
    BY <1>3 DEF DeleteBlocked, HoldsFunds, HeldRemainder
  <2>2. PaidOut = 0 \/ Cardinality(adBack) = 0
    <3>1. CASE adEscrow.st = "refunding"
      <4>1. LegsAt({"confirmed"}) = {}
        BY <3>1 DEF MoneyPlaced, LegsAt
      <4> QED
        BY <4>1, FS_EmptySet DEF PaidOut
    <3>2. CASE adEscrow.st # "refunding"
      <4>1. adBack = {}
        BY <1>3, <3>2 DEF MoneyPlaced
      <4> QED
        BY <4>1, FS_EmptySet
    <3> QED
      BY <3>1, <3>2
  <2>3. PaidOut = AdFace \/ Cardinality(adBack) = AdFace
    BY <2>1, <2>2
  <2>4. CASE PaidOut = AdFace
    <3>1. LegsAt({"confirmed"}) = AdLegs
      BY <2>4
    <3> QED
      BY <3>1 DEF LegsAt
  <2>5. CASE Cardinality(adBack) = AdFace
    BY <2>5
  <2> QED
    BY <2>3, <2>4, <2>5
<1> QED
  BY <1>1, <1>2, <1>3 DEF DeskEscrow

-----------------------------------------------------------------------------
\* The steps of a request that write the rows, or move money back.
LEMMA WritingStep ==
    ASSUME DeskCore, NEW c \in AdCalls, NEW q \in DeskCall, DeskTypeOK',
           adCall' = [adCall EXCEPT ![c] = q], CallKnows(q)', RowsAgree', MoneyPlaced',
           \A p \in DeskCall : CallKnows(p) => CallKnows(p)',
           AllBack => AllBack', adAudit \subseteq adAudit', adLogged \subseteq adLogged',
           adUntold \subseteq adUntold',
           \A a \in adAudit' : a \in adAudit \/ (a.action = "refund" /\ a.result = "ok" => AllBack'),
           \A f \in adOut' : f \in adOut \/ f \in q.moved,
           \A f \in adCall[c].moved : f \in q.moved \/ f \in adUntold'
    PROVE  DeskCore'
<1>1. \A d \in AdCalls : CallKnows(adCall[d])'
  BY CallStep
<1>2. Told'
  BY ToldStep
<1> QED
  BY <1>1, <1>2 DEF DeskCore

LEMMA VoidStep ==
    ASSUME DeskCore, NEW c \in AdCalls, VoidDraft(c), adReport' \in DeskReport
    PROVE  DeskCore'
<1> USE DeskTyped DEF DeskCore
<1>1. /\ adCall[c].pc = "void" /\ ~ adCall[c].admin
      /\ adBounty'.st = "cancelled" /\ adBounty'.deleted = adBounty.deleted
      /\ adEscrow'.st = IF adEscrow.st = "pending" THEN "failed" ELSE adEscrow.st
      /\ adEscrow'.hash = adEscrow.hash /\ adEscrow'.refunded = adEscrow.refunded
      /\ adCrossed' = (adCrossed \/ adBounty.st \notin NoFundedEscrow)
      /\ AdReturn(c, TRUE)
      /\ UNCHANGED <<adLeg, adOut, adBack, adAudit, adLogged>>
  BY DEF VoidDraft, AdAt, CallKnows
<1>2. /\ adBounty' \in [st: DeskBounty, deleted: BOOLEAN]
      /\ adEscrow' \in [st: DeskEscrow, hash: BOOLEAN, refunded: BOOLEAN]
  <2>1. /\ adBounty' = [adBounty EXCEPT !.st = "cancelled"]
        /\ adEscrow' = [adEscrow EXCEPT !.st = IF @ = "pending" THEN "failed" ELSE @]
    BY DEF VoidDraft
  <2>2. "cancelled" \in DeskBounty /\ "failed" \in DeskEscrow
    BY DEF DeskBounty, DeskEscrow
  <2> QED
    BY <2>1, <2>2
<1>3. PICK q \in DeskCall :
             /\ adCall' = [adCall EXCEPT ![c] = q] /\ CallKnows(q)'
             /\ adUntold \subseteq adUntold' /\ adUntold' \subseteq AdFunders
             /\ \A f \in adCall[c].moved : f \in q.moved \/ f \in adUntold'
  BY <1>1, ReturnMoves
<1>4. DeskTypeOK'
  <2>1. adCall' \in [AdCalls -> DeskCall]
    BY <1>3
  <2>2. adCrossed' \in BOOLEAN
    BY <1>1
  <2> QED
    BY <1>1, <1>2, <1>3, <2>1, <2>2 DEF DeskTypeOK
<1>5. RowsAgree'
  BY <1>1 DEF RowsAgree, NoFundedEscrow
<1>6. MoneyPlaced'
  BY <1>1 DEF MoneyPlaced, Unapplied
<1>7. AllBack => AllBack'
  BY <1>1 DEF AllBack
<1>8. ASSUME NEW p \in DeskCall, CallKnows(p) PROVE CallKnows(p)'
  <2>1. p.pc = "read" /\ p.admin => AllBack'
    BY <1>1, <1>7, <1>8 DEF CallKnows, AllBack, NoFundedEscrow
  <2> QED
    BY <1>1, <1>7, <1>8, <2>1 DEF CallKnows
<1> HIDE DEF DeskCore
<1> QED
  BY <1>1, <1>3, <1>4, <1>5, <1>6, <1>7, <1>8, WritingStep

LEMMA PlanStep ==
    ASSUME DeskCore, NEW c \in AdCalls, PlanRefund(c), adReport' \in DeskReport
    PROVE  DeskCore'
<1> USE DeskTyped DEF DeskCore
<1>0. adCall[c] \in DeskCall /\ CallKnows(adCall[c])
  OBVIOUS
<1>1. /\ adCall[c].pc = "plan"
      /\ adBounty' = [adBounty EXCEPT !.st = "refunding"]
      /\ adEscrow' = [adEscrow EXCEPT !.st = "refunding"]
      /\ adCall' = [adCall EXCEPT ![c].pc = "pay"]
      /\ UNCHANGED <<adLeg, adOut, adBack, adAudit, adLogged, adCrossed, adUntold>>
  BY DEF PlanRefund, AdAt, AdGoto
<1>2. /\ adBounty'.st = "refunding" /\ adBounty'.deleted = adBounty.deleted
      /\ adEscrow'.st = "refunding" /\ adEscrow'.hash = adEscrow.hash
      /\ adEscrow'.refunded = adEscrow.refunded
      /\ adEscrow.st \in {"funded", "refunding", "refunded"}
  BY <1>0, <1>1 DEF CallKnows
<1>3. [adCall[c] EXCEPT !.pc = "pay"] \in DeskCall
  BY <1>0 DEF DeskCall
<1> PICK q \in DeskCall : q = [adCall[c] EXCEPT !.pc = "pay"]
  BY <1>3
<1>4. adCall' = [adCall EXCEPT ![c] = q] /\ q.pc = "pay" /\ q.moved = adCall[c].moved
  BY <1>0, <1>1 DEF DeskCall
<1>5. DeskTypeOK'
  <2>1. adBounty' \in [st: DeskBounty, deleted: BOOLEAN]
    BY <1>1 DEF DeskBounty
  <2>2. adEscrow' \in [st: DeskEscrow, hash: BOOLEAN, refunded: BOOLEAN]
    BY <1>1 DEF DeskEscrow
  <2>3. adCall' \in [AdCalls -> DeskCall]
    BY <1>4
  <2> QED
    BY <1>1, <2>1, <2>2, <2>3 DEF DeskTypeOK
<1>6. RowsAgree'
  BY <1>1, <1>2 DEF RowsAgree
<1>7. MoneyPlaced'
  BY <1>1, <1>2 DEF MoneyPlaced, Unapplied
<1>8. AllBack' = AllBack
  BY <1>1 DEF AllBack
<1>9. CallKnows(q)' /\ \A p \in DeskCall : CallKnows(p) => CallKnows(p)'
  BY <1>1, <1>2, <1>4, <1>8 DEF CallKnows
<1> HIDE DEF DeskCore
<1> QED
  BY <1>1, <1>4, <1>5, <1>6, <1>7, <1>8, <1>9, WritingStep

LEMMA PayStep ==
    ASSUME DeskCore, NEW c \in AdCalls, PayBack(c), adReport' \in DeskReport
    PROVE  DeskCore'
<1> USE DeskTyped DEF DeskCore
<1>0. adCall[c] \in DeskCall /\ CallKnows(adCall[c])
  OBVIOUS
<1>1. PICK f \in AdFunders \ adBack :
         /\ adOut' = adOut \cup {f}
         /\ adCall' = [adCall EXCEPT ![c].pc = "mark", ![c].leg = {f},
                        ![c].moved = IF f \in adOut THEN @ ELSE @ \cup {f}]
  BY DEF PayBack
<1>2. /\ adCall[c].pc = "pay" /\ adEscrow.st \in {"refunding", "refunded"}
      /\ UNCHANGED <<adBounty, adEscrow, adLeg, adBack, adAudit, adLogged, adCrossed, adUntold>>
  BY <1>0 DEF PayBack, AdAt, CallKnows
<1>3. [adCall[c] EXCEPT !.pc = "mark", !.leg = {f},
         !.moved = IF f \in adOut THEN @ ELSE @ \cup {f}] \in DeskCall
  BY <1>0 DEF DeskCall
<1> PICK q \in DeskCall :
      q = [adCall[c] EXCEPT !.pc = "mark", !.leg = {f},
             !.moved = IF f \in adOut THEN @ ELSE @ \cup {f}]
  BY <1>3
<1>4. /\ adCall' = [adCall EXCEPT ![c] = q] /\ q.pc = "mark" /\ q.leg = {f}
      /\ q.moved = IF f \in adOut THEN adCall[c].moved ELSE adCall[c].moved \cup {f}
  BY <1>0, <1>1 DEF DeskCall
<1>5. DeskTypeOK'
  <2>1. adCall' \in [AdCalls -> DeskCall]
    BY <1>4
  <2> QED
    BY <1>1, <1>2, <2>1 DEF DeskTypeOK
<1>6. RowsAgree'
  BY <1>2 DEF RowsAgree
<1>7. MoneyPlaced'
  BY <1>1, <1>2 DEF MoneyPlaced, Unapplied
<1>8. AllBack' = AllBack
  BY <1>2 DEF AllBack
<1>9. CallKnows(q)' /\ \A p \in DeskCall : CallKnows(p) => CallKnows(p)'
  BY <1>1, <1>2, <1>4, <1>8 DEF CallKnows
<1>10. /\ \A g \in adOut' : g \in adOut \/ g \in q.moved
       /\ \A g \in adCall[c].moved : g \in q.moved
  BY <1>1, <1>4
<1> HIDE DEF DeskCore
<1> QED
  BY <1>2, <1>4, <1>5, <1>6, <1>7, <1>8, <1>9, <1>10, WritingStep

LEMMA MarkBackStep ==
    ASSUME DeskCore, NEW c \in AdCalls, MarkRefunded(c), adReport' \in DeskReport
    PROVE  DeskCore'
<1> USE DeskTyped DEF DeskCore
<1>0. adCall[c] \in DeskCall /\ CallKnows(adCall[c])
  OBVIOUS
<1>1. /\ adCall[c].pc = "mark" /\ adEscrow.st \in {"refunding", "refunded"}
      /\ adCall[c].leg \subseteq adOut
      /\ adBack' = adBack \cup adCall[c].leg
      /\ adCall' = [adCall EXCEPT ![c].pc = "pay", ![c].leg = {}]
      /\ UNCHANGED <<adBounty, adEscrow, adLeg, adOut, adAudit, adLogged, adCrossed, adUntold>>
  BY <1>0 DEF MarkRefunded, AdAt, CallKnows
<1>3. [adCall[c] EXCEPT !.pc = "pay", !.leg = {}] \in DeskCall
  BY <1>0 DEF DeskCall
<1> PICK q \in DeskCall : q = [adCall[c] EXCEPT !.pc = "pay", !.leg = {}]
  BY <1>3
<1>4. /\ adCall' = [adCall EXCEPT ![c] = q] /\ q.pc = "pay" /\ q.moved = adCall[c].moved
  BY <1>0, <1>1 DEF DeskCall
<1>5. DeskTypeOK'
  <2>1. adCall' \in [AdCalls -> DeskCall]
    BY <1>4
  <2> QED
    BY <1>1, <2>1 DEF DeskTypeOK
<1>6. RowsAgree'
  BY <1>1 DEF RowsAgree
<1>7. adBack = AdFunders => adBack' = AdFunders
  BY <1>1
<1>8. MoneyPlaced'
  BY <1>1, <1>7 DEF MoneyPlaced, Unapplied
<1>9. AllBack => AllBack'
  BY <1>1, <1>7 DEF AllBack
<1>10. CallKnows(q)' /\ \A p \in DeskCall : CallKnows(p) => CallKnows(p)'
  BY <1>1, <1>4, <1>9 DEF CallKnows
<1> HIDE DEF DeskCore
<1> QED
  BY <1>1, <1>4, <1>5, <1>6, <1>8, <1>9, <1>10, WritingStep

LEMMA CloseStep ==
    ASSUME DeskCore, NEW c \in AdCalls, CloseRefund(c), adReport' \in DeskReport
    PROVE  DeskCore'
<1> USE DeskTyped DEF DeskCore
<1>0. adCall[c] \in DeskCall /\ CallKnows(adCall[c])
  OBVIOUS
<1>1. /\ adCall[c].pc = "pay" /\ adEscrow.st \in {"refunding", "refunded"}
      /\ adBack = AdFunders
      /\ adBounty' = [adBounty EXCEPT !.st = "cancelled"]
      /\ adEscrow' = [adEscrow EXCEPT !.st = "refunded", !.refunded = TRUE]
      /\ AdReturn(c, TRUE)
      /\ UNCHANGED <<adLeg, adOut, adBack, adAudit, adLogged, adCrossed>>
  BY <1>0 DEF CloseRefund, AdAt, CallKnows
<1>2. /\ adBounty'.st = "cancelled" /\ adBounty'.deleted = adBounty.deleted
      /\ adEscrow'.st = "refunded" /\ adEscrow'.hash = adEscrow.hash
  BY <1>1
<1>3. AllBack /\ AllBack'
  BY <1>1 DEF AllBack
<1>4. PICK q \in DeskCall :
             /\ adCall' = [adCall EXCEPT ![c] = q] /\ CallKnows(q)'
             /\ adUntold \subseteq adUntold' /\ adUntold' \subseteq AdFunders
             /\ \A f \in adCall[c].moved : f \in q.moved \/ f \in adUntold'
  BY <1>1, <1>3, ReturnMoves
<1>5. DeskTypeOK'
  <2>1. adBounty' \in [st: DeskBounty, deleted: BOOLEAN]
    BY <1>1 DEF DeskBounty
  <2>2. adEscrow' \in [st: DeskEscrow, hash: BOOLEAN, refunded: BOOLEAN]
    BY <1>1 DEF DeskEscrow
  <2>3. adCall' \in [AdCalls -> DeskCall]
    BY <1>4
  <2> QED
    BY <1>1, <1>4, <2>1, <2>2, <2>3 DEF DeskTypeOK
<1>6. RowsAgree'
  BY <1>1, <1>2 DEF RowsAgree
<1>7. MoneyPlaced'
  BY <1>1, <1>2 DEF MoneyPlaced, Unapplied
<1>8. \A p \in DeskCall : CallKnows(p) => CallKnows(p)'
  BY <1>1, <1>2, <1>3 DEF CallKnows
<1> HIDE DEF DeskCore
<1> QED
  BY <1>1, <1>3, <1>4, <1>5, <1>6, <1>7, <1>8, WritingStep

LEMMA DeleteStep ==
    ASSUME DeskCore, NEW c \in AdCalls, SoftDelete(c), adReport' \in DeskReport
    PROVE  DeskCore'
<1> USE DeskTyped DEF DeskCore
<1>0. adCall[c] \in DeskCall /\ CallKnows(adCall[c])
  OBVIOUS
<1>1. /\ adCall[c].pc = "delete" /\ adCall[c].moved = {}
      /\ adCall' = [adCall EXCEPT ![c] = NoDeskCall]
      /\ UNCHANGED <<adLeg, adOut, adBack, adCrossed, adUntold>>
  BY <1>0 DEF SoftDelete, AdAt, AdEnd, CallKnows
<1>2. CASE adBounty.deleted \/ DeleteBlocked
  <2>1. /\ UNCHANGED <<adMoney, adCrossed>>
        /\ UNCHANGED <<adAudit, adLogged>> \/ AuditRow("delete", "refused", {})
    <3>1. CASE adBounty.deleted
      BY <1>1, <3>1 DEF SoftDelete, adMoney
    <3>2. CASE ~ adBounty.deleted /\ DeleteBlocked
      BY <1>1, <3>2 DEF SoftDelete, adMoney
    <3> QED
      BY <1>2, <3>1, <3>2
  <2>2. /\ adAudit \subseteq adAudit' /\ adAudit' \subseteq DeskRow
        /\ adLogged \subseteq adLogged' /\ adLogged' \subseteq AdFunders
        /\ \A a \in adAudit' : a \in adAudit \/ (a.action = "refund" /\ a.result = "ok" => AllBack)
    <3>1. CASE UNCHANGED <<adAudit, adLogged>>
      BY <3>1
    <3>2. CASE AuditRow("delete", "refused", {})
      <4> HIDE DEF DeskCore
      <4> QED
        BY <3>2, RowAdded
    <3> QED
      BY <2>1, <3>1, <3>2
  <2> HIDE DEF DeskCore
  <2>3. adUntold \subseteq adUntold' /\ adUntold' \subseteq AdFunders
    BY <1>1, DeskTyped DEF DeskCore
  <2> QED
    BY <1>1, <2>1, <2>2, <2>3, IdleCall, CallOnly
<1>3. CASE ~ adBounty.deleted /\ ~ DeleteBlocked
  <2>1. /\ adBounty' = [st |-> IF adBounty.st = "pending_fund" THEN "cancelled"
                                                               ELSE adBounty.st,
                        deleted |-> TRUE]
        /\ adEscrow' = [adEscrow EXCEPT !.st = IF @ = "pending" THEN "failed" ELSE @]
        /\ AuditRow("delete", "ok", {})
    BY <1>3 DEF SoftDelete
  <2>2. /\ adBounty'.st = IF adBounty.st = "pending_fund" THEN "cancelled" ELSE adBounty.st
        /\ adEscrow'.st = IF adEscrow.st = "pending" THEN "failed" ELSE adEscrow.st
        /\ adEscrow'.hash = adEscrow.hash /\ adEscrow'.refunded = adEscrow.refunded
    BY <2>1
  <2>3. /\ adAudit \subseteq adAudit' /\ adAudit' \subseteq DeskRow
        /\ adLogged \subseteq adLogged' /\ adLogged' \subseteq AdFunders
        /\ \A a \in adAudit' : a \in adAudit \/ (a.action = "refund" /\ a.result = "ok" => AllBack)
    <3> HIDE DEF DeskCore
    <3> QED
      BY <2>1, RowAdded
  <2>4. DeskTypeOK'
    <3>1. adBounty' \in [st: DeskBounty, deleted: BOOLEAN]
      BY <2>1 DEF DeskBounty
    <3>2. adEscrow' \in [st: DeskEscrow, hash: BOOLEAN, refunded: BOOLEAN]
      BY <2>1 DEF DeskEscrow
    <3>3. adCall' \in [AdCalls -> DeskCall]
      BY <1>1, IdleCall
    <3> QED
      BY <1>1, <2>3, <3>1, <3>2, <3>3 DEF DeskTypeOK
  <2>5. RowsAgree'
    BY <1>1, <2>2 DEF RowsAgree
  <2>6. MoneyPlaced'
    <3>1. \/ adEscrow.st \in {"pending", "failed"}
          \/ adOut = AdFunders
          \/ \A l \in AdLegs : adLeg[l] \in {"sent", "confirmed"}
      <4> HIDE DEF DeskCore
      <4> QED
        BY <1>3, DeletableEmpty
    <3> QED
      BY <1>1, <2>2, <3>1 DEF MoneyPlaced, Unapplied
  <2>7. AllBack' = AllBack
    BY <1>1 DEF AllBack
  <2>8. \A p \in DeskCall : CallKnows(p) => CallKnows(p)'
    BY <1>1, <2>2, <2>7 DEF CallKnows
  <2>9. CallKnows(NoDeskCall)'
    BY DEF CallKnows, NoDeskCall
  <2> HIDE DEF DeskCore
  <2> QED
    BY <1>1, <2>3, <2>4, <2>5, <2>6, <2>7, <2>8, <2>9, IdleCall, WritingStep
<1> QED
  BY <1>2, <1>3

-----------------------------------------------------------------------------
\* The two reports against the chain.
LEMMA ReportsNow ==
    ASSUME DeskCore
    PROVE  /\ DeskWallet \in Nat /\ Liability \in Nat /\ OnTheWay \in Nat
           /\ DeskWallet <= Attributed
           /\ Liability <= DeskWallet + OnTheWay
           /\ adBounty.deleted \/ adEscrow.st = "refunding"
                \/ Liability = DeskWallet + OnTheWay
           /\ adBounty.deleted => DeskWallet = 0 \/ Unapplied
<1> USE DeskTyped DEF DeskCore
<1> DEFINE paid == Cardinality(LegsAt({"sent", "confirmed"}))
           gone == Cardinality(LegsAt({"sent"}))
           back == Cardinality(adBack)
           late == Cardinality(adOut \ adBack)
           done == PaidOut
           face == AdFace
           out == Cardinality(adOut)
<1>1. /\ face \in Nat /\ done \in Nat /\ gone \in Nat /\ paid \in Nat /\ back \in Nat
      /\ late \in Nat /\ out \in Nat /\ done <= face /\ paid <= face /\ out <= face
      /\ paid = gone + done /\ out = back + late
  BY DeskSizes
<1>2. /\ adEscrow.st \notin {"settling", "settled"} => paid = 0 /\ gone = 0 /\ done = 0
      /\ adEscrow.st = "settled" => done = face
  <2>1. ASSUME adEscrow.st \notin {"settling", "settled"}
        PROVE  /\ LegsAt({"sent", "confirmed"}) = {} /\ LegsAt({"sent"}) = {}
               /\ LegsAt({"confirmed"}) = {}
    BY <2>1 DEF MoneyPlaced, LegsAt
  <2>2. ASSUME adEscrow.st = "settled" PROVE LegsAt({"confirmed"}) = AdLegs
    BY <2>2 DEF MoneyPlaced, LegsAt
  <2> QED
    BY <2>1, <2>2, FS_EmptySet, DeskSizes DEF PaidOut
<1>3. /\ adEscrow.st \notin {"refunding", "refunded"} => out = 0 /\ ~ adEscrow.refunded
      /\ adEscrow.refunded \/ adEscrow.st = "refunded" => back = face
  <2>1. adEscrow.st \notin {"refunding", "refunded"} => adOut = {}
    BY DEF MoneyPlaced
  <2>2. adEscrow.refunded \/ adEscrow.st = "refunded" => adBack = AdFunders
    BY DEF MoneyPlaced
  <2> QED
    BY <2>1, <2>2, FS_EmptySet DEF MoneyPlaced, AdFace
<1>4. adBounty.deleted => Unapplied \/ ~ adEscrow.hash \/ out = face \/ paid = face
  <2>1. CASE adOut = AdFunders
    BY <2>1 DEF AdFace
  <2>2. CASE \A l \in AdLegs : adLeg[l] \in {"sent", "confirmed"}
    <3>1. LegsAt({"sent", "confirmed"}) = AdLegs
      BY <2>2 DEF LegsAt
    <3> QED
      BY <3>1, DeskSizes
  <2> QED
    BY <2>1, <2>2 DEF MoneyPlaced
<1>5. /\ ~ adEscrow.hash => adEscrow.st \in {"pending", "failed"}
      /\ adEscrow.st \in DeskEscrow /\ adEscrow.hash \in BOOLEAN
      /\ adEscrow.refunded \in BOOLEAN /\ adBounty.deleted \in BOOLEAN
  BY DEF MoneyPlaced
<1>6. /\ DeskWallet = IF adEscrow.hash THEN face - paid - out ELSE 0
      /\ OnTheWay = gone + late
      /\ Unapplied = (adEscrow.st \in {"pending", "failed"} /\ adEscrow.hash)
  BY DEF DeskWallet, OnTheWay, Unapplied
<1>7. /\ adBounty.deleted => Liability = 0
      /\ ~ adBounty.deleted /\ Unapplied => Liability = face
      /\ ~ adBounty.deleted /\ adEscrow.st \in {"funded", "settling"} /\ ~ adEscrow.refunded =>
           Liability = IF face - done - back < 0 THEN 0 ELSE face - done - back
      /\ ~ Unapplied /\ adEscrow.st \notin {"funded", "settling"} => Liability = 0
  BY <1>5 DEF Liability, Unapplied
<1>8. /\ Unapplied => Attributed = face
      /\ ~ Unapplied /\ adEscrow.st \in {"pending", "failed", "refunded", "settled"} =>
           Attributed = 0
      /\ adEscrow.st \in {"funded", "settling", "refunding"} =>
           Attributed = IF adEscrow.refunded THEN 0 ELSE face - done
  BY <1>5 DEF Attributed, Unapplied
<1> HIDE DEF DeskCore, paid, gone, back, late, done, face, out
<1>9. CASE adEscrow.st \in {"pending", "failed"}
  <2>1. paid = 0 /\ gone = 0 /\ done = 0 /\ out = 0 /\ ~ adEscrow.refunded
    BY <1>2, <1>3, <1>9
  <2>2. back = 0 /\ late = 0 /\ OnTheWay = 0
    BY <1>1, <1>6, <2>1
  <2>3. CASE adEscrow.hash
    <3>1. Unapplied /\ DeskWallet = face - paid - out
      BY <1>6, <1>9, <2>3
    <3>2. Attributed = face /\ Liability = IF adBounty.deleted THEN 0 ELSE face
      BY <1>5, <1>7, <1>8, <3>1
    <3>3. DeskWallet = face
      BY <1>1, <2>1, <3>1
    <3> QED
      BY <1>1, <2>2, <3>1, <3>2, <3>3
  <2>4. CASE ~ adEscrow.hash
    <3>1. ~ Unapplied /\ DeskWallet = 0
      BY <1>6, <2>4
    <3>2. Attributed = 0 /\ Liability = 0
      BY <1>7, <1>8, <1>9, <3>1
    <3> QED
      BY <2>2, <3>1, <3>2
  <2> QED
    BY <2>3, <2>4
<1>10. CASE adEscrow.st \in {"funded", "settling"}
  <2>1. /\ adEscrow.hash /\ ~ Unapplied /\ ~ adEscrow.refunded /\ out = 0
    BY <1>3, <1>5, <1>6, <1>10
  <2>2. /\ DeskWallet = face - paid /\ OnTheWay = gone + late /\ Attributed = face - done
    BY <1>1, <1>6, <1>8, <1>10, <2>1
  <2>3. back = 0 /\ late = 0
    BY <1>1, <2>1
  <2>4. CASE adBounty.deleted
    <3>1. Liability = 0 /\ paid = face
      BY <1>1, <1>4, <1>7, <2>1, <2>4
    <3> QED
      BY <1>1, <2>2, <2>3, <2>4, <3>1
  <2>5. CASE ~ adBounty.deleted
    <3>1. Liability = face - done
      BY <1>1, <1>7, <1>10, <2>1, <2>3, <2>5
    <3> QED
      BY <1>1, <2>2, <2>3, <2>5, <3>1
  <2> QED
    BY <2>4, <2>5
<1>11. CASE adEscrow.st = "settled"
  <2>1. /\ adEscrow.hash /\ ~ Unapplied /\ out = 0 /\ done = face
    BY <1>2, <1>3, <1>5, <1>6, <1>11
  <2>2. paid = face /\ gone = 0 /\ late = 0
    BY <1>1, <2>1
  <2>3. /\ DeskWallet = 0 /\ OnTheWay = 0 /\ Attributed = 0 /\ Liability = 0
    <3>1. DeskWallet = face - paid - out /\ OnTheWay = gone + late
      BY <1>6, <2>1
    <3>2. Attributed = 0
      BY <1>8, <1>11, <2>1
    <3>3. Liability = 0
      BY <1>5, <1>7, <1>11, <2>1
    <3> QED
      BY <1>1, <2>1, <2>2, <3>1, <3>2, <3>3
  <2> QED
    BY <2>3
<1>12. CASE adEscrow.st = "refunding"
  BY <1>1, <1>2, <1>3, <1>4, <1>5, <1>6, <1>7, <1>8, <1>12
<1>13. CASE adEscrow.st = "refunded"
  BY <1>1, <1>2, <1>3, <1>5, <1>6, <1>7, <1>8, <1>13
<1> QED
  BY <1>5, <1>9, <1>10, <1>11, <1>12, <1>13 DEF DeskEscrow

\* While others work, a report that is being read stays right, or is not calm.
LEMMA StirsTiles ==
    ASSUME DeskTypeOK, TilesHold, Stirs
    PROVE  adReport' \in DeskReport /\ TilesHold'
<1>0. adReport \in DeskReport
  BY DeskTyped
<1>1. CASE adReport' = [adReport EXCEPT !.calm = FALSE]
  BY <1>0, <1>1 DEF DeskReport, TilesHold
<1>2. CASE adReport' = adReport /\ (adReport = NoReport
                                    \/ (adReport.chain # {} /\ adReport.owed # {}))
  <2>1. CASE adReport = NoReport
    BY <1>0, <1>2, <2>1 DEF NoReport, TilesHold
  <2>2. CASE adReport.chain # {} /\ adReport.owed # {}
    BY <1>0, <1>2, <2>2 DEF TilesHold
  <2> QED
    BY <1>2, <2>1, <2>2
<1>3. CASE adReport' = adReport /\ <<DeskWallet, Liability>>' = <<DeskWallet, Liability>>
  <2>1. Liability' = Liability
    BY <1>3
  <2> QED
    BY <1>0, <1>3, <2>1 DEF TilesHold
<1> QED
  BY <1>1, <1>2, <1>3 DEF Stirs

LEMMA TileRead ==
    ASSUME DeskCore, TilesHold, ReadTile
    PROVE  DeskCore' /\ TilesHold'
<1>0. /\ UNCHANGED <<adBounty, adEscrow, adLeg, adOut, adBack, adAudit, adLogged, adCall, adCrossed, adUntold>>
      /\ adReport \in DeskReport
  BY DeskTyped DEF ReadTile, adMoney, DeskCore
<1>1. DeskWallet \in Nat /\ Liability \in Nat /\ OnTheWay \in Nat
      /\ Liability <= DeskWallet + OnTheWay
  BY ReportsNow
<1>2. Liability' = Liability
  BY <1>0 DEF Liability, Unapplied, PaidOut, LegsAt, AdFace
<1>3. CASE adReport.chain = {} /\ adReport' = [adReport EXCEPT !.chain = {DeskWallet},
                                                 !.calm = @ /\ OnTheWay = 0]
  <2>1. /\ adReport'.chain = {DeskWallet} /\ adReport'.owed = adReport.owed
        /\ adReport'.calm = (adReport.calm /\ OnTheWay = 0)
        /\ adReport' \in DeskReport
    BY <1>0, <1>1, <1>3 DEF DeskReport
  <2>2. adReport'.calm => Liability <= DeskWallet
    <3>1. adReport'.calm => OnTheWay = 0
      BY <2>1, Zenon
    <3> QED
      BY <1>1, <3>1
  <2>3. TilesHold'
    BY <1>2, <1>3, <2>1, <2>2 DEF TilesHold
  <2>4. DeskCore'
    BY <1>0, <2>1 DEF DeskCore, DeskTypeOK, RowsAgree, MoneyPlaced, CallKnows, Told, AllBack,
       Unapplied
  <2> QED
    BY <2>3, <2>4
<1>4. CASE adReport.owed = {} /\ adReport' = [adReport EXCEPT !.owed = {Liability}]
  <2>1. /\ adReport'.owed = {Liability} /\ adReport'.chain = adReport.chain
        /\ adReport'.calm = adReport.calm
        /\ adReport' \in DeskReport
    BY <1>0, <1>1, <1>4 DEF DeskReport
  <2>2. TilesHold'
    BY <1>2, <1>4, <2>1 DEF TilesHold
  <2>3. DeskCore'
    BY <1>0, <2>1 DEF DeskCore, DeskTypeOK, RowsAgree, MoneyPlaced, CallKnows, Told, AllBack,
       Unapplied
  <2> QED
    BY <2>2, <2>3
<1> QED
  BY <1>3, <1>4 DEF ReadTile

LEMMA ReportAnswered ==
    ASSUME DeskCore, AnswerReport \/ UNCHANGED adVars, TilesHold
    PROVE  DeskCore' /\ TilesHold'
<1>0. /\ UNCHANGED <<adBounty, adEscrow, adLeg, adOut, adBack, adAudit, adLogged, adCall, adCrossed, adUntold>>
  BY DEF AnswerReport, adMoney, adVars
<1>1. adReport' \in DeskReport
  <2>1. NoReport \in DeskReport
    BY DEF NoReport, DeskReport
  <2>2. adReport' \in {NoReport, adReport}
    BY DEF AnswerReport, adVars
  <2> QED
    BY <2>1, <2>2, DeskTyped DEF DeskCore
<1>2. DeskCore'
  BY <1>0, <1>1 DEF DeskCore, DeskTypeOK, RowsAgree, MoneyPlaced, CallKnows, Told, AllBack,
     Unapplied
<1>3. CASE AnswerReport
  BY <1>2, <1>3 DEF AnswerReport, NoReport, TilesHold
<1>4. CASE UNCHANGED adVars
  <2>1. Liability' = Liability
    BY <1>0 DEF Liability, Unapplied, PaidOut, LegsAt, AdFace
  <2> QED
    BY <1>2, <1>4, <2>1 DEF adVars, TilesHold
<1> QED
  BY <1>3, <1>4

LEMMA DeskKept == DeskInv /\ [DeskNext]_adVars => DeskInv'
<1> SUFFICES ASSUME DeskInv, [DeskNext]_adVars PROVE DeskInv'
  OBVIOUS
<1>0. DeskCore /\ TilesHold
  BY DEF DeskInv, DeskCore
<1>1. CASE DeskStep /\ Stirs
  <2>1. adReport' \in DeskReport /\ TilesHold'
    BY <1>0, <1>1, StirsTiles DEF DeskCore
  <2>2. ASSUME NEW c \in AdCalls,
               \/ RefuseRefund(c) \/ AskRefund(c) \/ AskCancel(c) \/ ReadRefund(c) \/ VoidDraft(c)
               \/ PlanRefund(c) \/ PayBack(c) \/ MarkRefunded(c) \/ CloseRefund(c)
               \/ FailRefund(c) \/ AuditRefund(c) \/ DieAtDesk(c) \/ AskDelete(c) \/ SoftDelete(c)
        PROVE  DeskCore'
    <3>1. CASE QuietCall(c)
      BY <1>0, <2>1, <3>1, QuietCallStep
    <3>2. CASE VoidDraft(c)
      BY <1>0, <2>1, <3>2, VoidStep
    <3>3. CASE PlanRefund(c)
      BY <1>0, <2>1, <3>3, PlanStep
    <3>4. CASE PayBack(c)
      BY <1>0, <2>1, <3>4, PayStep
    <3>5. CASE MarkRefunded(c)
      BY <1>0, <2>1, <3>5, MarkBackStep
    <3>6. CASE CloseRefund(c)
      BY <1>0, <2>1, <3>6, CloseStep
    <3>7. CASE SoftDelete(c)
      BY <1>0, <2>1, <3>7, DeleteStep
    <3> QED
      BY <2>2, <3>1, <3>2, <3>3, <3>4, <3>5, <3>6, <3>7 DEF QuietCall
  <2>3. ASSUME MoneyIn PROVE DeskCore'
    BY <1>0, <2>1, <2>3, MoneyInStep
  <2>4. DeskCore'
    BY <1>1, <2>2, <2>3 DEF DeskStep, MoneyIn
  <2> QED
    BY <2>1, <2>4 DEF DeskInv, DeskCore
<1>2. CASE ReadTile
  BY <1>0, <1>2, TileRead DEF DeskInv, DeskCore
<1>3. CASE AnswerReport \/ UNCHANGED adVars
  BY <1>0, <1>3, ReportAnswered DEF DeskInv, DeskCore
<1> QED
  BY <1>1, <1>2, <1>3 DEF DeskNext

\* The rows of the desk, its calls, reports and its log keep their types.
LEMMA DeskTypeCorrect == DeskSpec => []DeskTypeOK
<1>1. DeskInv => DeskTypeOK
  BY DEF DeskInv
<1> QED
  BY <1>1, DeskStarts, DeskKept, PTL DEF DeskSpec

\* DeskTellsTheTruth, for any requests, contributions and legs: the audit log can be
\* believed, what holds money can be refunded before it is deleted, a deleted bounty
\* hides nothing, and neither report does (refund.ts, delete.ts, balances.ts).
THEOREM DeskIsTruthful == DeskSpec => []DeskTellsTheTruth
<1>1. DeskInv => DeskTellsTheTruth
  <2> SUFFICES ASSUME DeskInv PROVE DeskTellsTheTruth
    OBVIOUS
  <2>0. DeskCore /\ TilesHold
    BY DEF DeskInv, DeskCore
  <2>1. AuditTells
    <3>1. \A f \in adOut :
            \/ f \in adUntold
            \/ f \in adLogged
            \/ \E c \in AdCalls : f \in adCall[c].moved
      BY <2>0 DEF DeskCore, Told
    <3> DEFINE carried == UNION {adCall[c].moved : c \in AdCalls}
    <3>2. adOut \subseteq adLogged \cup adUntold \cup carried
      <4>1. ASSUME NEW f \in adOut PROVE f \in adLogged \/ f \in adUntold \/ f \in carried
        <5>1. CASE f \in adLogged
          BY <5>1
        <5>2. CASE \E c \in AdCalls : f \in adCall[c].moved
          BY <5>2
        <5> QED
          BY <3>1, <5>1, <5>2
      <4> HIDE DEF carried
      <4> QED
        BY <4>1
    <3>3. \A a \in adAudit : a.action = "refund" /\ a.result = "ok" => AllBack
      BY <2>0 DEF DeskCore, Told
    <3>4. \A a \in adAudit :
            a.action = "refund" /\ a.result = "ok" => adBack = AdFunders \/ adCrossed
      BY <3>3 DEF AllBack
    <3> QED
      BY <3>2, <3>4 DEF AuditTells
  <2>2. RefundFirst
    <3>1. HoldsFunds => adEscrow.st \in {"funded", "settling", "refunding"}
      BY DEF HoldsFunds
    <3> QED
      BY <2>0, <3>1 DEF RefundFirst, DeskCore, RowsAgree, CallKnows, AdAt, NoFundedEscrow
  <2>3. DeletedHoldsNothing /\ ReportsBracket
    BY <2>0, ReportsNow DEF DeletedHoldsNothing, ReportsBracket, TilesHold
  <2> QED
    BY <2>1, <2>2, <2>3 DEF DeskTellsTheTruth
<1> QED
  BY DeskStarts, DeskKept, <1>1, PTL DEF DeskSpec

-----------------------------------------------------------------------------
(* The components together, as the run "money" follows them                 *)

\* Whichever component a behaviour follows, it is a behaviour of all of them, the
\* others standing still: what is proved of a component holds of the run.
LEMMA MoneyParts ==
    MoneySpec => /\ [](part \in Parts)
                 /\ Spec /\ MarkSpec /\ AddressSpec /\ CheckoutSpec /\ GatewaySpec /\ DeskSpec
<1>1. MoneyInit => /\ part \in Parts /\ Init /\ MarkInit /\ AddressInit /\ CheckoutInit
                   /\ GatewayInit /\ DeskInit
  BY DEF MoneyInit
<1>2. [MoneyNext]_moneyVars =>
        /\ part' = part /\ [Next]_vars /\ [MarkNext]_fmVars /\ [AddressNext]_daVars
        /\ [CheckoutNext]_ckVars /\ [GatewayNext]_gwVars /\ [DeskNext]_adVars
  BY DEF MoneyNext, moneyVars
<1>3. (part \in Parts) /\ [MoneyNext]_moneyVars => (part \in Parts)'
  BY <1>2
<1> QED
  BY <1>1, <1>2, <1>3, PTL
  DEF MoneySpec, Spec, MarkSpec, AddressSpec, CheckoutSpec, GatewaySpec, DeskSpec

\* What the run "money" checks of its components' state holds for any number of
\* requests, runs, claims, presses, calls and keys.
THEOREM MoneyTypeCorrect == MoneySpec => []MoneyTypeOK
<1>1. part \in Parts /\ TypeOK /\ MarkTypeOK /\ AddressTypeOK /\ CheckoutTypeOK
      /\ GatewayTypeOK /\ DeskTypeOK => MoneyTypeOK
  BY DEF MoneyTypeOK, Parts
<1> QED
  BY <1>1, MoneyParts, FundTypeCorrect, MarkTypeCorrect, AddressTypeCorrect,
     CheckoutTypeCorrect, GatewayTypeCorrect, DeskTypeCorrect, PTL
=============================================================================
