------------------------------ MODULE Funding ------------------------------
(***************************************************************************)
(* The inbound half of the escrow of one bounty on the live rail: an x402   *)
(* payment is settled on the chain and then recorded on the escrow row, the *)
(* poster locks the recorded payment, further funders top the bounty up,    *)
(* and meanwhile the poster may edit the face or cancel the draft, the      *)
(* expiry job may void it and an administrator may delete it                *)
(* (src/apps/web/src/escrow, bounties/update-amount.ts, admin/delete.ts).   *)
(*                                                                         *)
(* An HTTP handler reads, waits for the facilitator or the rail, and        *)
(* writes; what it does inside one transaction under a row lock is one      *)
(* step.  Payments stand for the transaction hashes of the chain.           *)
(***************************************************************************)
EXTENDS Integers, FiniteSets, FiniteSetsExt

CONSTANTS
    Requests,      \* handlers that can be in flight at the same time
    Payments,      \* x402 payments that funders can sign, each settled once
    Unpaid,        \* stands for no transaction hash
    Faces,         \* faces the poster may ask for
    TopUps,        \* amounts a further funder may add
    MaxEdits,      \* bound: edits of the face
    MaxCrashes     \* bound: processes that die in the middle of a handler

ASSUME FundingAssumption ==
    /\ Unpaid \notin Payments /\ IsFiniteSet(Payments)
    /\ Faces \subseteq Nat \ {0} /\ TopUps \subseteq Nat \ {0}
    /\ MaxEdits \in Nat /\ MaxCrashes \in Nat

VARIABLES
    bounty,     \* the bounties row: status, amount_usdc, deleted_at
    escrow,     \* the escrows row: status, amount_usdc, fund_tx_hash, x402_payment_id
    credited,   \* bounty_contributions: the amount credited to a payment
    closed,     \* the winning merge has written a claim or frozen the pool
    settled,    \* the chain: what a payment has brought to gb-escrow
    req, edits, crashes

vars == <<bounty, escrow, credited, closed, settled, req, edits, crashes>>
-----------------------------------------------------------------------------
BountyStatus == {"pending_fund", "funded", "cancelled", "expired"}
EscrowStatus == {"pending", "funded", "failed"}

PCs == {"idle", "pay.settle", "pay.record", "pay.write", "topup.settle",
        "topup.apply", "lock.commit", "void.write"}

EscrowRow == [status: EscrowStatus, amount: Nat, hash: Payments \cup {Unpaid}]
NoRow == [status |-> "pending", amount |-> 0, hash |-> Unpaid]

Request == [pc: PCs,
            pay: Payments \cup {Unpaid},   \* the payment or the recorded hash
            amount: Nat,                   \* what is charged, or the face read
            face: Nat,                     \* the face when a top-up was read
            gone: BOOLEAN,                 \* deleted_at as read
            row: EscrowRow,                \* the escrow row as read
            to: BountyStatus]              \* the status a void writes

Idle == [pc |-> "idle", pay |-> Unpaid, amount |-> 0, face |-> 0,
         gone |-> FALSE, row |-> NoRow, to |-> "cancelled"]

Goto(r, pc) == req' = [req EXCEPT ![r].pc = pc]
Return(r) == req' = [req EXCEPT ![r] = Idle]

TypeOK ==
    /\ bounty \in [status: BountyStatus, face: Nat, deleted: BOOLEAN]
    /\ escrow \in EscrowRow
    /\ credited \in [Payments -> Nat]
    /\ closed \in BOOLEAN
    /\ settled \in [Payments -> Nat]
    /\ req \in [Requests -> Request]
    /\ edits \in Nat /\ crashes \in Nat

\* createBountyFromIssueUrl writes the draft and its pending escrow together.
Init ==
    /\ \E f \in Faces :
         /\ bounty = [status |-> "pending_fund", face |-> f, deleted |-> FALSE]
         /\ escrow = [status |-> "pending", amount |-> f, hash |-> Unpaid]
    /\ credited = [p \in Payments |-> 0]
    /\ closed = FALSE
    /\ settled = [p \in Payments |-> 0]
    /\ req = [r \in Requests |-> Idle]
    /\ edits = 0 /\ crashes = 0
-----------------------------------------------------------------------------
(* handleX402Fund: the first payment                                        *)

\* A signed payment settles once, in the hands of the request that carries it.
Unspent(p) == settled[p] = 0 /\ \A r \in Requests : req[r].pay # p

\* A payment that arrives for a deleted bounty is settled and held for review.
PayRead(r, p) ==
    /\ req[r].pc = "idle"
    /\ Unspent(p)
    /\ \/ bounty.deleted
       \/ /\ bounty.status = "pending_fund"
          /\ escrow.status # "funded"
          /\ escrow.hash = Unpaid
    /\ req' = [req EXCEPT ![r] =
         [Idle EXCEPT !.pc = "pay.settle", !.pay = p, !.amount = bounty.face]]
    /\ UNCHANGED <<bounty, escrow, credited, closed, settled, edits, crashes>>

\* processLiveX402Exact: the facilitator settles exactly the amount of the
\* requirement that was issued.
Settle(r, pc) ==
    /\ settled' = [settled EXCEPT ![req[r].pay] = req[r].amount]
    /\ Goto(r, pc)
    /\ UNCHANGED <<bounty, escrow, credited, closed, edits, crashes>>

PaySettle(r) == req[r].pc = "pay.settle" /\ Settle(r, "pay.record")

\* The facilitator refuses the payment.
PayRefused(r) ==
    /\ req[r].pc \in {"pay.settle", "topup.settle"}
    /\ Return(r)
    /\ UNCHANGED <<bounty, escrow, credited, closed, settled, edits, crashes>>

\* recordExactInbound reads the escrow and the bounty; the reasons it throws.
RecordRefused(r) ==
    /\ req[r].pc = "pay.record"
    /\ ~ bounty.deleted
    /\ escrow.status # "pending" \/ escrow.hash \notin {Unpaid, req[r].pay}
    /\ Return(r)
    /\ UNCHANGED <<bounty, escrow, credited, closed, settled, edits, crashes>>

RecordRead(r) ==
    /\ req[r].pc = "pay.record"
    /\ \/ bounty.deleted
       \/ escrow.status = "pending" /\ escrow.hash \in {Unpaid, req[r].pay}
    /\ req' = [req EXCEPT ![r].pc = "pay.write", ![r].gone = bounty.deleted,
                          ![r].row = escrow]
    /\ UNCHANGED <<bounty, escrow, credited, closed, settled, edits, crashes>>

\* It then writes the row by id.  persistDeletedBountyInbound keeps a hash that
\* it read and leaves no fundable row.
RecordWrite(r) ==
    LET q == req[r]
    IN  /\ q.pc = "pay.write"
        /\ escrow' = IF q.gone
             THEN [escrow EXCEPT
                     !.hash = IF q.row.hash = Unpaid THEN q.pay ELSE q.row.hash,
                     !.status = IF q.row.status = "pending" THEN "failed" ELSE q.row.status]
             ELSE [escrow EXCEPT !.hash = q.pay]
        /\ Return(r)
        /\ UNCHANGED <<bounty, credited, closed, settled, edits, crashes>>
-----------------------------------------------------------------------------
(* lockEscrowFunds: the poster's lock                                       *)

\* The live rail locks the hash that x402 recorded.
LockRead(r) ==
    /\ req[r].pc = "idle"
    /\ ~ bounty.deleted
    /\ bounty.status = "pending_fund"
    /\ escrow.hash # Unpaid
    /\ req' = [req EXCEPT ![r] =
         [Idle EXCEPT !.pc = "lock.commit", !.pay = escrow.hash, !.amount = bounty.face]]
    /\ UNCHANGED <<bounty, escrow, credited, closed, settled, edits, crashes>>

Lockable(q) ==
    /\ bounty.status = "pending_fund"
    /\ bounty.face = q.amount
    /\ ~ bounty.deleted
    /\ escrow.status \in {"pending", "funded"}

\* The transaction: the bounty is updated only as it was read, and
\* recordLockContribution credits the face to the hash once.
LockCommit(r) ==
    LET q == req[r]
    IN  /\ q.pc = "lock.commit"
        /\ Lockable(q)
        /\ bounty' = [bounty EXCEPT !.status = "funded"]
        /\ escrow' = [status |-> "funded", amount |-> bounty.face, hash |-> q.pay]
        /\ credited' = [credited EXCEPT ![q.pay] = IF @ = 0 THEN bounty.face ELSE @]
        /\ Return(r)
        /\ UNCHANGED <<closed, settled, edits, crashes>>

LockRefused(r) ==
    /\ req[r].pc = "lock.commit"
    /\ ~ Lockable(req[r])
    /\ Return(r)
    /\ UNCHANGED <<bounty, escrow, credited, closed, settled, edits, crashes>>
-----------------------------------------------------------------------------
(* handleFundedTopUp and topUpFundedBounty                                  *)

\* assertFundedTopUpOpen
TopUpOpen_Unfrozen == ~ bounty.deleted /\ bounty.status = "funded"
TopUpOpen ==
    /\ ~ bounty.deleted
    /\ bounty.status = "funded"
    /\ escrow.status = "funded"
    /\ ~ closed

TopUpRead(r, p, amount) ==
    /\ req[r].pc = "idle"
    /\ Unspent(p)
    /\ TopUpOpen
    /\ req' = [req EXCEPT ![r] =
         [Idle EXCEPT !.pc = "topup.settle", !.pay = p, !.amount = amount,
                      !.face = bounty.face]]
    /\ UNCHANGED <<bounty, escrow, credited, closed, settled, edits, crashes>>

TopUpSettle(r) == req[r].pc = "topup.settle" /\ Settle(r, "topup.apply")

\* The face is read again under the row lock, not taken from the request.
RaisedFace_Stale(q) == q.face + q.amount
RaisedFace(q) == bounty.face + q.amount

\* The transaction looks again whether top-ups are open, with the bounty row
\* locked; a claim or a frozen participant cannot be inserted meanwhile,
\* because their foreign key needs that row.
TopUpApply(r) ==
    LET q == req[r]
    IN  /\ q.pc = "topup.apply"
        /\ TopUpOpen
        /\ IF credited[q.pay] = 0
           THEN /\ credited' = [credited EXCEPT ![q.pay] = q.amount]
                /\ bounty' = [bounty EXCEPT !.face = RaisedFace(q)]
                /\ escrow' = [escrow EXCEPT !.amount = RaisedFace(q)]
           ELSE UNCHANGED <<credited, bounty, escrow>>
        /\ Return(r)
        /\ UNCHANGED <<closed, settled, edits, crashes>>

\* Closed while the payment was settling: the money stays in gb-escrow.
TopUpRefused(r) ==
    /\ req[r].pc = "topup.apply"
    /\ ~ TopUpOpen
    /\ Return(r)
    /\ UNCHANGED <<bounty, escrow, credited, closed, settled, edits, crashes>>
-----------------------------------------------------------------------------
(* What else happens to a draft                                             *)

\* updateBountyAmount, with the bounty and the escrow row locked.  Funding is
\* what the rows know of.
Editable ==
    /\ ~ bounty.deleted
    /\ bounty.status = "pending_fund"
    /\ escrow.status = "pending"
    /\ escrow.hash = Unpaid
    /\ \A p \in Payments : credited[p] = 0

EditAmount(f) ==
    /\ edits < MaxEdits
    /\ Editable
    /\ f # bounty.face
    /\ bounty' = [bounty EXCEPT !.face = f]
    /\ escrow' = [escrow EXCEPT !.amount = f]
    /\ edits' = edits + 1
    /\ UNCHANGED <<credited, closed, settled, req, crashes>>

\* The escrow row of a draft that ends: a pending row has failed, a funded one
\* stays.
Ended_AsTheBounty == [escrow EXCEPT !.status = IF @ = "pending" THEN "cancelled" ELSE @]
Ended == [escrow EXCEPT !.status = IF @ = "pending" THEN "failed" ELSE @]

\* refundEscrow of a draft: it reads the status, and its transaction then
\* writes the bounty by id.
VoidRead(r, to) ==
    /\ req[r].pc = "idle"
    /\ ~ bounty.deleted
    /\ bounty.status = "pending_fund"
    /\ req' = [req EXCEPT ![r] = [Idle EXCEPT !.pc = "void.write", !.to = to]]
    /\ UNCHANGED <<bounty, escrow, credited, closed, settled, edits, crashes>>

VoidWrite(r) ==
    /\ req[r].pc = "void.write"
    /\ bounty' = [bounty EXCEPT !.status = req[r].to]
    /\ escrow' = Ended
    /\ Return(r)
    /\ UNCHANGED <<credited, closed, settled, edits, crashes>>

\* deleteBlockReasons: a funded escrow still holds its face.
Deletable == ~ bounty.deleted /\ escrow.status # "funded"

\* softDeleteBounty, with both rows locked.
Delete ==
    /\ Deletable
    /\ bounty' = [bounty EXCEPT !.deleted = TRUE,
                    !.status = IF @ = "pending_fund" THEN "cancelled" ELSE @]
    /\ escrow' = Ended
    /\ UNCHANGED <<credited, closed, settled, req, edits, crashes>>

\* The winning merge: markEligibleClaims or freezeAfterWinner inserts a row.
Merge ==
    /\ bounty.status = "funded"
    /\ ~ closed
    /\ closed' = TRUE
    /\ UNCHANGED <<bounty, escrow, credited, settled, req, edits, crashes>>

\* The process dies between two steps of a handler.
Crash(r) ==
    /\ req[r].pc # "idle"
    /\ crashes < MaxCrashes
    /\ crashes' = crashes + 1
    /\ Return(r)
    /\ UNCHANGED <<bounty, escrow, credited, closed, settled, edits>>
-----------------------------------------------------------------------------
Pay(r) ==
    \/ \E p \in Payments : PayRead(r, p)
    \/ PaySettle(r) \/ PayRefused(r)
    \/ RecordRefused(r) \/ RecordRead(r) \/ RecordWrite(r)

Lock(r) == LockRead(r) \/ LockCommit(r) \/ LockRefused(r)

TopUp(r) ==
    \/ \E p \in Payments, amount \in TopUps : TopUpRead(r, p, amount)
    \/ TopUpSettle(r) \/ TopUpApply(r) \/ TopUpRefused(r)

Void(r) == (\E to \in {"cancelled", "expired"} : VoidRead(r, to)) \/ VoidWrite(r)

Next ==
    \/ \E r \in Requests : Pay(r) \/ Lock(r) \/ TopUp(r) \/ Void(r) \/ Crash(r)
    \/ \E f \in Faces : EditAmount(f)
    \/ Delete \/ Merge

Spec == Init /\ [][Next]_vars
-----------------------------------------------------------------------------
(* Properties                                                               *)

Credited == MapThenSumSet(LAMBDA p : credited[p], Payments)

\* Nothing is credited that did not arrive in gb-escrow, so a funded bounty
\* never pays out of the money of others.
FaceArrived == \A p \in Payments : credited[p] <= settled[p]

\* The face of a funded bounty, from which fee, pool and winner are computed,
\* is the sum of its contributions, which is what a refund returns, whatever
\* top-ups race (topUpFundedBounty's row lock); and unless the poster edited the
\* draft, all of it arrived.
FaceIsFunded ==
    /\ bounty.status = "funded" => bounty.face = Credited /\ escrow.amount = Credited
    /\ edits = 0 => FaceArrived

\* From the winning merge on, the amounts hunters are promised stand, and a deleted
\* bounty is never credited again, although top-ups, payments and locks that
\* began before still arrive.
NoFundsAfterTheEnd ==
    [][closed \/ bounty.deleted => UNCHANGED <<bounty.face, credited>>]_vars
=============================================================================
