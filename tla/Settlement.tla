----------------------------- MODULE Settlement -----------------------------
(***************************************************************************)
(* The outbound half of the escrow of one funded bounty                    *)
(* (src/apps/web/src/escrow): the winner's claim, the pool members'        *)
(* claims, the poster's cancel and the expiry job, all of which are HTTP   *)
(* handlers that run concurrently and are not wrapped in a transaction,    *)
(* and the GitHub webhook that marks the claim eligible and freezes the    *)
(* pool.  Every await between two effects of a handler is a point where    *)
(* another handler may run or where the process may die.  A request reads  *)
(* the rows once and keeps acting on that copy, as the code does.          *)
(*                                                                         *)
(* Face is what the contributions add up to.  The CDP rail is external: it *)
(* moves USDC once per idempotency key it remembers.                       *)
(***************************************************************************)
EXTENDS Split, FiniteSets, FiniteSetsExt

CONSTANTS
    Requests,      \* handlers that can be in flight at the same time
    Members,       \* GitHub hunters that may end up in the frozen pool
    Contributors,  \* funders of the bounty: the poster, then the top-ups
    Contribution,  \* what each of them put in, in atomic units
    FeeBps, PoolBps, MaxPaid,
    Arrivals,      \* the operations callers ask for, see Ops
    KeysExpire,    \* whether a behaviour outlasts the rail's memory of a key
    MaxErrors,     \* bound: rail or database errors in a behaviour
    MaxCrashes,    \* bound: processes that die in the middle of a handler
    MaxSends       \* bound: transfers of one leg on the chain

WINNER == "WINNER_PAYOUT"
FEE    == "FEE_OUT"
REFUND == "REFUND_OUT"

PayoutLegs == {WINNER, FEE} \cup Members

\* contributionRefundPlan: one funder is paid back in one transfer of the
\* face, several funders each get their own contribution.
SingleRefund == Cardinality(Contributors) <= 1
RefundLegs == IF SingleRefund THEN {REFUND} ELSE Contributors
Legs == PayoutLegs \cup RefundLegs

\* SettleScope, a pool member standing for its own pool_member claim, and the
\* two reasons of refundEscrow.
SettleOps == {"winner_and_fee", "all"} \cup Members
RefundOps == {"cancel", "expiry"}
Ops == SettleOps \cup RefundOps

Total(S, amount) == MapThenSumSet(LAMBDA l : amount[l], S)
Face == Total(Contributors, Contribution)

ASSUME LegsAssumption ==
    /\ {WINNER, FEE, REFUND} \cap (Members \cup Contributors) = {}
    /\ Members \cap Contributors = {}
    /\ Members \cap {"winner_and_fee", "all", "cancel", "expiry", "WINNER_ROW"} = {}
\* The rates are percentages of the admin settings; the freeze gives at most
\* MaxPaid hunters the role "pool", Members being those.
ASSUME AmountAssumption ==
    /\ IsFiniteSet(Contributors) /\ Contribution \in [Contributors -> Nat]
    /\ FeeBps \in 0 .. BpsDenominator /\ PoolBps \in 0 .. BpsDenominator
    /\ MaxPaid \in Nat
    /\ IsFiniteSet(Members) /\ Cardinality(Members) <= MaxPaid
ASSUME BoundAssumption ==
    /\ MaxErrors \in Nat /\ MaxCrashes \in Nat /\ MaxSends \in Nat
    /\ Arrivals \subseteq Ops
    /\ KeysExpire \in BOOLEAN

VARIABLES
    bounty,      \* bounties.status
    escrow,      \* the escrows row
    claim,       \* claims.status of the merged pull request, "none" before it
    frozen,      \* pool_participants rows with frozen_at: members, winner row
    ledger,      \* allocation_ledger, one row per payout leg
    memberPaid,  \* members whose participant row has a payout_tx_hash
    returned,    \* contributions whose row has a refund_tx_hash
    keys,        \* the rail: amount remembered for a leg's key, if any
    chain,       \* the chain: transfers of a leg and what they moved
    req,         \* handlers in flight
    hook,        \* the webhook delivery being processed
    errors, crashes

vars == <<bounty, escrow, claim, frozen, ledger, memberPaid, returned, keys,
          chain, req, hook, errors, crashes>>
-----------------------------------------------------------------------------
(* Rows, statuses and the plan of a settlement *)

WinnerRow == "WINNER_ROW"

BountyStatus == {"funded", "settling", "settled", "settled_partial",
                 "refunding", "cancelled", "expired"}
EscrowStatus == {"funded", "settling", "settled", "settled_partial",
                 "refunding", "refunded"}

\* The ALLOWED table, for the statuses a funded bounty goes through.
Allowed == [s \in EscrowStatus |->
    CASE s = "funded"          -> {"settling", "refunding"}
      [] s = "settling"        -> {"settled", "settled_partial", "refunding"}
      [] s = "settled_partial" -> {"settled", "settled_partial", "settling"}
      [] s = "refunding"       -> {"refunded"}
      [] OTHER                 -> {}]

SETTLEABLE_NoRetry == {"funded", "settled_partial"}
SETTLEABLE == {"funded", "settling", "settled_partial"}
REFUNDABLE_NoRetry == {"funded"}
REFUNDABLE_Settling == {"funded", "refunding", "settling"}
REFUNDABLE == {"funded", "refunding"}

Row == [st: {"none", "pending", "submitted", "confirmed", "failed"},
        tx: BOOLEAN,     \* tx_hash is set
        amt: Nat,        \* amount_usdc when the row was inserted
        bound: BOOLEAN]  \* participant_id: the winner's row names WinnerRow
NoRow == [st |-> "none", tx |-> FALSE, amt |-> 0, bound |-> FALSE]

\* planSettleLegs over the pool a request read.
LegAmount(l, pool) ==
    LET n == Cardinality(pool)
    IN  CASE l = WINNER   -> WinnerAtomic(Face, n, FeeBps, PoolBps, MaxPaid)
          [] l = FEE      -> FeeAtomic(Face, FeeBps)
          [] l \in Members -> ShareAtomic(Face, n, FeeBps, PoolBps, MaxPaid)
          [] l = REFUND   -> Face
          [] OTHER        -> Contribution[l]

Planned(pool) ==
    {WINNER} \cup {l \in {FEE} \cup pool : LegAmount(l, pool) > 0}

\* shouldTransferLeg
InScope(l, op) ==
    \/ op = "all"
    \/ op = "winner_and_fee" /\ l \in {WINNER, FEE}
    \/ op = l

\* loadPayoutCoverage: every contribution is a verified inflow; what is paid
\* is read from the ledger and from the contributions, not from
\* escrows.refund_tx_hash.
VerifiedAtomic == Face
PaidAtomic ==
    Total({l \in PayoutLegs : ledger[l].st = "confirmed" \/ ledger[l].tx},
          [l \in PayoutLegs |-> ledger[l].amt])
      + Total(returned, Contribution)

\* findLedgerRow: the winner's row is looked up by the winner's participant
\* id, null when the request saw no freeze.
RowFound(rows, q, l) ==
    /\ rows[l].st # "none"
    /\ l = WINNER => rows[l].bound = q.winnerRow
-----------------------------------------------------------------------------
(* The copy of the rows a request works from *)

PCs == {"idle", "settle.read", "settle.entered", "settle.legs", "settle.next",
        "settle.send", "settle.confirm", "settle.record", "settle.finish",
        "refund.read", "refund.entered", "refund.next", "refund.send",
        "refund.mark"}

Request ==
    [pc: PCs,
     op: Ops,
     escrow: EscrowStatus,   \* escrow.status as read
     payout: BOOLEAN,        \* payoutTxHash: as read, then as sent
     fee: BOOLEAN,           \* feeTxHash
     refund: BOOLEAN,        \* refund_tx_hash as read, then as sent
     pool: SUBSET Members,   \* freeze.poolMembers as read
     winnerRow: BOOLEAN,     \* freeze.winner as read
     todo: SUBSET Legs,      \* legs this call still has to transfer
     leg: Legs,              \* the one it is transferring
     fail: BOOLEAN,          \* fail_code as read
     lastFail: BOOLEAN,      \* a fee or pool leg failed in this call
     term: {"settled", "settled_partial"}]

Idle == [pc |-> "idle", op |-> "cancel", escrow |-> "funded", payout |-> FALSE,
         fee |-> FALSE, refund |-> FALSE, pool |-> {}, winnerRow |-> FALSE,
         todo |-> {}, leg |-> WINNER, fail |-> FALSE, lastFail |-> FALSE,
         term |-> "settled_partial"]

Goto(r, pc) == req' = [req EXCEPT ![r].pc = pc]
Return(r)   == req' = [req EXCEPT ![r] = Idle]

InFlight == {r \in Requests : req[r].pc # "idle"}

TypeOK ==
    /\ bounty \in BountyStatus
    /\ escrow \in [status: EscrowStatus, payoutTx: BOOLEAN, feeTx: BOOLEAN,
                   refundTx: BOOLEAN, fail: BOOLEAN]
    /\ claim \in {"none", "eligible", "paid"}
    /\ frozen \subseteq Members \cup {WinnerRow}
    /\ ledger \in [PayoutLegs -> Row]
    /\ memberPaid \subseteq Members
    /\ returned \subseteq Contributors
    /\ keys \in [Legs -> SUBSET Nat]
    /\ chain \in [Legs -> [n: Nat, amt: Nat]]
    /\ req \in [Requests -> Request]
    /\ hook \in [pc: {"idle", "marking", "marked", "freezing"},
                 left: SUBSET (Members \cup {WinnerRow})]
    /\ errors \in Nat /\ crashes \in Nat

Start(claimed, freeze) ==
    /\ bounty = "funded"
    /\ escrow = [status |-> "funded", payoutTx |-> FALSE, feeTx |-> FALSE,
                 refundTx |-> FALSE, fail |-> FALSE]
    /\ claim = claimed
    /\ frozen = freeze
    /\ ledger = [l \in PayoutLegs |-> NoRow]
    /\ memberPaid = {}
    /\ returned = {}
    /\ keys = [l \in Legs |-> {}]
    /\ chain = [l \in Legs |-> [n |-> 0, amt |-> 0]]
    /\ req = [r \in Requests |-> Idle]
    /\ hook = [pc |-> "idle", left |-> {}]
    /\ errors = 0 /\ crashes = 0

\* The lock of the bounty has committed.  Either its issue is still open, or a
\* pull request was merged and its delivery processed to the end: the claim
\* is eligible and the pool, empty or not, is frozen.
InitOpen == Start("none", {})
InitMerged ==
    \E eligible \in SUBSET Members : Start("eligible", {WinnerRow} \cup eligible)
Init == InitOpen \/ InitMerged
-----------------------------------------------------------------------------
(* The rail                                                                 *)

\* transferUsdcFromAccount: one transfer per idempotency key the rail still
\* remembers, and the hash of that transfer to whoever repeats the call.
Transfer_KeyPerAttempt(l, amount) ==
    /\ chain[l].n < MaxSends
    /\ chain' = [chain EXCEPT ![l] = [n |-> @.n + 1, amt |-> @.amt + amount]]
    /\ UNCHANGED keys

Transfer(l, amount) ==
    /\ keys[l] \subseteq {amount}
    /\ IF keys[l] = {}
       THEN /\ chain[l].n < MaxSends
            /\ chain' = [chain EXCEPT ![l] = [n |-> @.n + 1, amt |-> @.amt + amount]]
            /\ keys' = [keys EXCEPT ![l] = {amount}]
       ELSE UNCHANGED <<chain, keys>>
-----------------------------------------------------------------------------
(* settleEscrow: the winner's claim and the pool members' claims            *)

\* claimPayout and claimPoolPayout write the payout address of the claimer,
\* then settleEscrow reads the bounty, the escrow, the frozen pool and the
\* claim.  Under the scope "all", "reachable" are the members with a wallet.
SettleRead(r, op, reachable) ==
    LET pool   == frozen \cap Members
        unpaid == pool \ memberPaid
        recorded == {l \in PayoutLegs : \/ l = WINNER /\ escrow.payoutTx
                                        \/ l = FEE /\ escrow.feeTx
                                        \/ l \in memberPaid}
    IN  /\ req[r].pc = "idle"
        /\ op \in Arrivals \cap SettleOps
        /\ claim \in {"eligible", "paid"}
        /\ op \in Members => op \in pool /\ escrow.payoutTx
        /\ ~ /\ "settled" \in {bounty, escrow.status}
             /\ escrow.payoutTx
             /\ escrow.feeTx \/ FeeAtomic(Face, FeeBps) = 0
             /\ unpaid = {}
        /\ \/ bounty \in SETTLEABLE
           \/ bounty = "settled" /\ unpaid # {}
        /\ escrow.status \in {"funded", "settling", "settled_partial", "settled"}
        /\ reachable \subseteq (IF op = "all" THEN pool ELSE {})
        /\ req' = [req EXCEPT ![r] =
             [Idle EXCEPT !.pc = "settle.read", !.op = op,
                !.escrow = escrow.status, !.payout = escrow.payoutTx,
                !.fee = escrow.feeTx, !.fail = escrow.fail, !.pool = pool,
                !.winnerRow = WinnerRow \in frozen,
                !.todo = {l \in Planned(pool) \ recorded :
                            /\ InScope(l, op)
                            /\ op = "all" => l \in {WINNER, FEE} \cup reachable}]]
        /\ UNCHANGED <<bounty, escrow, claim, frozen, ledger, memberPaid, returned,
                       keys, chain, hook, errors, crashes>>

PersistEscrowFail == escrow' = [escrow EXCEPT !.fail = TRUE]

\* ensureWallets throws: persistSettleRailFail, nothing has moved.
SettleRailDown(r) ==
    /\ req[r].pc = "settle.read"
    /\ errors < MaxErrors
    /\ errors' = errors + 1
    /\ PersistEscrowFail
    /\ Return(r)
    /\ UNCHANGED <<bounty, claim, frozen, ledger, memberPaid, returned, keys,
                   chain, hook, crashes>>

\* coverageDecision over what this call has to transfer.
Covered_Unchecked(q, legs) == TRUE
Covered(q, legs) ==
    Total(legs, [l \in legs |-> LegAmount(l, q.pool)]) <= VerifiedAtomic - PaidAtomic

\* coverageDecision refuses: the call ends and changes nothing.
SettleNotCovered(r) ==
    /\ req[r].pc = "settle.read"
    /\ req[r].todo # {} /\ ~ Covered(req[r], req[r].todo)
    /\ Return(r)
    /\ UNCHANGED <<bounty, escrow, claim, frozen, ledger, memberPaid, returned,
                   keys, chain, hook, errors, crashes>>

\* The first settle moves the bounty, if it is still funded, to "settling".
SettleEnter(r) ==
    /\ req[r].pc = "settle.read"
    /\ req[r].todo = {} \/ Covered(req[r], req[r].todo)
    /\ IF req[r].escrow = "funded"
       THEN /\ bounty' = IF bounty = "funded" THEN "settling" ELSE bounty
            /\ Goto(r, "settle.entered")
       ELSE /\ bounty' = bounty
            /\ Goto(r, "settle.legs")
    /\ UNCHANGED <<escrow, claim, frozen, ledger, memberPaid, returned, keys,
                   chain, hook, errors, crashes>>

\* Then the escrow row, whatever its status is by now.
SettleEnterEscrow(r) ==
    /\ req[r].pc = "settle.entered"
    /\ escrow' = [escrow EXCEPT !.status = "settling"]
    /\ Goto(r, "settle.legs")
    /\ UNCHANGED <<bounty, claim, frozen, ledger, memberPaid, returned, keys,
                   chain, hook, errors, crashes>>

\* ensurePendingLegs inserts the rows of the plan that are not there yet, a
\* unique violation being ignored; syncEscrowHashesOntoLedger confirms those
\* whose hash the escrow row already had when it was read; the loop skips the
\* legs that have a hash or whose row the request cannot find.
Inserted(q) ==
    [l \in PayoutLegs |->
        IF l \in Planned(q.pool) /\ ledger[l].st = "none"
        THEN [st |-> "pending", tx |-> FALSE, amt |-> LegAmount(l, q.pool),
              bound |-> l = WINNER /\ q.winnerRow]
        ELSE ledger[l]]

Synced_Unconditionally(q) ==
    [l \in PayoutLegs |->
       IF l \in {WINNER, FEE} \cap Planned(q.pool)
       THEN [Inserted(q)[l] EXCEPT !.st = "confirmed", !.tx = TRUE]
       ELSE Inserted(q)[l]]

Synced(q) ==
    LET rows == Inserted(q)
    IN  [l \in PayoutLegs |->
           IF /\ (l = WINNER /\ q.payout) \/ (l = FEE /\ q.fee)
              /\ l \in Planned(q.pool) /\ RowFound(rows, q, l) /\ ~ rows[l].tx
           THEN [rows[l] EXCEPT !.st = "confirmed", !.tx = TRUE]
           ELSE rows[l]]

PrepareLegs(r) ==
    LET q    == req[r]
        rows == Synced(q)
        hasHash(l) == l \in Planned(q.pool) /\ RowFound(rows, q, l) /\ rows[l].tx
        payout == q.payout \/ hasHash(WINNER)
        fee    == q.fee \/ hasHash(FEE)
    IN  /\ q.pc = "settle.legs"
        /\ ledger' = rows
        /\ req' = [req EXCEPT ![r] =
             [q EXCEPT !.pc = "settle.next", !.payout = payout, !.fee = fee,
                !.todo = {l \in q.todo : /\ RowFound(rows, q, l)
                                         /\ ~ hasHash(l)
                                         /\ l = WINNER => ~ payout
                                         /\ l = FEE => ~ fee}]]
        /\ UNCHANGED <<bounty, escrow, claim, frozen, memberPaid, returned, keys,
                       chain, hook, errors, crashes>>

\* The winner's leg, then the fee, then the members.
IsNext_AnyOrder(l, todo) == l \in todo
IsNext(l, todo) ==
    /\ l \in todo
    /\ l # WINNER => WINNER \notin todo
    /\ l \in Members => FEE \notin todo

\* assertPayoutCovered reads the database again; markLegSubmitted.
SubmitLeg(r, l) ==
    /\ req[r].pc = "settle.next"
    /\ IsNext(l, req[r].todo)
    /\ Covered(req[r], {l})
    /\ ledger' = [ledger EXCEPT ![l].st = "submitted"]
    /\ req' = [req EXCEPT ![r] = [req[r] EXCEPT !.pc = "settle.send", !.leg = l]]
    /\ UNCHANGED <<bounty, escrow, claim, frozen, memberPaid, returned, keys,
                   chain, hook, errors, crashes>>

\* assertPayoutCovered throws, outside the try: the call ends in "settling".
LegNotCovered(r, l) ==
    /\ req[r].pc = "settle.next"
    /\ IsNext(l, req[r].todo)
    /\ ~ Covered(req[r], {l})
    /\ Return(r)
    /\ UNCHANGED <<bounty, escrow, claim, frozen, ledger, memberPaid, returned,
                   keys, chain, hook, errors, crashes>>

\* The rail moves the money unless it remembers the key of the leg, in which
\* case it answers with the first transfer.
SendLeg(r) ==
    LET l == req[r].leg
        a == LegAmount(l, req[r].pool)
    IN  /\ req[r].pc = "settle.send"
        /\ Transfer(l, a)
        /\ Goto(r, "settle.confirm")
        /\ UNCHANGED <<bounty, escrow, claim, frozen, ledger, memberPaid,
                       returned, hook, errors, crashes>>

\* markLegConfirmed, then the request's own copy of the hash.
ConfirmLeg(r) ==
    LET l == req[r].leg
    IN  /\ req[r].pc = "settle.confirm"
        /\ ledger' = [ledger EXCEPT ![l] =
             [ledger[l] EXCEPT !.st = "confirmed", !.tx = TRUE]]
        /\ req' = [req EXCEPT ![r] = [req[r] EXCEPT !.pc = "settle.record",
                                               !.payout = @ \/ l = WINNER,
                                               !.fee = @ \/ l = FEE]]
        /\ UNCHANGED <<bounty, escrow, claim, frozen, memberPaid, returned, keys,
                       chain, hook, errors, crashes>>

\* escrows.payout_tx_hash, escrows.fee_tx_hash or markPoolParticipantPaid.
RecordLeg(r) ==
    LET l == req[r].leg
    IN  /\ req[r].pc = "settle.record"
        /\ escrow' = [escrow EXCEPT !.payoutTx = @ \/ l = WINNER,
                                    !.feeTx = @ \/ l = FEE]
        /\ memberPaid' = memberPaid \cup ({l} \cap Members)
        /\ req' = [req EXCEPT ![r] = [req[r] EXCEPT !.pc = "settle.next",
                                               !.todo = @ \ {l}, !.leg = WINNER]]
        /\ UNCHANGED <<bounty, claim, frozen, ledger, returned, keys, chain, hook,
                       errors, crashes>>

\* The catch of the loop.  The rail refuses a key it knows with another
\* amount; any other failure, a lost answer included, counts as an error.  A
\* failed winner's leg ends the call, any other is noted and the loop goes on.
LegError(r) ==
    LET l == req[r].leg
        refused == ~ (keys[l] \subseteq {LegAmount(l, req[r].pool)})
    IN  /\ \/ /\ req[r].pc = "settle.send" /\ refused
              /\ errors' = errors
           \/ /\ req[r].pc \in {"settle.send", "settle.confirm", "settle.record"}
              /\ errors < MaxErrors
              /\ errors' = errors + 1
        /\ ledger' = [ledger EXCEPT ![l].st = "failed"]
        /\ PersistEscrowFail
        /\ req' = [req EXCEPT ![r] =
             IF l = WINNER THEN Idle
             ELSE [req[r] EXCEPT !.pc = "settle.next", !.todo = @ \ {l}, !.leg = WINNER,
                            !.lastFail = TRUE]]
        /\ UNCHANGED <<bounty, claim, frozen, memberPaid, returned, keys, chain,
                       hook, crashes>>

\* loadAllocationLegs: "settled" only if every planned leg has a hash.
IntendedConfirmed_OwnScope(q) ==
    \A l \in Planned(q.pool) :
        InScope(l, q.op) => (RowFound(ledger, q, l) /\ ledger[l].tx)

IntendedConfirmed(q) ==
    \A l \in Planned(q.pool) :
        \/ RowFound(ledger, q, l) /\ ledger[l].tx
        \/ l = WINNER /\ q.payout
        \/ l = FEE /\ q.fee

SettleTally(r) ==
    /\ req[r].pc = "settle.next" /\ req[r].todo = {}
    /\ req' = [req EXCEPT ![r] = [req[r] EXCEPT !.pc = "settle.finish",
                 !.term = IF IntendedConfirmed(req[r]) THEN "settled"
                          ELSE "settled_partial"]]
    /\ UNCHANGED <<bounty, escrow, claim, frozen, ledger, memberPaid, returned,
                   keys, chain, hook, errors, crashes>>

\* The last transaction of settleEscrow: it writes what the request knows over
\* whatever the rows hold.
SettleFinish(r) ==
    LET q == req[r]
        winnerAndFee == q.payout /\ (q.fee \/ FeeAtomic(Face, FeeBps) = 0)
    IN  /\ q.pc = "settle.finish"
        /\ escrow' = [escrow EXCEPT
             !.status = q.term, !.payoutTx = q.payout, !.feeTx = q.fee,
             !.fail = /\ q.term # "settled"
                      /\ winnerAndFee => q.lastFail
                      /\ q.lastFail \/ q.fail]
        /\ bounty' = q.term
        /\ claim' = IF winnerAndFee THEN "paid" ELSE claim
        /\ Return(r)
        /\ UNCHANGED <<frozen, ledger, memberPaid, returned, keys, chain, hook,
                       errors, crashes>>
-----------------------------------------------------------------------------
(* refundEscrow: the poster's cancel and the expiry job                     *)

RefundRead(r, op) ==
    /\ req[r].pc = "idle"
    /\ op \in Arrivals \cap RefundOps
    /\ bounty \in REFUNDABLE
    /\ ~ (escrow.refundTx /\ escrow.status = "refunded")
    /\ req' = [req EXCEPT ![r] =
         [Idle EXCEPT !.pc = "refund.read", !.op = op, !.refund = escrow.refundTx,
            !.todo = IF SingleRefund
                     THEN {l \in RefundLegs : ~ escrow.refundTx}
                     ELSE Contributors \ returned]]
    /\ UNCHANGED <<bounty, escrow, claim, frozen, ledger, memberPaid, returned,
                   keys, chain, hook, errors, crashes>>

RefundNotCovered(r) ==
    /\ req[r].pc = "refund.read"
    /\ req[r].todo # {} /\ ~ Covered(req[r], req[r].todo)
    /\ Return(r)
    /\ UNCHANGED <<bounty, escrow, claim, frozen, ledger, memberPaid, returned,
                   keys, chain, hook, errors, crashes>>

\* The two updates name the row only by its id: they move a bounty and an
\* escrow that another request has taken elsewhere since the read.
RefundEnter(r) ==
    /\ req[r].pc = "refund.read"
    /\ req[r].todo = {} \/ Covered(req[r], req[r].todo)
    /\ bounty' = "refunding"
    /\ Goto(r, "refund.entered")
    /\ UNCHANGED <<escrow, claim, frozen, ledger, memberPaid, returned, keys,
                   chain, hook, errors, crashes>>

RefundEnterEscrow(r) ==
    /\ req[r].pc = "refund.entered"
    /\ escrow' = [escrow EXCEPT !.status = "refunding"]
    /\ Goto(r, "refund.next")
    /\ UNCHANGED <<bounty, claim, frozen, ledger, memberPaid, returned, keys,
                   chain, hook, errors, crashes>>

\* executeCoveredLegs, one leg at a time: assertPayoutCovered, transfer, and
\* in a split refund markContributionRefunded.
RefundCheck(r, l) ==
    /\ req[r].pc = "refund.next"
    /\ l \in req[r].todo
    /\ Covered(req[r], {l})
    /\ req' = [req EXCEPT ![r] = [req[r] EXCEPT !.pc = "refund.send", !.leg = l]]
    /\ UNCHANGED <<bounty, escrow, claim, frozen, ledger, memberPaid, returned,
                   keys, chain, hook, errors, crashes>>

RefundLegNotCovered(r, l) ==
    /\ req[r].pc = "refund.next"
    /\ l \in req[r].todo
    /\ ~ Covered(req[r], {l})
    /\ Return(r)
    /\ UNCHANGED <<bounty, escrow, claim, frozen, ledger, memberPaid, returned,
                   keys, chain, hook, errors, crashes>>

RefundSend(r) ==
    LET l == req[r].leg
    IN  /\ req[r].pc = "refund.send"
        /\ Transfer(l, LegAmount(l, {}))
        /\ req' = [req EXCEPT ![r] = [req[r] EXCEPT !.refund = TRUE,
                     !.pc = IF SingleRefund THEN "refund.next" ELSE "refund.mark",
                     !.todo = IF SingleRefund THEN {} ELSE @,
                     !.leg = IF SingleRefund THEN WINNER ELSE @]]
        /\ UNCHANGED <<bounty, escrow, claim, frozen, ledger, memberPaid,
                       returned, hook, errors, crashes>>

RefundMark_NotStored(r) ==
    /\ req[r].pc = "refund.mark"
    /\ req' = [req EXCEPT ![r] = [req[r] EXCEPT !.pc = "refund.next", !.leg = WINNER,
                                           !.todo = @ \ {req[r].leg}]]
    /\ UNCHANGED <<bounty, escrow, claim, frozen, ledger, memberPaid, returned,
                   keys, chain, hook, errors, crashes>>

RefundMark(r) ==
    /\ req[r].pc = "refund.mark"
    /\ returned' = returned \cup {req[r].leg}
    /\ req' = [req EXCEPT ![r] = [req[r] EXCEPT !.pc = "refund.next", !.leg = WINNER,
                                           !.todo = @ \ {req[r].leg}]]
    /\ UNCHANGED <<bounty, escrow, claim, frozen, ledger, memberPaid, keys, chain,
                   hook, errors, crashes>>

\* The rail or the database fails: the call ends, the bounty stays "refunding".
RefundError(r) ==
    /\ req[r].pc \in {"refund.send", "refund.mark"}
    /\ errors < MaxErrors
    /\ errors' = errors + 1
    /\ Return(r)
    /\ UNCHANGED <<bounty, escrow, claim, frozen, ledger, memberPaid, returned,
                   keys, chain, hook, crashes>>

\* The last transaction, voidPendingAllocationLegs included.
RefundFinish(r) ==
    /\ req[r].pc = "refund.next" /\ req[r].todo = {}
    /\ escrow' = [escrow EXCEPT !.status = "refunded", !.refundTx = TRUE]
    /\ bounty' = IF req[r].op = "expiry" THEN "expired" ELSE "cancelled"
    /\ ledger' = [l \in PayoutLegs |->
         IF ledger[l].st \in {"pending", "submitted", "failed"} /\ ~ ledger[l].tx
         THEN [ledger[l] EXCEPT !.st = "failed"]
         ELSE ledger[l]]
    /\ Return(r)
    /\ UNCHANGED <<claim, frozen, memberPaid, returned, keys, chain, hook, errors,
                   crashes>>
-----------------------------------------------------------------------------
(* The merge webhook: markEligible, then freezeAfterWinner                  *)

\* Deliveries and redeliveries, the public poller and the backfill after a
\* hunter links GitHub all come through here, one at a time.
MarkRead ==
    /\ hook.pc = "idle"
    /\ bounty = "funded"
    /\ claim # "paid"
    /\ hook' = [hook EXCEPT !.pc = "marking"]
    /\ UNCHANGED <<bounty, escrow, claim, frozen, ledger, memberPaid, returned,
                   keys, chain, req, errors, crashes>>

\* The write does not look at the status again.
MarkEligible ==
    /\ hook.pc = "marking"
    /\ claim' = "eligible"
    /\ hook' = [hook EXCEPT !.pc = "marked"]
    /\ UNCHANGED <<bounty, escrow, frozen, ledger, memberPaid, returned, keys,
                   chain, req, errors, crashes>>

\* The winner has not linked GitHub yet: no claim, the pool freezes anyway.
MarkSkipped ==
    /\ hook.pc = "marking"
    /\ hook' = [hook EXCEPT !.pc = "marked"]
    /\ UNCHANGED <<bounty, escrow, claim, frozen, ledger, memberPaid, returned,
                   keys, chain, req, errors, crashes>>

\* The bounty is read again, and any frozen row means the pool is frozen.
FreezeRead(eligible) ==
    /\ hook.pc = "marked"
    /\ bounty = "funded"
    /\ frozen = {}
    /\ eligible \subseteq Members
    /\ hook' = [pc |-> "freezing", left |-> {WinnerRow} \cup eligible]
    /\ UNCHANGED <<bounty, escrow, claim, frozen, ledger, memberPaid, returned,
                   keys, chain, req, errors, crashes>>

\* upsertFrozenParticipant, the winner's row first.
FreezeRow(p) ==
    /\ hook.pc = "freezing"
    /\ p \in hook.left
    /\ p # WinnerRow => WinnerRow \notin hook.left
    /\ frozen' = frozen \cup {p}
    /\ hook' = IF hook.left = {p} THEN [pc |-> "idle", left |-> {}]
               ELSE [hook EXCEPT !.left = @ \ {p}]
    /\ UNCHANGED <<bounty, escrow, claim, ledger, memberPaid, returned, keys,
                   chain, req, errors, crashes>>

\* The delivery ends: nothing to freeze, no snapshot from GitHub, or only the
\* claim was asked for.
HookStop ==
    /\ hook.pc = "marked"
    /\ hook' = [pc |-> "idle", left |-> {}]
    /\ UNCHANGED <<bounty, escrow, claim, frozen, ledger, memberPaid, returned,
                   keys, chain, req, errors, crashes>>
-----------------------------------------------------------------------------
(* What the environment does                                                *)

\* The process dies, or the database throws, between two steps of a handler.
Crash(r) ==
    /\ req[r].pc # "idle"
    /\ crashes < MaxCrashes
    /\ crashes' = crashes + 1
    /\ Return(r)
    /\ UNCHANGED <<bounty, escrow, claim, frozen, ledger, memberPaid, returned,
                   keys, chain, hook, errors>>

HookCrash ==
    /\ hook.pc # "idle"
    /\ crashes < MaxCrashes
    /\ crashes' = crashes + 1
    /\ hook' = [pc |-> "idle", left |-> {}]
    /\ UNCHANGED <<bounty, escrow, claim, frozen, ledger, memberPaid, returned,
                   keys, chain, req, errors>>

\* The rail forgets a key after about 24 hours; no handler lives that long.
ExpireKey(l) ==
    /\ KeysExpire
    /\ InFlight = {}
    /\ keys[l] # {}
    /\ keys' = [keys EXCEPT ![l] = {}]
    /\ UNCHANGED <<bounty, escrow, claim, frozen, ledger, memberPaid, returned,
                   chain, req, hook, errors, crashes>>
-----------------------------------------------------------------------------
Arrive(r) ==
    \/ \E op \in SettleOps, reachable \in SUBSET Members : SettleRead(r, op, reachable)
    \/ \E op \in RefundOps : RefundRead(r, op)

SettleStep(r) ==
    \/ SettleRailDown(r) \/ SettleNotCovered(r) \/ SettleEnter(r)
    \/ SettleEnterEscrow(r) \/ PrepareLegs(r)
    \/ \E l \in PayoutLegs : SubmitLeg(r, l) \/ LegNotCovered(r, l)
    \/ SendLeg(r) \/ ConfirmLeg(r) \/ RecordLeg(r) \/ LegError(r)
    \/ SettleTally(r) \/ SettleFinish(r)

RefundStep(r) ==
    \/ RefundNotCovered(r) \/ RefundEnter(r) \/ RefundEnterEscrow(r)
    \/ \E l \in RefundLegs : RefundCheck(r, l) \/ RefundLegNotCovered(r, l)
    \/ RefundSend(r) \/ RefundMark(r) \/ RefundError(r) \/ RefundFinish(r)

HookStep ==
    \/ MarkRead \/ MarkEligible \/ MarkSkipped
    \/ \E eligible \in SUBSET Members : FreezeRead(eligible)
    \/ \E p \in Members \cup {WinnerRow} : FreezeRow(p)
    \/ HookStop \/ HookCrash

\* A request moves, or its process dies.
Handler(r) == Arrive(r) \/ SettleStep(r) \/ RefundStep(r) \/ Crash(r)

Next ==
    \/ \E r \in Requests : Handler(r)
    \/ HookStep
    \/ \E l \in Legs : ExpireKey(l)

Spec == Init /\ [][Next]_vars

\* Settlement after the webhook has done its part.
NextMerged ==
    \/ \E r \in Requests : Handler(r)
    \/ \E l \in Legs : ExpireKey(l)

SpecMerged == InitMerged /\ [][NextMerged]_vars

\* A handler that was started runs to its end unless it dies.  No job of the
\* code tries a claim or a cancel again (expireUnmergedBounties looks at bounties
\* with an expires_at, and nothing sets one): the two liveness properties are
\* about a winner who keeps claiming and a poster who keeps asking for the
\* refund, which resumes (mcp-tools.ts:391).
FairSpecMerged ==
    /\ SpecMerged
    /\ \A r \in Requests : WF_vars(SettleStep(r) \/ RefundStep(r))
    /\ WF_vars(\E r \in Requests : RefundRead(r, "cancel"))
    /\ WF_vars(\E r \in Requests : SettleRead(r, "winner_and_fee", {}))
-----------------------------------------------------------------------------
(* Properties                                                               *)

Moved(l) == chain[l].n > 0

\* The records never claim money that has not moved, whatever handlers race,
\* die, retry with a forgotten key or overwrite each other's rows: a hash in
\* the ledger, on the escrow, on a participant or on a contribution, a claim
\* marked paid (settleEscrow) and a bounty marked refunded (refundEscrow)
\* stand for transfers on the chain, and a refund for the return of every
\* contribution.
HashBackedByChain ==
    /\ \A l \in PayoutLegs : ledger[l].tx => Moved(l)
    /\ escrow.payoutTx => Moved(WINNER)
    /\ escrow.feeTx => Moved(FEE)
    /\ \A l \in memberPaid \cup returned : Moved(l)
    /\ escrow.refundTx => \A l \in RefundLegs : Moved(l)
    /\ claim = "paid" => Moved(WINNER)

\* A leg is transferred again only after an answer was lost: once a key has
\* expired, each repeated transfer is owed to a different error or crash, so
\* the rows (ledger, escrow, contributions) keep a retry that follows a
\* recorded transfer from paying again.
Resent(l) == IF chain[l].n > 1 THEN chain[l].n - 1 ELSE 0
ResendNeedsLoss == Total(Legs, [l \in Legs |-> Resent(l)]) <= errors + crashes

\* The bounty never pays out of other bounties' money in gb-escrow, although
\* concurrent claims check the coverage before either of them has paid.
OutflowWithinInflow == Total(Legs, [l \in Legs |-> chain[l].amt]) <= Face

\* The same while the pool freezes under the claims' feet, as long as nothing
\* fails: assertPayoutCovered then makes up for legs planned with different
\* numbers of members.
OutflowWithinInflowUnfailing == errors + crashes = 0 => OutflowWithinInflow

\* One bounty either pays hunters or returns its face, never some of each.
PayoutXorRefund == ~ \E l \in PayoutLegs, m \in RefundLegs : Moved(l) /\ Moved(m)

\* When a claim and a cancel do race, neither side pays more than the face,
\* whichever of them fails and is retried: the loss is one face at most.
EachSideWithinFace ==
    /\ Total(PayoutLegs, [l \in PayoutLegs |-> chain[l].amt]) <= Face
    /\ Total(RefundLegs, [l \in RefundLegs |-> chain[l].amt]) <= Face

\* "settled" means the winner, the fee and every frozen member were paid, and
\* that what they got is the face, dust included: nothing stays attributed.
PerTransfer(l) == IF Moved(l) THEN chain[l].amt \div chain[l].n ELSE 0
SettledMeansPaid ==
    bounty = "settled" => Total(PayoutLegs, [l \in PayoutLegs |-> PerTransfer(l)]) = Face

\* Neither the fee nor a member is paid before the winner (docs/escrow.md:160).
WinnerFirst == \A l \in PayoutLegs : Moved(l) => Moved(WINNER)

\* A bounty is never left in "settling" with no handler at work, no crash and
\* no fail code that says why (persistSettleRailFail).
SettlingExplained ==
    bounty = "settling" /\ InFlight = {} /\ crashes = 0 => escrow.fail

\* escrows.status moves along the ALLOWED table of state.ts, although the
\* writes of settleEscrow and refundEscrow do not look at the status.
EscrowTransitions ==
    [][escrow'.status # escrow.status => escrow'.status \in Allowed[escrow.status]]_vars

\* Both: the statuses of bounty and escrow have a reason and a way.
StatusAccounted ==
    /\ []SettlingExplained
    /\ EscrowTransitions

\* A refund that was begun and failed half way, died or lost an answer never
\* gets stuck: a poster who keeps asking gets every contributor's money back.
RefundCompletes == bounty = "refunding" ~> bounty \in {"cancelled", "expired"}

\* A winner who keeps claiming is paid, and the ledger says so.
WinnerIsPaid == bounty = "settling" ~> ledger[WINNER].tx

\* "Claim / settle remain retryable" (service.ts, persistSettleRailFail): the
\* winner's retries get the bounty out of "settling".
SettlingResolves == bounty = "settling" ~> bounty \in {"settled", "settled_partial"}
-----------------------------------------------------------------------------
(* What all of this amounts to                                              *)

\* A row of the ledger, of a participant or of a contribution has a hash.
OnRecord == {l \in PayoutLegs : ledger[l].tx} \cup memberPaid \cup returned

Money == INSTANCE BountyMoney WITH
    Winner <- WINNER, Others <- {FEE} \cup Members, Returns <- RefundLegs,
    moved <- {l \in Legs : Moved(l)}, recorded <- OnRecord,
    won <- claim = "paid", refunded <- escrow.refundTx

\* After the merge the handlers implement BountyMoney: whatever races, dies,
\* fails and is tried again, the fee and the shares wait for the winner,
\* nothing is recorded or closed that has not moved, and no stale write takes
\* a hash, a paid claim or a refund back.
RefinesBountyMoney == Money!MoneySpec
-----------------------------------------------------------------------------
(* The inductive invariants behind HashBackedByChain and WinnerFirst; their   *)
(* proofs are in SettlementProofs.                                          *)

SettlePCs == {"settle.read", "settle.entered", "settle.legs", "settle.next",
              "settle.send", "settle.confirm", "settle.record", "settle.finish"}
RefundPCs == {"refund.read", "refund.entered", "refund.next", "refund.send",
              "refund.mark"}

\* HashBackedByChain holds of the rows because it also holds of the copies the
\* handlers carry: a hash in a request stands for a transfer, a request past
\* the rail call has moved its leg, and a refund owes every leg it no longer
\* has to send.
RequestHashes(q) ==
    /\ q.payout => Moved(WINNER)
    /\ q.fee => Moved(FEE)
    /\ q.pc \in {"settle.send", "settle.confirm", "settle.record"} =>
          q.leg \in PayoutLegs
    /\ q.pc \in {"refund.send", "refund.mark"} => q.leg \in RefundLegs
    /\ q.pc = "refund.mark" => ~ SingleRefund
    /\ q.pc \in {"settle.confirm", "settle.record", "refund.mark"} => Moved(q.leg)
    /\ q.pc \in RefundPCs => \A l \in RefundLegs \ q.todo : Moved(l)

HashInv ==
    /\ HashBackedByChain
    /\ returned \subseteq RefundLegs
    /\ \A l \in Legs : keys[l] # {} => Moved(l)
    /\ \A r \in Requests : RequestHashes(req[r])

\* WinnerFirst holds once the pool is frozen because every row of the winner
\* is bound to the winner's participant, so that a request that no longer has
\* the winner to pay is one whose winner was paid.
WinnerKept(q) ==
    q.pc \in SettlePCs =>
        /\ q.winnerRow
        /\ WINNER \notin q.todo => Moved(WINNER)
        /\ q.pc = "settle.send" /\ q.leg # WINNER => Moved(WINNER)
        /\ q.pc \notin {"settle.read", "settle.entered", "settle.legs"} =>
              ledger[WINNER].bound

WinnerFirstInv ==
    /\ WinnerFirst
    /\ WinnerRow \in frozen
    /\ ledger[WINNER].st # "none" => ledger[WINNER].bound
    /\ \A r \in Requests : WinnerKept(req[r])
=============================================================================
