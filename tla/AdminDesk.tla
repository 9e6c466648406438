------------------------------ MODULE AdminDesk ------------------------------
(***************************************************************************)
(* The administrator's desk (src/apps/web/src/admin): the refund and the     *)
(* deletion of a bounty, each with its row in admin_audit_log, and the two    *)
(* reports that tell how much of gb-escrow is owed, the balance tiles         *)
(* (balances.ts) and the reconciliation (escrow/reconcile.ts).  An            *)
(* administrator, the poster, the payer and the hunters work on one bounty    *)
(* at the same time, and nothing but the deletion locks its rows.            *)
(*                                                                         *)
(* Every contribution and every leg of the settlement is one unit.  A settle  *)
(* that crosses a refund is in Settlement; here neither begins while the     *)
(* other is under way.                                                     *)
(***************************************************************************)
EXTENDS Integers, FiniteSets

CONSTANTS
    AdCalls,      \* requests that can run at the same time
    AdFunders,    \* bounty_contributions, of one unit each
    AdLegs        \* legs of the settlement, of one unit each

ASSUME DeskAssumption ==
    /\ IsFiniteSet(AdFunders) /\ IsFiniteSet(AdLegs)
    /\ Cardinality(AdFunders) = Cardinality(AdLegs)

VARIABLES
    adBounty,     \* the bounties row: status, deleted_at
    adEscrow,     \* the escrows row: status, a recorded payment, refund_tx_hash
    adLeg,        \* allocation_ledger: a leg's status
    adOut,        \* the chain: contributions that were sent back
    adBack,       \* bounty_contributions with their refund_tx_hash
    adAudit,      \* admin_audit_log: action and result
    adCall,       \* requests in flight
    adReport,     \* the balance tiles being read
    adCrossed,    \* history: a draft was voided after its lock
    adLogged,     \* history: what was sent back by the calls that left a row
    adUntold      \* history: what was sent back by the poster, or by a call that died

adVars == <<adBounty, adEscrow, adLeg, adOut, adBack, adAudit, adCall, adReport,
            adCrossed, adLogged, adUntold>>
adMoney == <<adBounty, adEscrow, adLeg, adOut, adBack>>
-----------------------------------------------------------------------------
\* "cancelled" is expired too, and "settling" of the escrow settled_partial too.
DeskBounty == {"pending_fund", "funded", "settling", "settled", "refunding", "cancelled"}
DeskEscrow == {"pending", "failed", "funded", "settling", "settled", "refunding", "refunded"}
DeskLeg == {"none", "pending", "sent", "confirmed", "failed"}

DeskRow == [action: {"refund", "delete"}, result: {"ok", "refused"}]

DeskCall ==
    [pc: {"idle", "read", "void", "plan", "pay", "mark", "audit", "delete"},
     admin: BOOLEAN,             \* an administrator, who is audited, or the poster
     leg: SUBSET AdFunders,      \* the contribution that was just sent back
     moved: SUBSET AdFunders,    \* history: what this call has sent back
     ok: BOOLEAN]                \* how a refund that is to be audited ended
NoDeskCall == [pc |-> "idle", admin |-> FALSE, leg |-> {}, moved |-> {}, ok |-> FALSE]

\* A tile that was not read yet or failed is empty.
DeskReport == [chain: SUBSET Nat, owed: SUBSET Nat, calm: BOOLEAN]
NoReport == [chain |-> {}, owed |-> {}, calm |-> TRUE]

DeskTypeOK ==
    /\ adBounty \in [st: DeskBounty, deleted: BOOLEAN]
    /\ adEscrow \in [st: DeskEscrow, hash: BOOLEAN, refunded: BOOLEAN]
    /\ adLeg \in [AdLegs -> DeskLeg]
    /\ adBack \subseteq adOut /\ adOut \subseteq AdFunders
    /\ adAudit \subseteq DeskRow
    /\ adCall \in [AdCalls -> DeskCall]
    /\ adReport \in DeskReport
    /\ adCrossed \in BOOLEAN
    /\ adLogged \subseteq AdFunders /\ adUntold \subseteq AdFunders

DeskInit ==
    /\ adBounty = [st |-> "pending_fund", deleted |-> FALSE]
    /\ adEscrow = [st |-> "pending", hash |-> FALSE, refunded |-> FALSE]
    /\ adLeg = [l \in AdLegs |-> "none"]
    /\ adOut = {} /\ adBack = {} /\ adAudit = {} /\ adLogged = {} /\ adUntold = {}
    /\ adCall = [c \in AdCalls |-> NoDeskCall]
    /\ adReport = NoReport
    /\ adCrossed = FALSE

AdAt(c, pc) == adCall[c].pc = pc
AdGoto(c, pc) == adCall' = [adCall EXCEPT ![c].pc = pc]
AdEnd(c) == adCall' = [adCall EXCEPT ![c] = NoDeskCall]
AdBegin(c, pc, admin) ==
    AdAt(c, "idle") /\ adCall' = [adCall EXCEPT ![c] = [NoDeskCall EXCEPT !.pc = pc, !.admin = admin]]

\* insertAdminAudit.  No row says which contributions went back: a refused refund
\* has a code, one that is ok the bounty's status and its last hash.
AuditRow(action, result, moved) ==
    /\ adAudit' = adAudit \cup {[action |-> action, result |-> result]}
    /\ adLogged' = adLogged \cup moved

\* The end of a refund: an administrator's is audited, the poster's returns.
AdReturn(c, ok) ==
    IF adCall[c].admin
    THEN /\ adCall' = [adCall EXCEPT ![c].pc = "audit", ![c].ok = ok]
         /\ UNCHANGED adUntold
    ELSE AdEnd(c) /\ adUntold' = adUntold \cup adCall[c].moved
-----------------------------------------------------------------------------
(* What is owed                                                             *)

AdFace == Cardinality(AdFunders)
LegsAt(sts) == {l \in AdLegs : adLeg[l] \in sts}
PaidOut == Cardinality(LegsAt({"confirmed"}))

\* The chain: what gb-escrow still holds of the recorded payment.
DeskWallet ==
    IF adEscrow.hash
    THEN AdFace - Cardinality(LegsAt({"sent", "confirmed"})) - Cardinality(adOut) ELSE 0

\* Transfers whose hash the database does not have yet.
OnTheWay == Cardinality(LegsAt({"sent"})) + Cardinality(adOut \ adBack)

\* unappliedSettledInbound: a payment settled and the lock did not commit.
Unapplied == adEscrow.st \in {"pending", "failed"} /\ adEscrow.hash

\* expectedEscrowLiabilitiesAtomic: face of the escrows that are open, less what
\* has left with a hash.
Liability ==
    CASE adBounty.deleted -> 0
      [] ~ adBounty.deleted /\ Unapplied -> AdFace
      [] ~ adBounty.deleted /\ adEscrow.st \in {"funded", "settling"} ->
           LET back == IF adEscrow.refunded THEN AdFace ELSE Cardinality(adBack)
               left == AdFace - PaidOut - back
           IN  IF left < 0 THEN 0 ELSE left
      [] OTHER -> 0

\* attributedAtomic: face of whatever is not over, less confirmed legs.
Attributed ==
    CASE Unapplied -> AdFace
      [] ~ Unapplied /\ adEscrow.st \in {"pending", "failed", "refunded", "settled"} -> 0
      [] OTHER -> IF adEscrow.refunded THEN 0 ELSE AdFace - PaidOut
-----------------------------------------------------------------------------
(* Money that comes in and goes to hunters, in Funding and Settlement         *)

RefundUnderWay == \E c \in AdCalls : adCall[c].pc \in {"plan", "pay", "mark"}

\* A payment settles; one for a deleted draft is recorded and held for review
\* (persistDeletedBountyInbound).
PayIn ==
    /\ \/ adEscrow.st = "pending"
       \/ adBounty.deleted /\ adEscrow.st = "failed"
    /\ ~ adEscrow.hash
    /\ adEscrow' = [adEscrow EXCEPT !.hash = TRUE]
    /\ UNCHANGED <<adBounty, adLeg, adOut, adBack, adAudit, adLogged, adCall, adCrossed,
                   adUntold>>

LockFunds ==
    /\ adBounty = [st |-> "pending_fund", deleted |-> FALSE]
    /\ adEscrow.st = "pending" /\ adEscrow.hash
    /\ adBounty' = [adBounty EXCEPT !.st = "funded"]
    /\ adEscrow' = [adEscrow EXCEPT !.st = "funded"]
    /\ UNCHANGED <<adLeg, adOut, adBack, adAudit, adLogged, adCall, adCrossed, adUntold>>

SettleBegins ==
    /\ adBounty = [st |-> "funded", deleted |-> FALSE]
    /\ adEscrow.st = "funded" /\ ~ RefundUnderWay
    /\ adBounty' = [adBounty EXCEPT !.st = "settling"]
    /\ adEscrow' = [adEscrow EXCEPT !.st = "settling"]
    /\ adLeg' = [l \in AdLegs |-> "pending"]
    /\ UNCHANGED <<adOut, adBack, adAudit, adLogged, adCall, adCrossed, adUntold>>

\* A leg is sent, or it fails and is tried again; the last one that is confirmed
\* ends the settlement.
SettleLeg(l) ==
    /\ \/ adLeg[l] = "pending" /\ \E st \in {"sent", "failed"} : adLeg' = [adLeg EXCEPT ![l] = st]
       \/ adLeg[l] = "failed" /\ adLeg' = [adLeg EXCEPT ![l] = "pending"]
       \/ adLeg[l] = "sent" /\ adLeg' = [adLeg EXCEPT ![l] = "confirmed"]
    /\ IF \A k \in AdLegs : adLeg'[k] = "confirmed"
       THEN /\ adBounty' = [adBounty EXCEPT !.st = "settled"]
            /\ adEscrow' = [adEscrow EXCEPT !.st = "settled"]
       ELSE UNCHANGED <<adBounty, adEscrow>>
    /\ UNCHANGED <<adOut, adBack, adAudit, adLogged, adCall, adCrossed, adUntold>>
-----------------------------------------------------------------------------
(* adminRefundBounty, and the poster's own cancel through refundEscrow        *)

\* NO_FUNDED_ESCROW
NoFundedEscrow == {"pending_fund", "cancelled"}

\* A deleted bounty, ADMIN_REFUND_ENABLED unset, or nothing to send back: each is
\* a row of its own.
RefuseRefund(c) ==
    /\ AdAt(c, "idle")
    /\ AuditRow("refund", "refused", {})
    /\ UNCHANGED <<adMoney, adCall, adCrossed, adUntold>>

AskRefund(c) ==
    /\ ~ adBounty.deleted /\ adBounty.st \notin NoFundedEscrow
    /\ AdBegin(c, "read", TRUE)
    /\ UNCHANGED <<adMoney, adAudit, adLogged, adCrossed, adUntold>>

AskCancel(c) ==
    /\ AdBegin(c, "read", FALSE)
    /\ UNCHANGED <<adMoney, adAudit, adLogged, adCrossed, adUntold>>

\* refundEscrow reads the bounty again: a draft is voided, an end is an answer,
\* and only money that is open, or on its way back, is planned.
ReadRefund(c) ==
    /\ AdAt(c, "read")
    /\ CASE adBounty.deleted -> AdReturn(c, FALSE)
         [] ~ adBounty.deleted /\ adBounty.st = "pending_fund" ->
              AdGoto(c, "void") /\ UNCHANGED adUntold
         [] ~ adBounty.deleted /\ adBounty.st = "cancelled" -> AdReturn(c, TRUE)
         [] ~ adBounty.deleted /\ adBounty.st \in {"funded", "refunding"} ->
              AdGoto(c, "plan") /\ UNCHANGED adUntold
         [] OTHER -> AdReturn(c, FALSE)
    /\ UNCHANGED <<adMoney, adAudit, adLogged, adCrossed>>

\* Both rows by id, whatever happened since the read.
VoidDraft(c) ==
    /\ AdAt(c, "void")
    /\ adBounty' = [adBounty EXCEPT !.st = "cancelled"]
    /\ adEscrow' = [adEscrow EXCEPT !.st = IF @ = "pending" THEN "failed" ELSE @]
    /\ adCrossed' = (adCrossed \/ adBounty.st \notin NoFundedEscrow)
    /\ AdReturn(c, TRUE)
    /\ UNCHANGED <<adLeg, adOut, adBack, adAudit, adLogged>>

PlanRefund(c) ==
    /\ AdAt(c, "plan")
    /\ adBounty' = [adBounty EXCEPT !.st = "refunding"]
    /\ adEscrow' = [adEscrow EXCEPT !.st = "refunding"]
    /\ AdGoto(c, "pay")
    /\ UNCHANGED <<adLeg, adOut, adBack, adAudit, adLogged, adCrossed, adUntold>>

\* The rail answers a key it has seen with the transfer it made.
PayBack(c) ==
    /\ AdAt(c, "pay")
    /\ \E f \in AdFunders \ adBack :
         /\ adOut' = adOut \cup {f}
         /\ adCall' = [adCall EXCEPT ![c].pc = "mark", ![c].leg = {f},
                        ![c].moved = IF f \in adOut THEN @ ELSE @ \cup {f}]
    /\ UNCHANGED <<adBounty, adEscrow, adLeg, adBack, adAudit, adLogged, adCrossed, adUntold>>

\* markContributionRefunded
MarkRefunded(c) ==
    /\ AdAt(c, "mark")
    /\ adBack' = adBack \cup adCall[c].leg
    /\ adCall' = [adCall EXCEPT ![c].pc = "pay", ![c].leg = {}]
    /\ UNCHANGED <<adBounty, adEscrow, adLeg, adOut, adAudit, adLogged, adCrossed, adUntold>>

\* The transaction at the end, once every contribution has its hash.
CloseRefund(c) ==
    /\ AdAt(c, "pay") /\ adBack = AdFunders
    /\ adBounty' = [adBounty EXCEPT !.st = "cancelled"]
    /\ adEscrow' = [adEscrow EXCEPT !.st = "refunded", !.refunded = TRUE]
    /\ AdReturn(c, TRUE)
    /\ UNCHANGED <<adLeg, adOut, adBack, adAudit, adLogged, adCrossed>>

\* An EscrowError: what is covered, a funder without a wallet, or the rail.
FailRefund(c) ==
    /\ adCall[c].pc \in {"plan", "pay"}
    /\ AdReturn(c, FALSE)
    /\ UNCHANGED <<adMoney, adAudit, adLogged, adCrossed>>

\* A row only when it went well: a refund that failed half way leaves none.
AuditRefund_WhenOk(c) ==
    /\ AdAt(c, "audit")
    /\ IF adCall[c].ok THEN AuditRow("refund", "ok", adCall[c].moved)
       ELSE UNCHANGED <<adAudit, adLogged>>
    /\ AdEnd(c)
    /\ UNCHANGED <<adMoney, adCrossed, adUntold>>

AuditRefund(c) ==
    /\ AdAt(c, "audit")
    /\ AuditRow("refund", IF adCall[c].ok THEN "ok" ELSE "refused", adCall[c].moved)
    /\ AdEnd(c)
    /\ UNCHANGED <<adMoney, adCrossed, adUntold>>

\* The instance dies, or the database fails, between two steps.
DieAtDesk(c) ==
    /\ ~ AdAt(c, "idle")
    /\ adUntold' = adUntold \cup adCall[c].moved
    /\ AdEnd(c)
    /\ UNCHANGED <<adMoney, adAudit, adLogged, adCrossed>>
-----------------------------------------------------------------------------
(* softDeleteBounty                                                         *)

\* escrowHeldRemainderAtomic
HeldRemainder == AdFace - PaidOut - Cardinality(adBack)
HoldsFunds ==
    /\ adEscrow.st \in {"funded", "settling", "refunding"}
    /\ ~ adEscrow.refunded
    /\ HeldRemainder > 0

\* deleteBlockReasons; claim locks are in Posting.
DeleteBlocked == HoldsFunds \/ LegsAt({"pending", "sent"}) # {}

\* The facts are read without a lock first.
AskDelete(c) ==
    /\ ~ adBounty.deleted
    /\ IF DeleteBlocked
       THEN AdAt(c, "idle") /\ AuditRow("delete", "refused", {}) /\ UNCHANGED adCall
       ELSE AdBegin(c, "delete", TRUE) /\ UNCHANGED <<adAudit, adLogged>>
    /\ UNCHANGED <<adMoney, adCrossed, adUntold>>

\* ... and read again in the transaction that locks both rows.
SoftDelete(c) ==
    /\ AdAt(c, "delete")
    /\ CASE adBounty.deleted -> UNCHANGED <<adBounty, adEscrow, adAudit, adLogged>>
         [] ~ adBounty.deleted /\ DeleteBlocked ->
              AuditRow("delete", "refused", {}) /\ UNCHANGED <<adBounty, adEscrow>>
         [] OTHER ->
              /\ adBounty' = [st |-> IF adBounty.st = "pending_fund" THEN "cancelled"
                                                                    ELSE adBounty.st,
                              deleted |-> TRUE]
              /\ adEscrow' = [adEscrow EXCEPT !.st = IF @ = "pending" THEN "failed" ELSE @]
              /\ AuditRow("delete", "ok", {})
    /\ AdEnd(c)
    /\ UNCHANGED <<adLeg, adOut, adBack, adCrossed, adUntold>>
-----------------------------------------------------------------------------
(* readBalanceReport                                                        *)

\* Each tile is read on its own, in any order, and may fail on its own.
ReadTile ==
    /\ \/ adReport.chain = {} /\ adReport' = [adReport EXCEPT !.chain = {DeskWallet},
                                                 !.calm = @ /\ OnTheWay = 0]
       \/ adReport.owed = {} /\ adReport' = [adReport EXCEPT !.owed = {Liability}]
    /\ UNCHANGED <<adMoney, adAudit, adLogged, adCall, adCrossed, adUntold>>

AnswerReport ==
    /\ adReport # NoReport
    /\ adReport' = NoReport
    /\ UNCHANGED <<adMoney, adAudit, adLogged, adCall, adCrossed, adUntold>>

\* Money that moves between the two reads.
Stirs ==
    adReport' = IF adReport # NoReport /\ (adReport.chain = {} \/ adReport.owed = {})
                   /\ <<DeskWallet, Liability>>' # <<DeskWallet, Liability>>
                THEN [adReport EXCEPT !.calm = FALSE] ELSE adReport
-----------------------------------------------------------------------------
DeskStep ==
    \/ PayIn \/ LockFunds \/ SettleBegins \/ \E l \in AdLegs : SettleLeg(l)
    \/ \E c \in AdCalls :
         \/ RefuseRefund(c) \/ AskRefund(c) \/ AskCancel(c) \/ ReadRefund(c) \/ VoidDraft(c)
         \/ PlanRefund(c) \/ PayBack(c) \/ MarkRefunded(c) \/ CloseRefund(c)
         \/ FailRefund(c) \/ AuditRefund(c) \/ DieAtDesk(c) \/ AskDelete(c) \/ SoftDelete(c)

DeskNext == (DeskStep /\ Stirs) \/ ReadTile \/ AnswerReport

DeskSpec == DeskInit /\ [][DeskNext]_adVars
-----------------------------------------------------------------------------
\* The audit log can be believed: a refund that is "ok" sent everything back, and
\* no administrator's refund that sent anything back, also one that failed half
\* way, goes without a row, unless its instance died (refund.ts:85).  What a
\* "refused" one sent is in bounty_contributions only.
AuditTells ==
    /\ \A row \in adAudit :
         row.action = "refund" /\ row.result = "ok" => adBack = AdFunders \/ adCrossed
    /\ adOut \subseteq adLogged \cup adUntold \cup (UNION {adCall[c].moved : c \in AdCalls})

\* What may not be deleted because it holds money can be refunded first, as the
\* refusal says, and an administrator's refund never voids a draft: a status does
\* not go back to pending_fund between the two reads (refund.ts:72).
RefundFirst ==
    /\ HoldsFunds /\ ~ adBounty.deleted /\ ~ adCrossed => adBounty.st \notin NoFundedEscrow
    /\ \A c \in AdCalls : AdAt(c, "void") => ~ adCall[c].admin

\* A deleted bounty holds nothing but a payment that reconciliation still shows.
DeletedHoldsNothing == adBounty.deleted => DeskWallet = 0 \/ Unapplied

\* Neither report hides money: reconciliation never attributes less than is
\* there, the tile never more than is there or leaving, and it is exact unless a refund
\* is half done or the bounty is deleted.
ReportsBracket ==
    /\ DeskWallet <= Attributed
    /\ Liability <= DeskWallet + OnTheWay
    /\ adBounty.deleted \/ adEscrow.st = "refunding" \/ Liability = DeskWallet + OnTheWay
    /\ adReport.calm => \A held \in adReport.chain, owed \in adReport.owed : owed <= held

\* What the administrator is told about a bounty is so, although refunds,
\* deletions, cancels and settlements of it overlap, fail or die half way.
DeskTellsTheTruth == AuditTells /\ RefundFirst /\ DeletedHoldsNothing /\ ReportsBracket
=============================================================================
