--------------------------- MODULE FundingMarkers ---------------------------
(***************************************************************************)
(* What the payout guard of the live rail counts as paid in                 *)
(* (src/apps/web/src/escrow/payout-guard.ts): the hashes marked on           *)
(* escrows.x402_payment_id, and the lock hash while the column has a head.   *)
(* The column is read, extended and written back, under no common lock, by   *)
(* claims and refunds that verify legacy hashes on the chain                 *)
(* (escrow/legacy-funding.ts), by the script that does so for many bounties  *)
(* (scripts/security/reconcile-legacy-funding.ts) and by x402 top-ups        *)
(* (escrow/top-up.ts).                                                      *)
(*                                                                         *)
(* All bounties are funded, so only a top-up changes a face.  No row of the   *)
(* live rail holds a hash of the mock rail.  A receipt stays what it was; a   *)
(* wallet that is recorded is not the escrow wallet.                        *)
(* The script over several bounties is one run here for each: it writes      *)
(* each escrow by a statement of its own.                                   *)
(***************************************************************************)
EXTENDS Integers

CONSTANTS
    Funded,         \* the bounties
    Hashes,         \* transaction hashes
    Payers,         \* wallets that send USDC
    NoPayer,        \* stands for no recorded wallet
    NoHash,         \* stands for no hash, and for "lock:" and "legacy-fund:" keys
    NoBounty,       \* stands for no bounty
    TopUpAmounts,   \* amounts of top-ups
    Legacy,         \* what the tables and the chain may hold at the start
    MarkRuns        \* claims, scripts and top-ups in flight

VARIABLES
    fmChain,     \* the logs of each transaction
    fmCredit,    \* bounty_contributions by hash, which is unique
    fmEscrow,    \* the escrows row of each bounty
    fmRun,       \* what is in flight
    fmCounted    \* history: what has counted for whom

fmVars == <<fmChain, fmCredit, fmEscrow, fmRun, fmCounted>>
-----------------------------------------------------------------------------
\* A Transfer to the escrow wallet; the index tells equal ones apart.
Log == [usdc: BOOLEAN, from: Payers, value: Nat, index: Nat]

\* bounty is NoBounty where the table has no row for the hash.
CreditRow == [bounty: Funded \cup {NoBounty}, amount: Nat, payer: Payers \cup {NoPayer}]
NoCredit == [bounty |-> NoBounty, amount |-> 0, payer |-> NoPayer]

\* x402_payment_id is a head and lines "x402-topup:<hash>".
MarkedRow == [hash: Hashes \cup {NoHash}, amount: Nat, payer: Payers \cup {NoPayer},
              head: BOOLEAN, marks: SUBSET Hashes]
NoMarkedRow == [hash |-> NoHash, amount |-> 0, payer |-> NoPayer, head |-> FALSE, marks |-> {}]

Leg == [hash: Hashes, amount: Nat, payer: Payers \cup {NoPayer}]

CreditsOf(b, credit) == {h \in Hashes : credit[h].bounty = b}

\* The escrow row itself is the leg of a bounty without contributions.
LegsOf(b, credit, row) ==
    IF CreditsOf(b, credit) # {}
    THEN {[hash |-> h, amount |-> credit[h].amount, payer |-> credit[h].payer] :
            h \in CreditsOf(b, credit)}
    ELSE {[hash |-> h, amount |-> row.amount, payer |-> row.payer] : h \in {row.hash} \ {NoHash}}

\* A mark of another hash does not vouch for the lock hash.
FundHashIsVerified(h, row) == h \in row.marks \/ (row.head /\ h = row.hash)

\* Exactly one USDC transfer of the payer covers the amount.
MatchPayerFundingTransfer(logs, leg) ==
    /\ leg.payer # NoPayer /\ leg.amount > 0
    /\ \E log \in logs :
         {l \in logs : l.usdc /\ l.from = leg.payer /\ l.value >= leg.amount} = {log}

\* Nobody takes over a hash of another bounty, so it does not matter that the
\* two tables and the chain are asked one after the other.
HashUsedByOtherBounty_Never(b, h, credit, escrow) == FALSE
HashUsedByOtherBounty(b, h, credit, escrow) ==
    \/ credit[h].bounty \notin {b, NoBounty}
    \/ \E c \in Funded \ {b} : escrow[c].hash = h

Counts(b, h, credit, row) ==
    /\ FundHashIsVerified(h, row)
    /\ IF CreditsOf(b, credit) # {} THEN credit[h].bounty = b ELSE row.hash = h

Counting(credit, escrow) ==
    {p \in Funded \X Hashes : Counts(p[1], p[2], credit, escrow[p[1]])}

\* USDC that came into the escrow wallet by the transaction.
Arrived(logs, amount) == \E log \in logs : log.usdc /\ log.value >= amount

\* Rows from before the marks: no mark is there, and a head only where x402
\* had settled the lock hash.  A hash may be on the escrow of one bounty and
\* on a contribution of another: no index spans the two tables.
LegacyState(s) ==
    /\ s.chain \in [Hashes -> SUBSET Log]
    /\ s.credit \in [Hashes -> CreditRow]
    /\ s.escrow \in [Funded -> MarkedRow]
    /\ \A b \in Funded :
         LET row == s.escrow[b]
         IN  /\ row.marks = {} /\ row.amount > 0
             /\ \A c \in Funded \ {b} : row.hash = s.escrow[c].hash => row.hash = NoHash
             /\ row.head => /\ row.hash \in Hashes /\ row.payer # NoPayer
                            /\ s.credit[row.hash].bounty \in {b, NoBounty}
                            /\ \A leg \in LegsOf(b, s.credit, row) :
                                 leg.hash = row.hash => Arrived(s.chain[row.hash], leg.amount)

ASSUME MarkAssumption ==
    /\ NoPayer \notin Payers /\ NoHash \notin Hashes /\ NoBounty \notin Funded
    /\ TopUpAmounts \subseteq Nat \ {0}
    /\ \A s \in Legacy : LegacyState(s)
-----------------------------------------------------------------------------
MarkPCs == {"idle", "credits", "leg", "write", "settled", "commit"}

\* row: the escrow as it was read, with the marks the run has added; used: the
\* hashes of other bounties a script has seen; left: legs still to look at;
\* hash, amount, payer: the hash to mark, or the top-up.
MarkRun == [pc: MarkPCs, script: BOOLEAN, bounty: Funded \cup {NoBounty}, row: MarkedRow,
            used: SUBSET Hashes, left: SUBSET Leg,
            hash: Hashes \cup {NoHash}, amount: Nat, payer: Payers \cup {NoPayer}]
MarkIdle == [pc |-> "idle", script |-> FALSE, bounty |-> NoBounty, row |-> NoMarkedRow,
             used |-> {}, left |-> {}, hash |-> NoHash, amount |-> 0, payer |-> NoPayer]

MarkTypeOK ==
    /\ fmChain \in [Hashes -> SUBSET Log]
    /\ fmCredit \in [Hashes -> CreditRow]
    /\ fmEscrow \in [Funded -> MarkedRow]
    /\ fmRun \in [MarkRuns -> MarkRun]
    /\ fmCounted \subseteq Funded \X Hashes

MarkInit ==
    /\ \E s \in Legacy : fmChain = s.chain /\ fmCredit = s.credit /\ fmEscrow = s.escrow
    /\ fmRun = [r \in MarkRuns |-> MarkIdle]
    /\ fmCounted = Counting(fmCredit, fmEscrow)

MarkRunEnds(r) == fmRun' = [fmRun EXCEPT ![r] = MarkIdle]
MarkRunOnly == UNCHANGED <<fmChain, fmCredit, fmEscrow, fmCounted>>

\* The whole column is written back as the run has it.
WritePaymentId(b, row) ==
    /\ fmEscrow' = [fmEscrow EXCEPT ![b].head = row.head, ![b].marks = row.marks]
    /\ fmCounted' = fmCounted \cup Counting(fmCredit, fmEscrow')
    /\ UNCHANGED <<fmChain, fmCredit>>
-----------------------------------------------------------------------------
(* reconcileLegacyFunding, before a claim or a refund looks at what is       *)
(* covered, and the script                                                  *)

ClaimReadsEscrow(r, b) ==
    /\ fmRun[r].pc = "idle"
    /\ fmRun' = [fmRun EXCEPT ![r] = [MarkIdle EXCEPT !.pc = "credits", !.bounty = b,
                                                      !.row = fmEscrow[b]]]
    /\ MarkRunOnly

ClaimReadsCredits(r) ==
    LET q == fmRun[r]
    IN  /\ q.pc = "credits"
        /\ fmRun' = [fmRun EXCEPT ![r].pc = "leg",
                                  ![r].left = LegsOf(q.bounty, fmCredit, q.row)]
        /\ MarkRunOnly

\* One statement reads all rows of both tables.
ScriptReads(r, b) ==
    /\ fmRun[r].pc = "idle"
    /\ fmRun' = [fmRun EXCEPT ![r] =
         [MarkIdle EXCEPT !.pc = "leg", !.script = TRUE, !.bounty = b, !.row = fmEscrow[b],
                          !.left = LegsOf(b, fmCredit, fmEscrow[b]),
                          !.used = {h \in Hashes : HashUsedByOtherBounty(b, h, fmCredit, fmEscrow)}]]
    /\ MarkRunOnly

\* A leg that counts already, or that the chain does not vouch for now: the
\* node may fail to answer.
SkipLeg(r, leg) ==
    /\ fmRun[r].pc = "leg" /\ leg \in fmRun[r].left
    /\ fmRun' = [fmRun EXCEPT ![r].left = @ \ {leg}]
    /\ MarkRunOnly

\* A claim writes at once, a script when it has seen every leg.
VerifyLeg(r, leg) ==
    LET q == fmRun[r]
    IN  /\ q.pc = "leg" /\ leg \in q.left
        /\ ~ FundHashIsVerified(leg.hash, q.row)
        /\ IF q.script THEN leg.hash \notin q.used
           ELSE ~ HashUsedByOtherBounty(q.bounty, leg.hash, fmCredit, fmEscrow)
        /\ MatchPayerFundingTransfer(fmChain[leg.hash], leg)
        /\ fmRun' = [fmRun EXCEPT ![r].left = @ \ {leg},
                                  ![r].row.marks = @ \cup {leg.hash},
                                  ![r].pc = IF q.script THEN "leg" ELSE "write"]
        /\ MarkRunOnly

WriteMark(r) ==
    /\ fmRun[r].pc = "write"
    /\ WritePaymentId(fmRun[r].bounty, fmRun[r].row)
    /\ fmRun' = [fmRun EXCEPT ![r].pc = "leg"]

ScriptApplies(r) ==
    /\ fmRun[r].pc = "leg" /\ fmRun[r].script /\ fmRun[r].left = {}
    /\ WritePaymentId(fmRun[r].bounty, fmRun[r].row)
    /\ MarkRunEnds(r)

\* The claim goes on to loadPayoutCoverage; a run may also fail or die, and a
\* script without --apply, or without a mark to add, writes nothing.
MarkRunLeaves(r) ==
    /\ fmRun[r].pc # "idle"
    /\ MarkRunEnds(r)
    /\ MarkRunOnly
-----------------------------------------------------------------------------
(* addBountyContribution, for an x402 payment                               *)

\* The funder_address of the new row: the wallet the facilitator saw pay.
TopUpPayer_Profile(q) == NoPayer
TopUpPayer(q) == q.payer

\* The facilitator settles a transaction that is nobody's yet.
TopUpSettles(r, b, h, amount, payer) ==
    /\ fmRun[r].pc = "idle"
    /\ fmChain[h] = {} /\ fmCredit[h].bounty = NoBounty
    /\ \A c \in Funded : fmEscrow[c].hash # h
    /\ fmChain' = [fmChain EXCEPT
         ![h] = {[usdc |-> TRUE, from |-> payer, value |-> amount, index |-> 0]}]
    /\ fmRun' = [fmRun EXCEPT ![r] = [MarkIdle EXCEPT !.pc = "settled", !.bounty = b,
                                        !.hash = h, !.amount = amount, !.payer = payer]]
    /\ UNCHANGED <<fmCredit, fmEscrow, fmCounted>>

\* The transaction locks the bounty, not the escrow.
TopUpReads(r) ==
    LET q == fmRun[r]
    IN  /\ q.pc = "settled"
        /\ \A s \in MarkRuns : fmRun[s].pc = "commit" => fmRun[s].bounty # q.bounty
        /\ fmRun' = [fmRun EXCEPT ![r].pc = "commit", ![r].row = fmEscrow[q.bounty]]
        /\ MarkRunOnly

\* backfillOriginalContribution: the first top-up credits the lock first; the
\* index refuses a hash that another bounty has credited.
TopUpCommits(r) ==
    LET q == fmRun[r]
        b == q.bounty
        original == [bounty |-> b, amount |-> fmEscrow[b].amount, payer |-> fmEscrow[b].payer]
        added == [bounty |-> b, amount |-> q.amount, payer |-> TopUpPayer(q)]
        backfills == CreditsOf(b, fmCredit) = {} /\ fmEscrow[b].hash # NoHash
    IN  /\ q.pc = "commit"
        /\ backfills => fmCredit[fmEscrow[b].hash].bounty = NoBounty
        /\ fmCredit' = [h \in Hashes |->
             CASE h = q.hash -> added
               [] h # q.hash /\ backfills /\ h = fmEscrow[b].hash -> original
               [] OTHER -> fmCredit[h]]
        /\ fmEscrow' = [fmEscrow EXCEPT ![b].head = q.row.head,
                                        ![b].marks = q.row.marks \cup {q.hash},
                                        ![b].amount = @ + q.amount]
        /\ fmCounted' = fmCounted \cup Counting(fmCredit', fmEscrow')
        /\ MarkRunEnds(r)
        /\ UNCHANGED fmChain
-----------------------------------------------------------------------------
MarkStep(r) ==
    \/ \E b \in Funded : ClaimReadsEscrow(r, b) \/ ScriptReads(r, b)
    \/ ClaimReadsCredits(r)
    \/ \E leg \in fmRun[r].left : SkipLeg(r, leg) \/ VerifyLeg(r, leg)
    \/ WriteMark(r) \/ ScriptApplies(r) \/ MarkRunLeaves(r)
    \/ \E b \in Funded, h \in Hashes, amount \in TopUpAmounts, payer \in Payers :
         TopUpSettles(r, b, h, amount, payer)
    \/ TopUpReads(r) \/ TopUpCommits(r)

MarkNext == \E r \in MarkRuns : MarkStep(r)

MarkSpec == MarkInit /\ [][MarkNext]_fmVars
-----------------------------------------------------------------------------
(* Properties                                                               *)

\* The guard counts no USDC that did not arrive, and no transaction for two
\* bounties, however stale the column is that somebody writes back
\* (fundHashIsVerified, hashUsedByOtherBounty).
CountedArrivedOnce ==
    \A b \in Funded : \A leg \in LegsOf(b, fmCredit, fmEscrow[b]) :
        FundHashIsVerified(leg.hash, fmEscrow[b]) =>
            /\ Arrived(fmChain[leg.hash], leg.amount)
            /\ \A c \in Funded \ {b} : ~ Counts(c, leg.hash, fmCredit, fmEscrow[c])

\* What counted once counts now, or the next claim brings it back from the
\* chain: a mark that a stale write removed is not lost
\* (reconcileLegacyFunding).
LostMarkReturns ==
    \A b \in Funded : \A leg \in LegsOf(b, fmCredit, fmEscrow[b]) :
        <<b, leg.hash>> \in fmCounted =>
            \/ FundHashIsVerified(leg.hash, fmEscrow[b])
            \/ /\ ~ HashUsedByOtherBounty(b, leg.hash, fmCredit, fmEscrow)
               /\ MatchPayerFundingTransfer(fmChain[leg.hash], leg)
=============================================================================
