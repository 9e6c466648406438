------------------------------ MODULE Checkout ------------------------------
(***************************************************************************)
(* Paying from the browser: the wallet button of a bounty                   *)
(* (src/apps/web/src/components/fund-lock-panel.tsx, wallet/pay-x402.ts)     *)
(* against GET and POST /api/bounties/:id/x402 (escrow/x402-http.ts).  A     *)
(* press asks for the challenge, signs a new authorization and posts it;    *)
(* the server looks at the bounty again, has the facilitator settle, and     *)
(* records or credits the payment.  Two people, two tabs, or a press after   *)
(* a lost answer can do so at the same time.                                 *)
(*                                                                         *)
(* Funding has the amounts, the lock and the top-up in detail; a press here  *)
(* stands for its authorization, which the chain settles at most once.      *)
(***************************************************************************)
EXTENDS FiniteSets

CONSTANTS
    CkPresses,     \* presses of the button, each with a nonce of its own
    CkNone,        \* no payment
    CkFaces        \* what the draft may cost

ASSUME CheckoutAssumption == CkNone \notin CkPresses

VARIABLES
    ckBounty,      \* status, deleted_at, face, and whether top-ups are open
    ckEscrow,      \* fund_tx_hash, contributions, the payment fail_reason names
    ckPress,       \* the presses: where browser and handler are
    ckSettled      \* the chain: the authorizations that moved

ckVars == <<ckBounty, ckEscrow, ckPress, ckSettled>>
-----------------------------------------------------------------------------
\* "sign" and "post" are in the browser; "settle", "record" and "write" in the
\* handler; "lock" is the browser's call of /fund.
PressPC == {"idle", "sign", "post", "settle", "record", "write", "lock", "done"}

\* price is what was signed, asked what the handler wants; gone and saw are what
\* recordExactInbound has read: a deleted bounty, its recorded hash.  told is what
\* the panel shows.  calm: nothing came between the read of the posted payment
\* and its record, and the facilitator answered in full.
Press == [pc: PressPC, topUp: BOOLEAN, price: CkFaces \cup {CkNone},
          asked: CkFaces \cup {CkNone}, gone: BOOLEAN, saw: CkPresses \cup {CkNone},
          told: {"nothing", "paid", "failed"}, calm: BOOLEAN]
NoPress == [pc |-> "idle", topUp |-> FALSE, price |-> CkNone, asked |-> CkNone,
            gone |-> FALSE, saw |-> CkNone, told |-> "nothing", calm |-> TRUE]

CheckoutTypeOK ==
    /\ ckBounty \in [st: {"pending_fund", "funded", "ended"}, deleted: BOOLEAN,
                     face: CkFaces, open: BOOLEAN]
    /\ ckEscrow \in [hash: CkPresses \cup {CkNone}, credited: SUBSET CkPresses,
                     noted: CkPresses \cup {CkNone}]
    /\ ckPress \in [CkPresses -> Press]
    /\ ckSettled \subseteq CkPresses

CheckoutInit ==
    /\ ckBounty \in [st: {"pending_fund"}, deleted: {FALSE}, face: CkFaces, open: {TRUE}]
    /\ ckEscrow = [hash |-> CkNone, credited |-> {}, noted |-> CkNone]
    /\ ckPress = [p \in CkPresses |-> NoPress]
    /\ ckSettled = {}

CkAt(p, pc) == ckPress[p].pc = pc
InHandler(p) == ckPress[p].pc \in {"settle", "record", "write"}

\* The panel shows an answer only while it still waits for one.
CkTell(p, told) == IF ckPress[p].told = "nothing" THEN told ELSE ckPress[p].told
CkAnswer(p, told) ==
    ckPress' = [ckPress EXCEPT ![p].pc = "done", ![p].told = CkTell(p, told)]
-----------------------------------------------------------------------------
(* What the handler finds before it asks for money                          *)

\* handleX402Fund, assertFundedTopUpOpen: is a payment of this kind wanted?
Wanted(topUp) ==
    /\ ~ ckBounty.deleted
    /\ IF topUp THEN ckBounty.st = "funded" /\ ckBounty.open
       ELSE ckBounty.st = "pending_fund" /\ ckEscrow.hash = CkNone

\* 200 without a payment: recorded or funded already.
PaidBefore(topUp) ==
    /\ ~ ckBounty.deleted /\ ~ topUp
    /\ ckBounty.st = "funded" \/ (ckBounty.st = "pending_fund" /\ ckEscrow.hash # CkNone)

\* The panel asks to lock what is recorded; a top-up needs no lock.
CkRecorded(p) ==
    IF ckPress[p].topUp THEN CkAnswer(p, "paid")
    ELSE ckPress' = [ckPress EXCEPT ![p].told = CkTell(p, "paid"),
           ![p].pc = IF ckPress[p].told = "nothing" THEN "lock" ELSE "done"]
-----------------------------------------------------------------------------
(* The browser                                                              *)

\* onPay, payX402Exact: the page of a funded bounty offers top-ups.
PressPay(p) ==
    LET topUp == ckBounty.st = "funded"
    IN  /\ CkAt(p, "idle") /\ ckBounty.st # "ended" /\ ~ ckBounty.deleted
        /\ ckPress' = [ckPress EXCEPT ![p].pc = "sign", ![p].topUp = topUp]
        /\ UNCHANGED <<ckBounty, ckEscrow, ckSettled>>

\* GET: the challenge, and the wallet signs its price: the face, or what the
\* funder adds.
SignChallenge(p, price) ==
    /\ CkAt(p, "sign") /\ Wanted(ckPress[p].topUp)
    /\ ckPress[p].topUp \/ price = ckBounty.face
    /\ ckPress' = [ckPress EXCEPT ![p].pc = "post", ![p].price = price]
    /\ UNCHANGED <<ckBounty, ckEscrow, ckSettled>>

\* GET: refused, or the wallet declines.
NoChallenge(p) ==
    /\ CkAt(p, "sign") /\ ~ PaidBefore(ckPress[p].topUp)
    /\ CkAnswer(p, "failed")
    /\ UNCHANGED <<ckBounty, ckEscrow, ckSettled>>

\* GET or POST: 200.  An authorization that was signed is not used.
AnsweredUnpaid(p) ==
    /\ ckPress[p].pc \in {"sign", "post"} /\ PaidBefore(ckPress[p].topUp)
    /\ CkRecorded(p)
    /\ UNCHANGED <<ckBounty, ckEscrow, ckSettled>>

\* The answer does not reach the browser; the handler goes on.
AnswerLost(p) ==
    /\ InHandler(p) /\ ckPress[p].told = "nothing"
    /\ ckPress' = [ckPress EXCEPT ![p].told = "failed"]
    /\ UNCHANGED <<ckBounty, ckEscrow, ckSettled>>

\* lockAfterInbound: fundBounty credits the recorded hash, for the poster.
LockInbound(p) ==
    /\ CkAt(p, "lock") /\ ckBounty.st = "pending_fund" /\ ~ ckBounty.deleted
    /\ ckBounty' = [ckBounty EXCEPT !.st = "funded"]
    /\ ckEscrow' = [ckEscrow EXCEPT !.credited = @ \cup {ckEscrow.hash}]
    /\ ckPress' = [q \in CkPresses |->
         [ckPress[q] EXCEPT !.pc = IF q = p THEN "done" ELSE @,
                            !.calm = @ /\ ~ InHandler(q)]]
    /\ UNCHANGED ckSettled

LockFails(p) ==
    /\ CkAt(p, "lock")
    /\ CkAnswer(p, "paid")
    /\ UNCHANGED <<ckBounty, ckEscrow, ckSettled>>
-----------------------------------------------------------------------------
(* The handler of the posted payment                                        *)

\* The payments that are in the handler together know nothing of each other.
\* The price is issued anew here: the added amount from the URL, or the face.
CkEnter(p, topUp) ==
    LET others == {q \in CkPresses : InHandler(q)}
    IN  /\ CkAt(p, "post")
        /\ ckPress' = [q \in CkPresses |->
             IF q = p THEN [ckPress[p] EXCEPT !.pc = "settle", !.topUp = topUp,
                                !.asked = IF topUp THEN @ ELSE ckBounty.face,
                                !.calm = others = {}]
             ELSE [ckPress[q] EXCEPT !.calm = @ /\ q \notin others]]

PostPayment(p) ==
    /\ Wanted(ckPress[p].topUp)
    /\ CkEnter(p, ckPress[p].topUp)
    /\ UNCHANGED <<ckBounty, ckEscrow, ckSettled>>

\* deletedBountyFundResult: money that is signed for a deleted bounty is settled
\* too, whatever it was meant for.
PostToDeleted(p) ==
    /\ ckBounty.deleted
    /\ CkEnter(p, FALSE)
    /\ UNCHANGED <<ckBounty, ckEscrow, ckSettled>>

PostRefused(p) ==
    LET topUp == ckPress[p].topUp
    IN  /\ CkAt(p, "post")
        /\ ~ ckBounty.deleted /\ ~ Wanted(topUp) /\ ~ PaidBefore(topUp)
        /\ CkAnswer(p, "failed")
        /\ UNCHANGED <<ckBounty, ckEscrow, ckSettled>>

\* What was signed must pay the price the handler asks.
PaysPrice(p) == ckPress[p].price = ckPress[p].asked

\* processLiveX402Exact, assertFacilitatorSettlementMatches, x402PayerError.
SettlePayment(p) ==
    /\ CkAt(p, "settle") /\ PaysPrice(p)
    /\ ckSettled' = ckSettled \cup {p}
    /\ ckPress' = [ckPress EXCEPT ![p].pc = "record"]
    /\ UNCHANGED <<ckBounty, ckEscrow>>

\* verify refuses it, or settle does.
SettleRefused(p) ==
    /\ CkAt(p, "settle")
    /\ CkAnswer(p, "failed")
    /\ UNCHANGED <<ckBounty, ckEscrow, ckSettled>>

\* Settled, but the answer is an error, another network, or has no payer: the
\* handler ends without a record.  So does one whose instance dies.
SettledUnanswered(p) ==
    /\ InHandler(p) /\ (CkAt(p, "settle") => PaysPrice(p))
    /\ ckSettled' = ckSettled \cup {p}
    /\ ckPress' = [ckPress EXCEPT ![p].pc = "done", ![p].calm = FALSE,
                                  ![p].told = CkTell(p, "failed")]
    /\ UNCHANGED <<ckBounty, ckEscrow>>

\* recordExactInbound reads both rows ...
RecordInbound(p) ==
    /\ CkAt(p, "record") /\ ~ ckPress[p].topUp
    /\ IF ckBounty.deleted \/ (ckBounty.st = "pending_fund" /\ ckEscrow.hash = CkNone)
       THEN ckPress' = [ckPress EXCEPT ![p].pc = "write", ![p].gone = ckBounty.deleted,
                                       ![p].saw = ckEscrow.hash]
       ELSE CkAnswer(p, "failed")
    /\ UNCHANGED <<ckBounty, ckEscrow, ckSettled>>

\* ... and writes the row by id.  persistDeletedBountyInbound puts back the hash
\* it has read and names its own payment in fail_reason, which has room for one.
WriteInbound_Overwrite(p) ==
    /\ CkAt(p, "write")
    /\ ckEscrow' = [ckEscrow EXCEPT !.hash = p, !.noted = CkNone]
    /\ IF ckPress[p].gone THEN CkAnswer(p, "failed") ELSE CkRecorded(p)
    /\ UNCHANGED <<ckBounty, ckSettled>>
WriteInbound(p) ==
    LET saw == ckPress[p].saw
        keepPrevious == ckPress[p].gone /\ saw # CkNone
    IN  /\ CkAt(p, "write")
        /\ ckEscrow' = [ckEscrow EXCEPT !.hash = IF keepPrevious THEN saw ELSE p,
                                        !.noted = IF keepPrevious THEN p ELSE CkNone]
        /\ IF ckPress[p].gone THEN CkAnswer(p, "failed") ELSE CkRecorded(p)
        /\ UNCHANGED <<ckBounty, ckSettled>>

\* topUpFundedBounty
ApplyTopUp(p) ==
    /\ CkAt(p, "record") /\ ckPress[p].topUp
    /\ IF Wanted(TRUE)
       THEN /\ ckEscrow' = [ckEscrow EXCEPT !.credited = @ \cup {p}]
            /\ CkRecorded(p)
       ELSE CkAnswer(p, "failed") /\ UNCHANGED ckEscrow
    /\ UNCHANGED <<ckBounty, ckSettled>>
-----------------------------------------------------------------------------
(* The bounty meanwhile                                                     *)

\* Payments in the handler that the change may turn away.
CkDisturb(hit(_)) ==
    ckPress' = [q \in CkPresses |->
      [ckPress[q] EXCEPT !.calm = @ /\ ~ (InHandler(q) /\ hit(ckPress[q]))]]

EditFace(f) ==
    /\ Wanted(FALSE) /\ f # ckBounty.face
    /\ ckBounty' = [ckBounty EXCEPT !.face = f]
    /\ UNCHANGED <<ckEscrow, ckPress, ckSettled>>

\* Cancelled, expired, refunded or paid out.
EndBounty ==
    /\ ckBounty.st # "ended" /\ ~ ckBounty.deleted
    /\ ckBounty' = [ckBounty EXCEPT !.st = "ended"]
    /\ CkDisturb(LAMBDA q : TRUE)
    /\ UNCHANGED <<ckEscrow, ckSettled>>

\* softDeleteBounty refuses while the escrow is funded.
DeleteBounty ==
    /\ ckBounty.st # "funded" /\ ~ ckBounty.deleted
    /\ ckBounty' = [ckBounty EXCEPT !.deleted = TRUE, !.st = "ended"]
    /\ CkDisturb(LAMBDA q : q.topUp)
    /\ UNCHANGED <<ckEscrow, ckSettled>>

\* The winning merge closes the top-ups.
CloseTopUps ==
    /\ ckBounty.st = "funded" /\ ckBounty.open
    /\ ckBounty' = [ckBounty EXCEPT !.open = FALSE]
    /\ CkDisturb(LAMBDA q : q.topUp)
    /\ UNCHANGED <<ckEscrow, ckSettled>>
-----------------------------------------------------------------------------
CheckoutNext ==
    \/ \E p \in CkPresses :
         \/ \E price \in CkFaces : SignChallenge(p, price)
         \/ PressPay(p) \/ NoChallenge(p) \/ AnsweredUnpaid(p)
         \/ AnswerLost(p) \/ LockInbound(p) \/ LockFails(p)
         \/ PostPayment(p) \/ PostToDeleted(p) \/ PostRefused(p) \/ SettlePayment(p) \/ SettleRefused(p)
         \/ SettledUnanswered(p) \/ RecordInbound(p) \/ WriteInbound(p) \/ ApplyTopUp(p)
    \/ \E f \in CkFaces : EditFace(f)
    \/ EndBounty \/ DeleteBounty \/ CloseTopUps

CheckoutSpec == CheckoutInit /\ [][CheckoutNext]_ckVars
-----------------------------------------------------------------------------
CkKept(p) == p \in {ckEscrow.hash, ckEscrow.noted} \cup ckEscrow.credited

\* A payment for a deleted bounty had its place in fail_reason taken by a later
\* one, which is named there, next to the hash that the row keeps.
Displaced(p) ==
    /\ ckPress[p].gone
    /\ ckEscrow.hash # CkNone /\ ckEscrow.noted \notin {p, CkNone}

\* Money that a wallet was made to pay is on the record: once the handler has
\* ended, a payment that settled is the recorded hash, a contribution, or named in
\* fail_reason, although the payer signed against a challenge that others may have
\* answered since.  It is lost only when two payments were in the handler
\* together, the bounty ended or closed around it, the facilitator's answer
\* failed (inbound.ts:160, x402-http.ts:202), or it came third to a deleted bounty
\* (inbound.ts:82).  And a panel that says paid is right: the top-up is credited,
\* or a payment is recorded to lock.
SettledIsKept ==
    /\ \A p \in ckSettled :
         InHandler(p) \/ CkKept(p) \/ Displaced(p) \/ ~ ckPress[p].calm
    /\ \A p \in CkPresses : ckPress[p].told = "paid" =>
         IF ckPress[p].topUp THEN p \in ckEscrow.credited ELSE ckEscrow.hash # CkNone

\* What the comments say of a deleted bounty: "A settled payment is recorded for
\* review" (x402-http.ts:77), "Keep the transaction on the escrow"
\* (inbound.ts:48).  Stated of payments handled one after the other.  It is not so: the
\* second of three is displaced.
DeletedInboundKept ==
    \A p \in ckSettled :
      ckPress[p].gone /\ ckPress[p].calm /\ ~ InHandler(p) => CkKept(p)
=============================================================================
