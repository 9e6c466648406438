----------------------------- MODULE ApiAccess -----------------------------
(***************************************************************************)
(* The write side of the public API with one money key                      *)
(* (src/apps/web/src/api/access): a call is authenticated, looks its        *)
(* Idempotency-Key up, writes a placeholder, is checked against the key's    *)
(* spend caps, reserves the spend, settles an x402 payment, hands it to the  *)
(* escrow and stores its response.  Nothing of it is in a transaction, so    *)
(* calls run between any two of these steps and may die there.              *)
(*                                                                         *)
(* The facilitator and the escrow are seen through what a call gets back:   *)
(* the module Funding has the other side.  Every try of a paying caller      *)
(* signs a new payment.                                                    *)
(***************************************************************************)
EXTENDS Integers, FiniteSets, FiniteSetsExt

CONSTANTS
    ApiCalls,        \* HTTP calls that can be in flight at the same time
    IdemKeys,        \* Idempotency-Key values
    SpendRows,       \* bound: the rows of api_spend_ledger
    Nil,             \* stands for no row and for no key
    Face,            \* what funding the draft costs
    TopUps,          \* amounts of a top-up
    PerTxCeiling, DailyCeiling,    \* spendCeilings of the network
    LastDay          \* bound: UTC days

ASSUME ApiAssumption ==
    /\ Nil \notin SpendRows \cup IdemKeys /\ IsFiniteSet(SpendRows)
    /\ Face \in Nat \ {0} /\ TopUps \subseteq Nat \ {0}
    /\ PerTxCeiling \in Nat /\ DailyCeiling \in Nat
    /\ LastDay \in Nat

VARIABLES
    apiKey,       \* the api_keys row: its status and caps
    apiBounty,    \* the bounty that is paid for
    apiIdem,      \* api_idempotency_keys
    apiSpend,     \* api_spend_ledger, and what the chain did for a row
    apiCall,      \* calls in flight
    apiDay,       \* the UTC day
    apiHoles      \* history: keys whose protection a known hole has undone

apiVars == <<apiKey, apiBounty, apiIdem, apiSpend, apiCall, apiDay, apiHoles>>
-----------------------------------------------------------------------------
Days == 0 .. LastDay
Amounts == {Face} \cup TopUps
PayOps == {"fund", "top_up"}

\* Response statuses: 0 is a placeholder, 400 any refusal but 402.
Statuses == {0, 200, 400, 402}

IdemRow == [used: BOOLEAN,
            op: PayOps \cup {"cancel"}, amount: Nat,    \* requestHash
            status: Statuses,
            live: BOOLEAN]       \* expires_at is in the future
NoIdem == [used |-> FALSE, op |-> "cancel", amount |-> 0, status |-> 0,
           live |-> FALSE]

SpendRow == [st: {"none", "reserved", "recorded", "failed"},
             key: IdemKeys \cup {Nil}, amount: Nat, day: Days,
             moved: BOOLEAN,     \* the payment settled on the chain
             late: BOOLEAN]      \* re-checked on a later day than created_at

ApiPCs == {"idle", "save", "quote", "reserve", "recheck", "settle", "deliver",
           "record", "store"}

ApiCallRecord ==
    [pc: ApiPCs, op: PayOps \cup {"cancel"}, key: IdemKeys \cup {Nil},
     amount: Nat,               \* amountUsdc
     body: Nat,                 \* amountUsdc of the request body, none is 0
     pay: BOOLEAN,              \* PAYMENT-SIGNATURE is present
     live: BOOLEAN,             \* expiresAt of the placeholder
     gone: BOOLEAN,             \* bounty.deletedAt as read
     row: SpendRows \cup {Nil},
     status: Statuses]

NoCall == [pc |-> "idle", op |-> "cancel", key |-> Nil, amount |-> 0, body |-> 0,
           pay |-> FALSE, live |-> FALSE, gone |-> FALSE, row |-> Nil,
           status |-> 0]
Hangup(c) == apiCall' = [apiCall EXCEPT ![c] = NoCall]
CallGoto(c, pc) == apiCall' = [apiCall EXCEPT ![c].pc = pc]

\* The call has its response and goes on to store it.
Respond(c, status) ==
    apiCall' = [apiCall EXCEPT ![c].pc = "store", ![c].status = status]

ApiTypeOK ==
    /\ apiKey \in [st: {"none", "live", "revoked"}, perTx: Nat, daily: Nat]
    /\ apiBounty \in [st: {"pending_fund", "funded", "cancelled"}, gone: BOOLEAN,
                      inbound: BOOLEAN]   \* fund_tx_hash is set
    /\ apiIdem \in [IdemKeys -> IdemRow]
    /\ apiSpend \in [SpendRows -> SpendRow]
    /\ apiCall \in [ApiCalls -> ApiCallRecord]
    /\ apiDay \in Days
    /\ apiHoles \subseteq IdemKeys

ApiInit ==
    /\ apiKey = [st |-> "none", perTx |-> 0, daily |-> 0]
    /\ apiBounty = [st |-> "pending_fund", gone |-> FALSE, inbound |-> FALSE]
    /\ apiIdem = [k \in IdemKeys |-> NoIdem]
    /\ apiSpend = [i \in SpendRows |->
         [st |-> "none", key |-> Nil, amount |-> 0, day |-> 0, moved |-> FALSE,
          late |-> FALSE]]
    /\ apiCall = [c \in ApiCalls |-> NoCall]
    /\ apiDay = 0
    /\ apiHoles = {}
-----------------------------------------------------------------------------
(* createApiKey and revokeApiKey                                            *)

\* assertCapsAtOrBelow
CreateApiKey(perTx, daily) ==
    /\ apiKey.st = "none"
    /\ perTx > 0 /\ perTx <= PerTxCeiling
    /\ daily >= perTx /\ daily <= DailyCeiling
    /\ apiKey' = [st |-> "live", perTx |-> perTx, daily |-> daily]
    /\ UNCHANGED <<apiBounty, apiIdem, apiSpend, apiCall, apiDay, apiHoles>>

\* Calls that were authenticated before go on.  Bound: only the lookup reads
\* the status, so the key is revoked between calls.
RevokeApiKey ==
    /\ apiKey.st = "live"
    /\ \A c \in ApiCalls : apiCall[c].pc = "idle"
    /\ apiKey' = [apiKey EXCEPT !.st = "revoked"]
    /\ UNCHANGED <<apiBounty, apiIdem, apiSpend, apiCall, apiDay, apiHoles>>
-----------------------------------------------------------------------------
(* withIdempotency                                                         *)

\* decideIdempotency: the call may run.  In every other case it is answered
\* from the row, or refused, and changes nothing.
Proceeds(row, op, body, pay) ==
    \/ ~ row.used \/ ~ row.live
    \/ row.op = op /\ row.amount = body /\ row.status = 402 /\ pay

\* authenticateBearer and requireMoneyReady, then the lookup.
LookUp(c, op, k, body, pay) ==
    /\ apiCall[c].pc = "idle"
    /\ apiKey.st = "live"
    /\ body # 0 <=> op = "top_up"
    /\ pay => op \in PayOps
    /\ Proceeds(apiIdem[k], op, body, pay)
    /\ apiCall' = [apiCall EXCEPT ![c] =
         [NoCall EXCEPT !.pc = "save", !.op = op, !.key = k, !.body = body, !.pay = pay,
                           !.live = apiIdem[k].used => apiIdem[k].live]]
    /\ apiHoles' = IF \E d \in ApiCalls \ {c} :
                         apiCall[d].pc = "save" /\ apiCall[d].key = k
                   THEN apiHoles \cup {k} ELSE apiHoles
    /\ UNCHANGED <<apiKey, apiBounty, apiIdem, apiSpend, apiDay>>

SaveIdempotency(q, status) ==
    apiIdem' = [apiIdem EXCEPT ![q.key] =
        [used |-> TRUE, op |-> q.op, amount |-> q.body, status |-> status,
         live |-> q.live]]

SavePlaceholder(c) ==
    /\ apiCall[c].pc = "save"
    /\ SaveIdempotency(apiCall[c], 0)
    /\ CallGoto(c, "quote")
    /\ UNCHANGED <<apiKey, apiBounty, apiSpend, apiDay, apiHoles>>

\* What ran has answered or thrown: both are stored for replay.
StoreResponse(c) ==
    LET q == apiCall[c]
    IN  /\ q.pc = "store"
        /\ SaveIdempotency(q, q.status)
        /\ apiHoles' = IF q.status = 402 /\ q.row # Nil /\ apiSpend[q.row].moved
                       THEN apiHoles \cup {q.key} ELSE apiHoles
        /\ Hangup(c)
        /\ UNCHANGED <<apiKey, apiBounty, apiSpend, apiDay>>
-----------------------------------------------------------------------------
(* settleAndLock                                                           *)

\* sumOpenSpend since utcDayStart
Counted(row) == row.st \in {"reserved", "recorded"}
SpendOf(rows) ==
    LET amount == [i \in SpendRows |-> apiSpend[i].amount]
    IN  MapThenSumSet(LAMBDA i : amount[i], rows)
OpenSpend(day) ==
    SpendOf({i \in SpendRows : Counted(apiSpend[i]) /\ apiSpend[i].day >= day})

\* The guards of fund and of top_up, which a deleted bounty skips when the call
\* carries a payment.
Payable(q) ==
    IF apiBounty.gone THEN q.pay
    ELSE apiBounty.st = IF q.op = "fund" THEN "pending_fund" ELSE "funded"
AmountOf(q) == IF q.op = "top_up" THEN q.body ELSE Face

\* assertSpendWithinCaps over what has been spent so far.
WithinCaps(amount) ==
    amount <= apiKey.perTx /\ OpenSpend(apiDay) + amount <= apiKey.daily

\* Refused, challenged with a 402, or on to the reservation.
Quote(c) ==
    LET q == apiCall[c]
    IN  /\ q.pc = "quote" /\ q.op \in PayOps
        /\ CASE ~ Payable(q) \/ ~ WithinCaps(AmountOf(q)) -> Respond(c, 400)
             [] Payable(q) /\ WithinCaps(AmountOf(q)) /\ ~ q.pay -> Respond(c, 402)
             [] OTHER -> apiCall' = [apiCall EXCEPT ![c].pc = "reserve",
                                        ![c].amount = AmountOf(q),
                                        ![c].gone = apiBounty.gone]
        /\ UNCHANGED <<apiKey, apiBounty, apiIdem, apiSpend, apiDay, apiHoles>>

\* insertSpend
Reserve(c, i) ==
    LET q == apiCall[c]
    IN  /\ q.pc = "reserve"
        /\ apiSpend[i].st = "none"
        /\ apiSpend' = [apiSpend EXCEPT ![i] =
             [st |-> "reserved", key |-> q.key, amount |-> q.amount, day |-> apiDay,
              moved |-> FALSE, late |-> FALSE]]
        /\ apiCall' = [apiCall EXCEPT ![c].pc = "recheck", ![c].row = i]
        /\ UNCHANGED <<apiKey, apiBounty, apiIdem, apiDay, apiHoles>>

SetSpend(i, st) == apiSpend' = [apiSpend EXCEPT ![i].st = st]

\* The sum is taken again with the reservation in it.
Recheck_None(c) ==
    /\ apiCall[c].pc = "recheck"
    /\ CallGoto(c, "settle")
    /\ UNCHANGED <<apiKey, apiBounty, apiIdem, apiSpend, apiDay, apiHoles>>

Recheck(c) ==
    LET i == apiCall[c].row
    IN  /\ apiCall[c].pc = "recheck"
        /\ IF OpenSpend(apiDay) > apiKey.daily
           THEN /\ SetSpend(i, "failed")
                /\ Respond(c, 400)
           ELSE /\ apiSpend' = [apiSpend EXCEPT ![i].late = apiDay > apiSpend[i].day]
                /\ CallGoto(c, "settle")
        /\ UNCHANGED <<apiKey, apiBounty, apiIdem, apiDay, apiHoles>>

\* liveSeller: the facilitator settles the payment ...
SettlePayment(c) ==
    /\ apiCall[c].pc = "settle"
    /\ apiSpend' = [apiSpend EXCEPT ![apiCall[c].row].moved = TRUE]
    /\ CallGoto(c, "deliver")
    /\ UNCHANGED <<apiKey, apiBounty, apiIdem, apiDay, apiHoles>>

\* ... or it challenges, refuses or throws ...
PaymentRefused(c, status) ==
    /\ apiCall[c].pc = "settle"
    /\ status \in {400, 402}
    /\ SetSpend(apiCall[c].row, "failed")
    /\ Respond(c, status)
    /\ UNCHANGED <<apiKey, apiBounty, apiIdem, apiDay, apiHoles>>

\* ... which looks the same when it has settled and its answer is lost.
PaidUnseen(row) == [row EXCEPT !.st = "failed", !.moved = TRUE]

AnswerLost(c, status) ==
    /\ apiCall[c].pc = "settle"
    /\ status \in {400, 402}
    /\ apiSpend' = [apiSpend EXCEPT ![apiCall[c].row] = PaidUnseen(apiSpend[apiCall[c].row])]
    /\ Respond(c, status)
    /\ UNCHANGED <<apiKey, apiBounty, apiIdem, apiDay, apiHoles>>

\* recordInbound with lockFunds, or topUp, took the payment.
Accepts(q) ==
    /\ ~ q.gone /\ ~ apiBounty.gone
    /\ IF q.op = "fund"
       THEN apiBounty.st = "pending_fund" /\ ~ apiBounty.inbound
       ELSE apiBounty.st = "funded"

DeliverPayment(c) ==
    LET q == apiCall[c]
    IN  /\ q.pc = "deliver"
        /\ Accepts(q)
        /\ apiBounty' = IF q.op = "fund"
                        THEN [apiBounty EXCEPT !.st = "funded", !.inbound = TRUE]
                        ELSE apiBounty
        /\ CallGoto(c, "record")
        /\ UNCHANGED <<apiKey, apiIdem, apiSpend, apiDay, apiHoles>>

\* recordExactInbound took it, lockEscrowFunds threw.
InboundOnly(c) ==
    LET q == apiCall[c]
    IN  /\ q.pc = "deliver"
        /\ q.op = "fund" /\ Accepts(q)
        /\ apiBounty' = [apiBounty EXCEPT !.inbound = TRUE]
        /\ SetSpend(q.row, "failed")
        /\ Respond(c, 400)
        /\ UNCHANGED <<apiKey, apiIdem, apiDay, apiHoles>>

\* The bounty was deleted: recordExactInbound holds the payment for review.
HeldForReview(c) ==
    LET q == apiCall[c]
    IN  /\ q.pc = "deliver"
        /\ apiBounty.gone /\ (q.gone \/ q.op = "fund")
        /\ apiBounty' = [apiBounty EXCEPT !.inbound = TRUE]
        /\ SetSpend(q.row, "failed")
        /\ Respond(c, 400)
        /\ UNCHANGED <<apiKey, apiIdem, apiDay, apiHoles>>

\* The money has moved and the escrow does not take it.  Another hash recorded
\* for the draft, or a payer who is not the sender, has the code of a failed
\* settlement and with it the status 402.
DeliveryRefused(c, status) ==
    LET q == apiCall[c]
    IN  /\ q.pc = "deliver"
        /\ ~ apiBounty.gone \/ (q.op = "top_up" /\ ~ q.gone)
        /\ \/ status = 400 /\ (q.op = "top_up" \/ apiBounty.st # "pending_fund")
           \/ status = 402 /\ (Accepts(q) \/ (q.op = "fund" /\ apiBounty.st = "pending_fund"))
        /\ SetSpend(q.row, "failed")
        /\ Respond(c, status)
        /\ UNCHANGED <<apiKey, apiBounty, apiIdem, apiDay, apiHoles>>

\* updateSpend; when it throws the row is marked as failed.
RecordSpend(c) ==
    /\ apiCall[c].pc = "record"
    /\ SetSpend(apiCall[c].row, "recorded")
    /\ Respond(c, 200)
    /\ UNCHANGED <<apiKey, apiBounty, apiIdem, apiDay, apiHoles>>

RecordSpendFails(c) ==
    /\ apiCall[c].pc = "record"
    /\ SetSpend(apiCall[c].row, "failed")
    /\ Respond(c, 400)
    /\ UNCHANGED <<apiKey, apiBounty, apiIdem, apiDay, apiHoles>>

\* handleCancel: refundEscrow of a draft.
CancelDraft(c) ==
    /\ apiCall[c].pc = "quote" /\ apiCall[c].op = "cancel"
    /\ IF ~ apiBounty.gone /\ apiBounty.st = "pending_fund"
       THEN apiBounty' = [apiBounty EXCEPT !.st = "cancelled"] /\ Respond(c, 200)
       ELSE UNCHANGED apiBounty /\ Respond(c, 400)
    /\ UNCHANGED <<apiKey, apiIdem, apiSpend, apiDay, apiHoles>>
-----------------------------------------------------------------------------
(* What the environment does                                                *)

\* The process dies, or the database throws where nothing catches it.
CallDies(c) ==
    /\ apiCall[c].pc # "idle"
    /\ Hangup(c)
    /\ UNCHANGED <<apiKey, apiBounty, apiIdem, apiSpend, apiDay, apiHoles>>

\* softDeleteBounty of what holds no funds.  Bound: when a call that pays is
\* about to read the bounty.
DeleteBounty ==
    /\ ~ apiBounty.gone /\ apiBounty.st # "funded"
    /\ \E c \in ApiCalls : apiCall[c].pay /\ apiCall[c].pc \in {"quote", "deliver"}
    /\ apiBounty' = [apiBounty EXCEPT !.gone = TRUE, !.st = "cancelled"]
    /\ UNCHANGED <<apiKey, apiIdem, apiSpend, apiCall, apiDay, apiHoles>>

\* Bound: the day turns while every call is about to be checked again; at other
\* times the new day only starts again from an empty sum.
Midnight ==
    /\ apiDay < LastDay
    /\ \A c \in ApiCalls : apiCall[c].pc = "recheck"
    /\ apiDay' = apiDay + 1
    /\ UNCHANGED <<apiKey, apiBounty, apiIdem, apiSpend, apiCall, apiHoles>>

\* 24 hours after the first call with a key, longer than any call lasts.
\* Bound: of interest for a key that has moved money.
IdempotencyExpires(k) ==
    /\ \E i \in SpendRows : apiSpend[i].key = k /\ apiSpend[i].moved
    /\ apiIdem[k].used /\ apiIdem[k].live
    /\ \A c \in ApiCalls : apiCall[c].pc # "idle" => apiCall[c].key # k
    /\ apiIdem' = [apiIdem EXCEPT ![k].live = FALSE]
    /\ UNCHANGED <<apiKey, apiBounty, apiSpend, apiCall, apiDay, apiHoles>>
-----------------------------------------------------------------------------
ApiStep(c) ==
    \/ \E op \in PayOps \cup {"cancel"}, k \in IdemKeys, body \in TopUps \cup {0},
          pay \in BOOLEAN : LookUp(c, op, k, body, pay)
    \/ SavePlaceholder(c) \/ Quote(c) \/ CancelDraft(c)
    \/ \E i \in SpendRows : Reserve(c, i)
    \/ Recheck(c) \/ SettlePayment(c) \/ DeliverPayment(c) \/ InboundOnly(c)
    \/ HeldForReview(c)
    \/ \E status \in {400, 402} :
         PaymentRefused(c, status) \/ AnswerLost(c, status) \/ DeliveryRefused(c, status)
    \/ RecordSpend(c) \/ RecordSpendFails(c) \/ StoreResponse(c) \/ CallDies(c)

ApiNext ==
    \/ \E perTx \in 1 .. PerTxCeiling, daily \in 1 .. DailyCeiling : CreateApiKey(perTx, daily)
    \/ RevokeApiKey
    \/ \E c \in ApiCalls : ApiStep(c)
    \/ DeleteBounty \/ Midnight
    \/ \E k \in IdemKeys : IdempotencyExpires(k)

ApiSpec == ApiInit /\ [][ApiNext]_apiVars
-----------------------------------------------------------------------------
(* Properties                                                               *)

\* What a key moves in a UTC day stays within its daily cap, although calls
\* that run together all pass the first check: the reservation is written
\* before the second (settleAndLock).  Not counted, because the code does not:
\* payments that settled and then failed, and payments checked after midnight
\* for a row dated before it.
DailyCapHolds ==
    \A day \in Days :
        SpendOf({i \in SpendRows : /\ Counted(apiSpend[i]) /\ apiSpend[i].moved
                                   /\ apiSpend[i].day = day /\ ~ apiSpend[i].late})
          <= apiKey.daily

\* One Idempotency-Key moves money once, whatever dies or fails in between
\* (withIdempotency), except through three holes: two calls that both looked
\* the key up before either wrote its placeholder, a key older than 24 hours,
\* and a payment that settled and was answered with the status 402.
PaidOncePerKey ==
    \A i, j \in SpendRows :
        /\ i # j /\ apiSpend[i].moved /\ apiSpend[j].moved
        /\ apiSpend[i].key = apiSpend[j].key
        /\ apiIdem[apiSpend[i].key].live
        => apiSpend[i].key \in apiHoles

\* What an agent may spend: once per request it repeats, and no more than its key's
\* daily cap (handlers.ts:352 and 842).
SpendsOnceWithinCap == PaidOncePerKey /\ DailyCapHolds
=============================================================================
