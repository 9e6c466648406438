---------------------------- MODULE FeeWithdraw ----------------------------
(***************************************************************************)
(* An administrator withdraws the collected fees                           *)
(* (src/apps/web/src/admin/withdraw.ts).  A preview mints a confirm token;  *)
(* executing it claims the withdrawal in one transaction that takes an      *)
(* advisory lock on the fee wallet, then sends the transfer once and marks  *)
(* the row with what became of it.  Between those steps another             *)
(* administrator may execute another token, and the process may die.        *)
(*                                                                         *)
(* An order is an amount to a destination on the service's network.  The    *)
(* clock counts token lives (5 minutes).                                    *)
(***************************************************************************)
EXTENDS Integers, FiniteSets

CONSTANTS
    Requests,      \* executeFeeWithdraw calls that can be in flight together
    Tokens,        \* confirm tokens, one per preview
    Orders,        \* amount and destination of a withdrawal
    Errors,        \* what a transfer may throw (see SendThrows)
    TokenLife,     \* how long a token can be used
    Window,        \* WITHDRAW_DUPLICATE_WINDOW_MS
    MaxClock,      \* bound: the clock
    MaxDbErrors    \* bound: status writes that fail in a behaviour

ASSUME WithdrawAssumption ==
    /\ TokenLife \in Nat \ {0} /\ Window \in Nat
    /\ MaxClock \in Nat /\ MaxDbErrors \in Nat
    /\ Errors \subseteq {"rejection", "transport", "unlisted"}

VARIABLES
    token,     \* withdraw_confirm_tokens
    row,       \* fee_withdrawals, at most one row per token
    sent,      \* the chain: how often the transfer of a token has moved
    req,       \* executeFeeWithdraw in flight
    clock, dbErrors,
    misled     \* history: tokens of which the code took something else for a rejection

vars == <<token, row, sent, req, clock, dbErrors, misled>>
-----------------------------------------------------------------------------
Token == [order: Orders, expires: Nat, used: BOOLEAN]

Status == {"none", "pending", "ok", "failed", "unknown"}
Row == [status: Status, created: Nat, again: BOOLEAN]
NoRow == [status |-> "none", created |-> 0, again |-> FALSE]

\* pc "mark" is the status write inside the try, "catch" the one in its catch.
Request == [pc: {"claim", "send", "mark", "catch"}, token: Tokens, now: Nat,
            again: BOOLEAN, outcome: Status]
Idle == [pc |-> "idle"]

Minted == DOMAIN token

TypeOK ==
    /\ Minted \subseteq Tokens /\ token \in [Minted -> Token]
    /\ row \in [Tokens -> Row]
    /\ sent \in [Tokens -> Nat]
    /\ req \in [Requests -> Request \cup {Idle}]
    /\ clock \in Nat /\ dbErrors \in Nat
    /\ misled \subseteq Tokens

Init ==
    /\ token = [t \in {} |-> {}]
    /\ row = [t \in Tokens |-> NoRow]
    /\ sent = [t \in Tokens |-> 0]
    /\ req = [r \in Requests |-> Idle]
    /\ clock = 0 /\ dbErrors = 0
    /\ misled = {}
-----------------------------------------------------------------------------
(* previewFeeWithdraw                                                       *)

Preview(t, o) ==
    /\ t \notin Minted
    /\ token' = [u \in Minted \cup {t} |->
         IF u = t THEN [order |-> o, expires |-> clock + TokenLife, used |-> FALSE]
         ELSE token[u]]
    /\ UNCHANGED <<row, sent, req, clock, dbErrors, misled>>
-----------------------------------------------------------------------------
(* executeFeeWithdraw                                                       *)

\* readWithdrawToken checks the signature and the expiry it carries; accounts
\* and balance are read next.  "now" is the time of this step for good.
Execute(r, t, again) ==
    /\ req[r] = Idle
    /\ t \in Minted
    /\ clock < token[t].expires
    /\ req' = [req EXCEPT ![r] = [pc |-> "claim", token |-> t, now |-> clock,
                                  again |-> again, outcome |-> "none"]]
    /\ UNCHANGED <<token, row, sent, clock, dbErrors, misled>>

\* A withdrawal whose transfer may still move, or may have moved.
InFlight_PendingOnly == {t \in Tokens : row[t].status = "pending"}
InFlight_Nothing == {}
InFlight == {t \in Tokens : row[t].status \in {"pending", "unknown"}}

\* The same order was sent in the window that ends when the request began.
RecentDuplicate(q) ==
    \E t \in Minted : /\ row[t].status = "ok"
                      /\ token[t].order = token[q.token].order
                      /\ row[t].created > q.now - Window

Claimable_Reusable(q) ==
    /\ token[q.token].expires > q.now
    /\ InFlight = {}
    /\ q.again \/ ~ RecentDuplicate(q)

Claimable(q) ==
    /\ ~ token[q.token].used
    /\ token[q.token].expires > q.now
    /\ InFlight = {}
    /\ q.again \/ ~ RecentDuplicate(q)

\* claimFeeWithdraw: the token is consumed and the row inserted before the
\* send, in one transaction under the advisory lock of the wallet.
Claim(r) ==
    LET q == req[r]
    IN  /\ q # Idle /\ q.pc = "claim"
        /\ Claimable(q)
        /\ token' = [token EXCEPT ![q.token].used = TRUE]
        /\ row' = [row EXCEPT ![q.token] =
             [status |-> "pending", created |-> q.now, again |-> q.again]]
        /\ req' = [req EXCEPT ![r].pc = "send"]
        /\ UNCHANGED <<sent, clock, dbErrors, misled>>

ClaimRefused(r) ==
    /\ req[r] # Idle /\ req[r].pc = "claim"
    /\ ~ Claimable(req[r])
    /\ req' = [req EXCEPT ![r] = Idle]
    /\ UNCHANGED <<token, row, sent, clock, dbErrors, misled>>

Reply(r, pc, outcome) == req' = [req EXCEPT ![r].pc = pc, ![r].outcome = outcome]

\* sendUsdcTransfer answers with a hash.
SendOk(r) ==
    /\ req[r] # Idle /\ req[r].pc = "send"
    /\ sent' = [sent EXCEPT ![req[r].token] = @ + 1]
    /\ Reply(r, "mark", "ok")
    /\ UNCHANGED <<token, row, clock, dbErrors, misled>>

\* It answers without a hash, the transfer having moved or not.
SendNoHash(r, moved) ==
    /\ req[r] # Idle /\ req[r].pc = "send"
    /\ sent' = [sent EXCEPT ![req[r].token] = @ + moved]
    /\ Reply(r, "mark", "unknown")
    /\ UNCHANGED <<token, row, clock, dbErrors, misled>>

\* classifyFeeTransferFailure looks for the words of a broken transport in the
\* message of an error; every other message is taken for a rejection.
FailureStatus_NoSuchStatus(error) == IF error = "transport" THEN "unknown" ELSE "error"
FailureStatus_AlwaysFailed(error) == "failed"
FailureStatus(error) == IF error = "transport" THEN "unknown" ELSE "failed"

\* It throws.  A rejection moves nothing.  A broken transport tells nothing, nor
\* does an error whose message is not listed, such as a gateway's answer to a
\* transfer that was broadcast: that one is taken for a rejection.
SendThrows(r, error, moved) ==
    /\ req[r] # Idle /\ req[r].pc = "send"
    /\ error = "rejection" => moved = 0
    /\ sent' = [sent EXCEPT ![req[r].token] = @ + moved]
    /\ misled' = misled \cup {t \in {req[r].token} : error = "unlisted"}
    /\ Reply(r, "catch", FailureStatus(error))
    /\ UNCHANGED <<token, row, clock, dbErrors>>

\* markWithdrawal
Mark(r) ==
    /\ req[r] # Idle /\ req[r].pc \in {"mark", "catch"}
    /\ row' = [row EXCEPT ![req[r].token].status = req[r].outcome]
    /\ req' = [req EXCEPT ![r] = Idle]
    /\ UNCHANGED <<token, sent, clock, dbErrors, misled>>

\* The status write fails, on the database's word or on a broken connection.
\* Inside the try its error is classified like an error of the transfer, which is
\* over by then; in the catch it ends the call.
MarkFails(r, error) ==
    /\ req[r] # Idle /\ req[r].pc \in {"mark", "catch"}
    /\ dbErrors < MaxDbErrors
    /\ dbErrors' = dbErrors + 1
    /\ IF req[r].pc = "mark"
       THEN /\ Reply(r, "catch", FailureStatus(error))
            /\ misled' = misled \cup {t \in {req[r].token} : error = "database"}
       ELSE /\ req' = [req EXCEPT ![r] = Idle]
            /\ UNCHANGED misled
    /\ UNCHANGED <<token, row, sent, clock>>

\* The process dies.
Crash(r) ==
    /\ req[r] # Idle
    /\ req' = [req EXCEPT ![r] = Idle]
    /\ UNCHANGED <<token, row, sent, clock, dbErrors, misled>>

Tick ==
    /\ clock < MaxClock
    /\ clock' = clock + 1
    /\ UNCHANGED <<token, row, sent, req, dbErrors, misled>>
-----------------------------------------------------------------------------
Next ==
    \/ \E t \in Tokens, o \in Orders : Preview(t, o)
    \/ \E r \in Requests :
         \/ \E t \in Tokens, again \in BOOLEAN : Execute(r, t, again)
         \/ Claim(r) \/ ClaimRefused(r) \/ SendOk(r)
         \/ \E moved \in {0, 1} :
              \/ SendNoHash(r, moved)
              \/ \E error \in Errors : SendThrows(r, error, moved)
         \/ \E error \in {"database", "transport"} : MarkFails(r, error)
         \/ Mark(r) \/ Crash(r)
    \/ Tick

Spec == Init /\ [][Next]_vars
-----------------------------------------------------------------------------
(* Properties                                                               *)

\* A confirm token moves money at most once, however many calls present it
\* and wherever they die (claimFeeWithdraw consumes it before the send).
OneTransferPerToken == \A t \in Tokens : sent[t] <= 1

\* Two requests begun within the window never both send the same order unless
\* the later row was confirmed with sendAgain (README.md:77).
Within(t, u) == row[t].created <= row[u].created /\ row[u].created < row[t].created + Window
RepeatsSilently(t, u) ==
    /\ t # u /\ sent[t] > 0 /\ sent[u] > 0
    /\ token[t].order = token[u].order
    /\ Within(t, u)
    /\ ~ row[t].again /\ ~ row[u].again
NoSilentRepeat == \A t, u \in Minted : ~ RepeatsSilently(t, u)

\* The same, whatever dies, fails or is lost, for all withdrawals but those of
\* which the code took an error for a rejection that was none: the guard of
\* claimFeeWithdraw looks at rows that say "ok", and these say "failed".
NoSilentRepeatUnlessMisled ==
    \A t, u \in Minted \ misled : ~ RepeatsSilently(t, u)

\* What the comment on classifyFeeTransferFailure says (withdraw.ts:92): a thrown
\* transfer is a known rejection unless the transport did not tell.  It is not so for
\* an error whose text is on no list.
FailedIsRejected == \A t \in Tokens : row[t].status = "failed" => sent[t] = 0

\* While nobody knows whether a transfer moved, nothing else leaves the fee
\* wallet: the next withdrawal waits for a person to reconcile the row.
UnknownStopsTheWallet ==
    [][(\E t \in Tokens : row[t].status = "unknown") => sent' = sent]_vars

\* What the fee wallet's history says is what the chain did: "ok" rows moved
\* once, and a "failed" row did not, unless its error was taken for a rejection
\* and was none: an error of the transfer that the regex of withdraw.ts:36 does
\* not list, or one of the write that followed it.
StatusMatchesChain ==
    \A t \in Tokens :
        /\ row[t].status = "ok" => sent[t] = 1
        /\ row[t].status = "failed" => sent[t] = 0 \/ t \in misled
-----------------------------------------------------------------------------
(* The inductive invariant behind the four properties; the proofs are in    *)
(* WithdrawProofs.                                                          *)

Consumed(t) == t \in Minted /\ token[t].used
Claimed(r) == req[r] # Idle /\ req[r].pc # "claim"

\* What a request that has claimed its withdrawal knows: the row is its own and
\* still pending, before the send nothing moved, and afterwards the outcome it
\* will write is what happened unless an error misled it.
RequestKnows(r) ==
    LET q == req[r]
    IN  /\ Consumed(q.token)
        /\ row[q.token].status = "pending"
        /\ q.pc = "send" => sent[q.token] = 0
        /\ q.pc # "send" =>
             /\ q.outcome \in {"ok", "failed", "unknown"}
             /\ q.outcome = "ok" => sent[q.token] = 1
             /\ q.outcome = "failed" => sent[q.token] = 0 \/ q.token \in misled

\* Two withdrawals of one order that may both have moved are a window apart
\* unless the second was confirmed.
Apart(t, u) ==
    /\ row[t].status \notin {"none", "failed"} /\ row[u].status \notin {"none", "failed"}
    /\ token[t].order = token[u].order
    /\ Within(t, u)
    => row[t].again \/ row[u].again

\* The tokens with a row are the consumed ones; the others moved nothing.
UnusedIsClean ==
    \A t \in Tokens : /\ Consumed(t) <=> row[t].status # "none"
                      /\ ~ Consumed(t) => sent[t] = 0
OneInFlight == \A t, u \in InFlight : t = u
TokensMinted == \A r \in Requests : req[r] # Idle => req[r].token \in Minted
ClaimedKnow == \A r \in Requests : Claimed(r) => RequestKnows(r)
OneClaimed == \A r, s \in Requests : Claimed(r) /\ Claimed(s) => r = s
OrdersApart == \A t, u \in Minted \ misled : t # u => Apart(t, u)

WithdrawInv ==
    /\ UnusedIsClean
    /\ OneInFlight
    /\ TokensMinted
    /\ ClaimedKnow
    /\ OneClaimed
    /\ OneTransferPerToken
    /\ StatusMatchesChain
    /\ OrdersApart
=============================================================================
