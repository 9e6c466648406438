----------------------------- MODULE ApiGateway -----------------------------
(***************************************************************************)
(* What an API key may do (src/apps/web/src/api/access/handlers.ts, reached *)
(* over REST, http.ts, and as MCP tools, mcp-tools.ts).  A user makes keys   *)
(* with scopes; a call takes owner and scopes of its key when it is          *)
(* authenticated and keeps them, checks its scope and the state of the        *)
(* bounty, and hands over to the service, which reads that state again.      *)
(*                                                                         *)
(* ApiAccess has the spend caps and the Idempotency-Key of the paying calls, *)
(* Settlement the inside of a refund and of a claim: both are one step here. *)
(***************************************************************************)
EXTENDS FiniteSets

CONSTANTS
    GwPoster, GwHunter,    \* who posted the bounty, who wrote the merged pull request
    GwKeys,                \* api_keys rows
    GwGrants,              \* bound: scope lists that are asked for
    GwCalls                \* calls that can be in flight together

Scopes == {"read", "write", "money", "admin"}

ASSUME GatewayAssumption ==
    GwPoster # GwHunter /\ GwGrants \subseteq SUBSET Scopes

VARIABLES
    gwUser,      \* saved wallet, GitHub link, and being on ADMIN_EMAILS
    gwKey,       \* api_keys
    gwBounty,    \* status of the bounty and of the claim on it
    gwCall,      \* calls in flight
    gwMoved      \* history: the calls that moved money

gwVars == <<gwUser, gwKey, gwBounty, gwCall, gwMoved>>
-----------------------------------------------------------------------------
GwUsers == {GwPoster, GwHunter}

\* The handlers by what they do: read something of the owner's, list contacts,
\* hand over to the one operation of a draft, signal, submission or profile, and
\* the three that end in a payment.
GwOps == {"read", "contacts", "write", "cancel", "claim", "refund"}

ScopeOf(op) ==
    CASE op = "read" -> "read" [] op = "contacts" -> "admin"
      [] op \in {"write", "cancel"} -> "write"
      [] op \in {"claim", "refund"} -> "money"

GwBountyStatus == {"pending_fund", "funded", "cancelled", "refunded", "settled"}
GwClaimStatus == {"none", "eligible", "paid"}

GatewayCall ==
    [pc: {"run", "perform"}, op: GwOps, owner: GwUsers, scopes: SUBSET Scopes,
     saw: GwBountyStatus]      \* the status that the handler has read
NoGatewayCall == [pc |-> "idle"]

GatewayTypeOK ==
    /\ gwUser \in [GwUsers -> [wallet: BOOLEAN, github: BOOLEAN, admin: BOOLEAN]]
    /\ gwKey \in [GwKeys -> [st: {"none", "live", "revoked"}, owner: GwUsers,
                             scopes: SUBSET Scopes]]
    /\ gwBounty \in [st: GwBountyStatus, claim: GwClaimStatus]
    /\ gwCall \in [GwCalls -> GatewayCall \cup {NoGatewayCall}]
    /\ gwMoved \subseteq [op: GwOps, scopes: SUBSET Scopes, saw: GwBountyStatus]

GatewayInit ==
    /\ gwUser \in [GwUsers -> [wallet: BOOLEAN, github: {TRUE}, admin: BOOLEAN]]
    /\ gwKey = [k \in GwKeys |-> [st |-> "none", owner |-> GwPoster, scopes |-> {}]]
    /\ gwBounty = [st |-> "pending_fund", claim |-> "none"]
    /\ gwCall = [c \in GwCalls |-> NoGatewayCall]
    /\ gwMoved = {}

GwAt(c, pc, ops) == gwCall[c].pc = pc /\ gwCall[c].op \in ops
GwDone(c) == gwCall' = [gwCall EXCEPT ![c] = NoGatewayCall]
-----------------------------------------------------------------------------
(* The Settings page, and what others do to the bounty                      *)

MoneyGate(u) == gwUser[u].wallet /\ gwUser[u].github

\* createApiKey
CreateKey(u, k, scopes) ==
    /\ gwKey[k].st = "none" /\ scopes # {}
    /\ "admin" \in scopes => gwUser[u].admin
    /\ "money" \in scopes => MoneyGate(u)
    /\ gwKey' = [gwKey EXCEPT ![k] = [st |-> "live", owner |-> u, scopes |-> scopes]]
    /\ UNCHANGED <<gwUser, gwBounty, gwCall, gwMoved>>

\* revokeApiKey.  A call that is in flight goes on.
RevokeKey(k) ==
    /\ gwKey[k].st = "live"
    /\ gwKey' = [gwKey EXCEPT ![k].st = "revoked"]
    /\ UNCHANGED <<gwUser, gwBounty, gwCall, gwMoved>>

DisconnectGithub(u) ==
    /\ gwUser[u].github
    /\ gwUser' = [gwUser EXCEPT ![u].github = FALSE]
    /\ UNCHANGED <<gwKey, gwBounty, gwCall, gwMoved>>

\* lockEscrowFunds on behalf of a page or another key.
DraftFunded ==
    /\ gwBounty.st = "pending_fund"
    /\ gwBounty' = [gwBounty EXCEPT !.st = "funded"]
    /\ UNCHANGED <<gwUser, gwKey, gwCall, gwMoved>>

\* The merge makes the claim of the hunter eligible.
PullMerged ==
    /\ gwBounty = [st |-> "funded", claim |-> "none"]
    /\ gwBounty' = [gwBounty EXCEPT !.claim = "eligible"]
    /\ UNCHANGED <<gwUser, gwKey, gwCall, gwMoved>>
-----------------------------------------------------------------------------
(* Calls with a key                                                         *)

\* authenticateBearer: the principal of the call is the row as it is now.
Authenticate(c, k, op) ==
    /\ gwCall[c] = NoGatewayCall
    /\ gwKey[k].st = "live"
    /\ gwCall' = [gwCall EXCEPT ![c] =
         [pc |-> "run", op |-> op, owner |-> gwKey[k].owner, scopes |-> gwKey[k].scopes,
          saw |-> gwBounty.st]]
    /\ UNCHANGED <<gwUser, gwKey, gwBounty, gwMoved>>

\* requireScope; for contacts the owner must be an administrator now.
Scoped(q) ==
    /\ ScopeOf(q.op) \in q.scopes
    /\ q.op = "contacts" => gwUser[q.owner].admin

\* handleCancel, inside withIdempotency.
CancelOpen_Funded(q) == q.owner = GwPoster
CancelOpen(q) == q.owner = GwPoster /\ gwBounty.st = "pending_fund"

\* requireMoneyReady, then authorizeClaimCaller for a winner.
ClaimOpen(q) ==
    MoneyGate(q.owner) /\ q.owner = GwHunter /\ gwBounty.claim \in {"eligible", "paid"}

\* requireMoneyReady, then handleRefund.
RefundOpen(q) ==
    MoneyGate(q.owner) /\ q.owner = GwPoster /\ gwBounty.st # "pending_fund"

Admissible(q) ==
    /\ Scoped(q)
    /\ q.op = "cancel" => CancelOpen(q)
    /\ q.op = "claim" => ClaimOpen(q)
    /\ q.op = "refund" => RefundOpen(q)

\* What is read about the bounty lets the call go on to the service.
AdmitCall(c) ==
    /\ GwAt(c, "run", {"cancel", "claim", "refund"}) /\ Admissible(gwCall[c])
    /\ gwCall' = [gwCall EXCEPT ![c].pc = "perform", ![c].saw = gwBounty.st]
    /\ UNCHANGED <<gwUser, gwKey, gwBounty, gwMoved>>

\* A call that reads, or that hands over to one operation of another module.
AnswerCall(c) ==
    /\ GwAt(c, "run", {"read", "contacts", "write"}) /\ Admissible(gwCall[c])
    /\ GwDone(c)
    /\ UNCHANGED <<gwUser, gwKey, gwBounty, gwMoved>>

RefuseCall(c) ==
    /\ GwAt(c, "run", GwOps) /\ ~ Admissible(gwCall[c])
    /\ GwDone(c)
    /\ UNCHANGED <<gwUser, gwKey, gwBounty, gwMoved>>

MovedBy(q) == [op |-> q.op, scopes |-> q.scopes, saw |-> q.saw]

\* refundEscrow, for performRefund and for cancelUnfunded: it reads the status
\* again, voids a draft and pays a funded bounty back.
RefundEscrow(c) ==
    /\ GwAt(c, "perform", {"cancel", "refund"})
    /\ CASE gwBounty.st = "pending_fund" ->
              /\ gwBounty' = [gwBounty EXCEPT !.st = "cancelled"]
              /\ UNCHANGED gwMoved
         [] gwBounty.st = "funded" ->
              /\ gwBounty' = [gwBounty EXCEPT !.st = "refunded"]
              /\ gwMoved' = gwMoved \cup {MovedBy(gwCall[c])}
         [] OTHER -> UNCHANGED <<gwBounty, gwMoved>>
    /\ GwDone(c)
    /\ UNCHANGED <<gwUser, gwKey>>

\* performClaim: the saved wallet, the link and the claim are read again.
PerformClaim(c) ==
    LET q == gwCall[c]
    IN  /\ GwAt(c, "perform", {"claim"})
        /\ IF ClaimOpen(q) /\ gwBounty = [st |-> "funded", claim |-> "eligible"]
           THEN /\ gwBounty' = [st |-> "settled", claim |-> "paid"]
                /\ gwMoved' = gwMoved \cup {MovedBy(q)}
           ELSE UNCHANGED <<gwBounty, gwMoved>>
        /\ GwDone(c)
        /\ UNCHANGED <<gwUser, gwKey>>

\* The instance dies.
GatewayDies(c) ==
    /\ gwCall[c] # NoGatewayCall
    /\ GwDone(c)
    /\ UNCHANGED <<gwUser, gwKey, gwBounty, gwMoved>>
-----------------------------------------------------------------------------
GatewayNext ==
    \/ \E k \in GwKeys, u \in GwUsers, scopes \in GwGrants : CreateKey(u, k, scopes)
    \/ \E k \in GwKeys : RevokeKey(k)
    \/ \E u \in GwUsers : DisconnectGithub(u)
    \/ DraftFunded \/ PullMerged
    \/ \E c \in GwCalls :
         \/ \E k \in GwKeys, op \in GwOps : Authenticate(c, k, op)
         \/ AnswerCall(c) \/ AdmitCall(c) \/ RefuseCall(c)
         \/ RefundEscrow(c) \/ PerformClaim(c) \/ GatewayDies(c)

GatewaySpec == GatewayInit /\ [][GatewayNext]_gwVars
-----------------------------------------------------------------------------
\* A funded bounty is cancelled with a key of the money scope (handlers.ts:642).
\* Money moves for another key only when the draft that its cancel had read as
\* unfunded was funded before refundEscrow read it again.
MoneyNeedsMoneyScope ==
    \A m \in gwMoved : "money" \in m.scopes \/ m.saw = "pending_fund"
=============================================================================
