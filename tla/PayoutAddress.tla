--------------------------- MODULE PayoutAddress ---------------------------
(***************************************************************************)
(* Where the winner's and a pool member's money goes                        *)
(* (src/apps/web/src/claims/payout.ts, escrow/destination-guard.ts and the   *)
(* claim handlers of api/access).  A claim from the website carries an       *)
(* address, a claim with an API key takes the saved wallet.  Both write it   *)
(* on the row that is claimed, and the settlement reads it from there: when  *)
(* it plans the leg, and again before it sends.  None of this is in a        *)
(* transaction, so two claims with two addresses run between its steps.      *)
(*                                                                         *)
(* Amounts, coverage and statuses are in Settlement.  The fee leg is here    *)
(* only because a claim is marked as paid when the fee has gone out too.     *)
(***************************************************************************)
EXTENDS Integers, FiniteSets

CONSTANTS
    Claims,          \* bound: claims that are made, each of them once
    Users, Hunter,   \* Hunter is the hunter_user_id of the winning claim
    Addresses,       \* Base addresses
    NoAddress, NoUser

ASSUME AddressAssumption ==
    Hunter \in Users /\ NoUser \notin Users /\ NoAddress \notin Addresses

VARIABLES
    daHub,       \* bounties.provider is "huggingface"
    daWallet,    \* users.wallet_address
    daLink,      \* who has linked which account (github_links, hf_links)
    daRow,       \* the claims row, and the frozen pool_participants row
    daLedger,    \* allocation_ledger
    daFee,       \* escrows.fee_tx_hash is set
    daSent,      \* the chain: the address the transfer of a leg went to
    daCall       \* claims in flight

daVars == <<daHub, daWallet, daLink, daRow, daLedger, daFee, daSent, daCall>>
-----------------------------------------------------------------------------
PaidLegs == {"winner", "pool"}

\* The winner's GitHub account, the member's, and the winner's Hugging Face one.
GithubAccounts == PaidLegs
Accounts == GithubAccounts \cup {"hub"}
Address == Addresses \cup {NoAddress}

\* payout_address, the user the row belongs to, and whether it has a hash.
PayeeRow == [user: Users \cup {NoUser}, addr: Address, paid: BOOLEAN]

LedgerLeg == [st: {"none", "pending", "submitted", "failed", "confirmed"},
              tx: BOOLEAN, to: Address]

ClaimPCs == {"idle", "done", "wallet", "load", "persist", "stamp", "settle", "plan",
             "guard", "send", "confirm", "finish"}

ClaimCall ==
    [pc: ClaimPCs, leg: PaidLegs, user: Users,
     addr: Address,                   \* payoutAddress of the claim
     persist: BOOLEAN,                \* persistWallet
     member: Users \cup {NoUser},     \* member.userId as read
     to: Address,                     \* the address of the leg as planned
     hunter: Address]                 \* hunter.address as read

NoClaim == [pc |-> "idle", leg |-> "winner", user |-> Hunter, addr |-> NoAddress,
            persist |-> FALSE, member |-> NoUser, to |-> NoAddress,
            hunter |-> NoAddress]
EndClaim(c) == daCall' = [daCall EXCEPT ![c] = [NoClaim EXCEPT !.pc = "done"]]
ClaimGoto(c, pc) == daCall' = [daCall EXCEPT ![c].pc = pc]

AddressTypeOK ==
    /\ daHub \in BOOLEAN
    /\ daWallet \in [Users -> Address]
    /\ daLink \in [Accounts -> Users \cup {NoUser}]
    /\ daRow \in [PaidLegs -> PayeeRow]
    /\ daLedger \in [PaidLegs -> LedgerLeg]
    /\ daFee \in BOOLEAN
    /\ daSent \in [PaidLegs -> Address]
    /\ daCall \in [Claims -> ClaimCall]

\* The merge has been processed: the claim is eligible and the roster frozen,
\* the member's row with or without a user.  "paid" is the address the winner
\* has been paid at already, if there is one.
AddressInit ==
    \E u \in Users \cup {NoUser}, saved, paid \in Address :
        /\ paid # NoAddress => saved # NoAddress
        /\ daHub \in BOOLEAN /\ (daHub => u = NoUser /\ paid = NoAddress)
        /\ daWallet = [v \in Users |-> saved]
        /\ daLink = [winner |-> Hunter,
                     pool |-> IF u = Hunter THEN NoUser ELSE u,
                     hub |-> IF daHub THEN Hunter ELSE NoUser]
        /\ daRow = [winner |-> [user |-> Hunter, addr |-> paid, paid |-> paid # NoAddress],
                    pool |-> [user |-> u, addr |-> NoAddress, paid |-> FALSE]]
        /\ daLedger = [l \in PaidLegs |->
              IF l = "winner" /\ paid # NoAddress
              THEN [st |-> "confirmed", tx |-> TRUE, to |-> paid]
              ELSE [st |-> "none", tx |-> FALSE, to |-> NoAddress]]
        /\ daFee = (paid # NoAddress)
        /\ daSent = [l \in PaidLegs |-> IF l = "winner" THEN paid ELSE NoAddress]
        /\ daCall = [c \in Claims |-> NoClaim]
-----------------------------------------------------------------------------
(* Accounts: the other parts of a user's row and links are in other modules *)

\* deleteGithubLinkByUserId, deleteHfLinkByUserId
UnlinkAccount(k) ==
    /\ daLink[k] # NoUser
    /\ daLink' = [daLink EXCEPT ![k] = NoUser]
    /\ UNCHANGED <<daHub, daWallet, daRow, daLedger, daFee, daSent, daCall>>

\* upsertGithubLink, upsertHfLink: an account has one user, and a user has one
\* account of each provider.
LinkAccount(k, u) ==
    /\ daLink[k] = NoUser
    /\ k = "hub" => daHub
    /\ LET provider == IF k = "hub" THEN {"hub"} ELSE GithubAccounts
       IN  daLink' = [j \in Accounts |->
              IF j = k THEN u
              ELSE IF j \in provider /\ daLink[j] = u THEN NoUser ELSE daLink[j]]
    /\ UNCHANGED <<daHub, daWallet, daRow, daLedger, daFee, daSent, daCall>>
-----------------------------------------------------------------------------
(* The three ways into a claim                                              *)

\* moneyGate of requireMoneyReady, for both providers.
MoneyReady(u) ==
    daWallet[u] # NoAddress /\ \E k \in GithubAccounts : daLink[k] = u

\* loadWinnerLeg or loadOwnPoolLeg: the row the key's owner would claim.
OwnLeg(l, u) ==
    IF l = "winner" THEN TRUE
    ELSE ~ daHub /\ (daRow["pool"].user = u \/ daLink["pool"] = u)

\* authorizeClaimCaller: the linked account must be the row's, and the row
\* the caller's.
MayClaim(l, u) ==
    /\ daLink[IF daHub THEN "hub" ELSE l] = u
    /\ daRow[l].user = u \/ (l = "pool" /\ daRow[l].user = NoUser)

\* handleClaim with the kind of a leg.  Its idempotency is in ApiAccess.
ClaimWithKey(c, l, u) ==
    /\ daCall[c].pc = "idle"
    /\ MoneyReady(u) /\ OwnLeg(l, u) /\ MayClaim(l, u)
    /\ daCall' = [daCall EXCEPT ![c] = [NoClaim EXCEPT !.pc = "wallet", !.leg = l, !.user = u]]
    /\ UNCHANGED <<daHub, daWallet, daLink, daRow, daLedger, daFee, daSent>>

\* performClaim: the saved wallet is read once more.
TakeWallet(c) ==
    LET q == daCall[c]
    IN  /\ q.pc = "wallet"
        /\ IF daWallet[q.user] = NoAddress THEN EndClaim(c)
           ELSE daCall' = [daCall EXCEPT ![c].pc = "load", ![c].addr = daWallet[q.user]]
        /\ UNCHANGED <<daHub, daWallet, daLink, daRow, daLedger, daFee, daSent>>

\* POST /api/bounties/[id]/claim of a signed-in user.
ClaimOnSite(c, l, u, a, persist) ==
    /\ daCall[c].pc = "idle"
    /\ daCall' = [daCall EXCEPT ![c] = [NoClaim EXCEPT !.pc = "load", !.leg = l,
                                          !.user = u, !.addr = a, !.persist = persist]]
    /\ UNCHANGED <<daHub, daWallet, daLink, daRow, daLedger, daFee, daSent>>

\* The poster settles the winner's share, without an address.
SettleByPoster(c) ==
    /\ daCall[c].pc = "idle"
    /\ daCall' = [daCall EXCEPT ![c] = [NoClaim EXCEPT !.pc = "settle"]]
    /\ UNCHANGED <<daHub, daWallet, daLink, daRow, daLedger, daFee, daSent>>
-----------------------------------------------------------------------------
(* claimPayout and claimPoolPayout                                          *)

\* resolvePoolMemberForActor and assertPoolMemberActor
OwnsMember(u) == daRow["pool"].user = u \/ daLink["pool"] = u

\* Refused when the row is not the caller's: loadClaimForPayout and not_hunter,
\* or the frozen row, which a Hugging Face bounty has none of.
OwnsRow(l, u) ==
    IF l = "winner" THEN daRow["winner"].user = u ELSE ~ daHub /\ OwnsMember(u)

LoadRow(c) ==
    LET q == daCall[c]
    IN  /\ q.pc = "load"
        /\ IF OwnsRow(q.leg, q.user)
           THEN daCall' = [daCall EXCEPT ![c].pc = IF q.persist THEN "persist" ELSE "stamp",
                                         ![c].member = daRow[q.leg].user]
           ELSE EndClaim(c)
        /\ UNCHANGED <<daHub, daWallet, daLink, daRow, daLedger, daFee, daSent>>

PersistWallet(c) ==
    LET q == daCall[c]
    IN  /\ q.pc = "persist"
        /\ daWallet' = [daWallet EXCEPT ![q.user] = q.addr]
        /\ ClaimGoto(c, "stamp")
        /\ UNCHANGED <<daHub, daLink, daRow, daLedger, daFee, daSent>>

\* payout_address is written whether or not the row is paid.
StampAddress(c) ==
    LET q == daCall[c]
    IN  /\ q.pc = "stamp"
        /\ daRow' = [daRow EXCEPT ![q.leg].addr = q.addr,
                       ![q.leg].user = IF q.member = NoUser THEN q.user ELSE q.member]
        /\ daCall' = [daCall EXCEPT ![c] =
              [NoClaim EXCEPT !.pc = "settle", !.leg = q.leg, !.user = q.user]]
        /\ UNCHANGED <<daHub, daWallet, daLink, daLedger, daFee, daSent>>
-----------------------------------------------------------------------------
(* settleEscrow                                                             *)

\* readStoredTransferDestination; resolveHunter and resolvePoolMemberAddress
\* read the same.
StoredAddress(l) ==
    IF daRow[l].addr # NoAddress THEN daRow[l].addr
    ELSE IF daRow[l].user = NoUser THEN NoAddress
    ELSE daWallet[daRow[l].user]

AllSettled == daLedger["winner"].tx /\ daFee /\ (daHub \/ daRow["pool"].paid)

\* assertSettleAuthorized, the idempotent return, resolveHunter and the
\* addresses of the plan.
PlanDestination(c) ==
    LET q == daCall[c]
    IN  /\ q.pc = "settle"
        /\ IF \/ q.leg = "pool" /\ (~ OwnsMember(q.user) \/ ~ daLedger["winner"].tx)
              \/ AllSettled
              \/ StoredAddress("winner") = NoAddress
           THEN EndClaim(c)
           ELSE daCall' = [daCall EXCEPT ![c] =
                   [NoClaim EXCEPT !.pc = "plan", !.leg = q.leg,
                                   !.to = StoredAddress(q.leg),
                                   !.hunter = StoredAddress("winner")]]
        /\ UNCHANGED <<daHub, daWallet, daLink, daRow, daLedger, daFee, daSent>>

SetLeg(l, st) == daLedger' = [daLedger EXCEPT ![l].st = st]

\* ensurePendingLegs; a leg that has a hash is not sent again, and one without
\* an address is deferred.
PlanLeg(c) ==
    LET q == daCall[c]
        leg == daLedger[q.leg]
    IN  /\ q.pc = "plan"
        /\ CASE leg.tx            -> ClaimGoto(c, "finish") /\ UNCHANGED daLedger
             [] ~ leg.tx /\ q.to = NoAddress -> EndClaim(c) /\ UNCHANGED daLedger
             [] OTHER -> /\ ClaimGoto(c, "guard")
                         /\ daLedger' = [daLedger EXCEPT ![q.leg] =
                              [@ EXCEPT !.st = "submitted",
                                        !.to = IF leg.st = "none" THEN q.to ELSE leg.to]]
        /\ UNCHANGED <<daHub, daWallet, daLink, daRow, daFee, daSent>>

\* A leg that failed ends the claim of the winner; the error of a pool leg goes
\* on to the end of the settlement, where nothing of it is paid.
FailLeg(c) ==
    /\ SetLeg(daCall[c].leg, "failed")
    /\ EndClaim(c)
    /\ UNCHANGED <<daHub, daWallet, daLink, daRow, daFee, daSent>>

\* releaseUsdcIfMatch: the address must still be the stored one.
CheckDestination(c) ==
    LET q == daCall[c]
    IN  /\ q.pc = "guard"
        /\ IF StoredAddress(q.leg) = q.to
           THEN /\ ClaimGoto(c, "send")
                /\ UNCHANGED <<daHub, daWallet, daLink, daRow, daLedger, daFee, daSent>>
           ELSE FailLeg(c)

\* The rail keeps the leg's idempotency key.  It answers a repeated call with
\* the first transfer, and refuses one to another address.
Release(c) ==
    LET q == daCall[c]
    IN  /\ q.pc = "send"
        /\ daSent[q.leg] \in {NoAddress, q.to}
        /\ daSent' = [daSent EXCEPT ![q.leg] = q.to]
        /\ ClaimGoto(c, "confirm")
        /\ UNCHANGED <<daHub, daWallet, daLink, daRow, daLedger, daFee>>

ReleaseFails(c) == daCall[c].pc = "send" /\ FailLeg(c)

\* markLegConfirmed, with the escrow's hash or markPoolParticipantPaid.
ConfirmDestination_Stored(c) ==
    LET q == daCall[c]
    IN  /\ q.pc = "confirm"
        /\ daLedger' = [daLedger EXCEPT ![q.leg] =
              [st |-> "confirmed", tx |-> TRUE, to |-> StoredAddress(q.leg)]]
        /\ daRow' = IF q.leg = "pool"
                    THEN [daRow EXCEPT !["pool"].addr = q.to, !["pool"].paid = TRUE]
                    ELSE daRow
        /\ ClaimGoto(c, "finish")
        /\ UNCHANGED <<daHub, daWallet, daLink, daFee, daSent>>

ConfirmDestination(c) ==
    LET q == daCall[c]
    IN  /\ q.pc = "confirm"
        /\ daLedger' = [daLedger EXCEPT ![q.leg] =
              [st |-> "confirmed", tx |-> TRUE, to |-> q.to]]
        /\ daRow' = IF q.leg = "pool"
                    THEN [daRow EXCEPT !["pool"].addr = q.to, !["pool"].paid = TRUE]
                    ELSE daRow
        /\ ClaimGoto(c, "finish")
        /\ UNCHANGED <<daHub, daWallet, daLink, daFee, daSent>>

\* The fee leg of a winner's claim may fail, then its claim stays eligible.
\* The transaction that ends a settlement writes the hunter's address as read.
FinishClaim(c, fee) ==
    LET q == daCall[c]
    IN  /\ q.pc = "finish"
        /\ fee => q.leg = "winner"
        /\ daFee' = (daFee \/ fee)
        /\ daRow' = IF daFee' THEN [daRow EXCEPT !["winner"].addr = q.hunter,
                                                 !["winner"].paid = TRUE]
                    ELSE daRow
        /\ EndClaim(c)
        /\ UNCHANGED <<daHub, daWallet, daLink, daLedger, daSent>>

ClaimDies(c) ==
    /\ daCall[c].pc \notin {"idle", "done"}
    /\ EndClaim(c)
    /\ UNCHANGED <<daHub, daWallet, daLink, daRow, daLedger, daFee, daSent>>
-----------------------------------------------------------------------------
ClaimStep(c) ==
    \/ \E l \in PaidLegs, u \in Users :
          \/ ClaimWithKey(c, l, u)
          \/ \E a \in Addresses, persist \in BOOLEAN : ClaimOnSite(c, l, u, a, persist)
    \/ SettleByPoster(c) \/ TakeWallet(c) \/ LoadRow(c) \/ PersistWallet(c)
    \/ StampAddress(c) \/ PlanDestination(c) \/ PlanLeg(c) \/ CheckDestination(c)
    \/ Release(c) \/ ReleaseFails(c) \/ ConfirmDestination(c)
    \/ \E fee \in BOOLEAN : FinishClaim(c, fee)
    \/ ClaimDies(c)

AddressNext ==
    \/ \E c \in Claims : ClaimStep(c)
    \/ \E k \in Accounts : UnlinkAccount(k) \/ \E u \in Users : LinkAccount(k, u)

AddressSpec == AddressInit /\ [][AddressNext]_daVars
-----------------------------------------------------------------------------
(* Properties                                                               *)

\* The ledger names the address the chain paid, although two claims with two
\* addresses may overtake each other anywhere (markLegConfirmed): what is
\* recorded is the address of the transfer, not the one stored by then.
LedgerWherePaid ==
    \A l \in PaidLegs : daLedger[l].tx => daLedger[l].to = daSent[l]

\* listClaims and claimLegDestination: the address shown with a claim.
ShownDestination(l) ==
    IF daRow[l].addr # NoAddress THEN daRow[l].addr
    ELSE IF daRow[l].user = NoUser THEN NoAddress ELSE daWallet[daRow[l].user]

\* "Address a claim leg was paid to" (api/access/claim-leg.ts): what is shown
\* with a paid claim, no claim being in flight, is where its money went.  It is not so
\* when a claim that was paid is made again with another address.
PaidWhereShown ==
    \A l \in PaidLegs :
        daRow[l].paid /\ (\A c \in Claims : daCall[c].pc \in {"idle", "done"})
            => ShownDestination(l) = daSent[l]
=============================================================================
