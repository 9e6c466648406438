---------------------------- MODULE MergeDelivery ----------------------------
(***************************************************************************)
(* What one merged pull request does to the claims of its author            *)
(* (src/apps/web/src/webhooks and bounties/public-merge-poller.ts).  The     *)
(* merge arrives under several delivery ids: the GUID GitHub signs, which   *)
(* may be redelivered, and the id the poller of public repositories makes   *)
(* up.  A handler marks a claim eligible for every funded issue the merge    *)
(* closes and then records what became of each; an author who is not        *)
(* connected yet is found again by the backfill that runs after Connect     *)
(* GitHub.  None of it is in a transaction.                                 *)
(*                                                                         *)
(* The pool freeze that runs between marking and recording reads nothing     *)
(* the handler wrote and swallows its errors: PoolFreeze models it, and a    *)
(* duplicate delivery, which only freezes, is no step of this module.        *)
(***************************************************************************)
EXTENDS Integers, FiniteSets

CONSTANTS
    Issues,         \* issues with a bounty that the pull request closes
    Deliveries,     \* ids under which the merge is delivered
    Handlers,       \* calls that run at the same time
    NoneId          \* stands for no delivery and no issue

ASSUME DeliveryAssumption == NoneId \notin Deliveries \cup Issues

VARIABLES
    mdPublic,     \* the ids that are publicMergeDeliveryId, at most one
    mdBounty,     \* status of the bounty of each issue
    mdRepo,       \* the repos row: connection_kind and is_active
    mdLink,       \* the author has a github_links row
    mdClaim,      \* the claim of this pull request on each bounty
    mdDelivery,   \* webhook_deliveries
    mdHandler,    \* calls in flight
    mdMissed      \* history: deliveries recorded too late for the backfill

mdVars == <<mdPublic, mdBounty, mdRepo, mdLink, mdClaim, mdDelivery, mdHandler, mdMissed>>
-----------------------------------------------------------------------------
\* "funded" stands for FUNDED_BOUNTY_STATUSES, "closed" for all that follow.
BountyStatuses == {"draft", "funded", "closed"}
\* "inactive": the App was removed; the row is kept as a public reference.
RepoKinds == {"public_reference", "app_install", "inactive"}
ClaimStatuses == {"none", "eligible", "paid"}

\* CLAIM_SKIP; "unset" is an issue without a result.
Outcomes == {"unset", "claimed", "claim_terminal", "no_funded_bounty",
             "hunter_not_linked", "repo_not_connected"}
NoResults == [i \in Issues |-> "unset"]

DeliveryRow == [seen: BOOLEAN, eligible: BOOLEAN, results: [Issues -> Outcomes]]
NoDeliveryRow == [seen |-> FALSE, eligible |-> FALSE, results |-> NoResults]

HandlerRecord ==
    [pc: {"idle", "scan", "next", "repo", "hunter", "bounty", "claim", "write", "record"},
     job: {"delivery", "backfill"},
     id: Deliveries \cup {NoneId},
     existing: BOOLEAN,                  \* the row was there when it was read
     eligible: BOOLEAN,                  \* evaluateEligibility
     hunter: BOOLEAN,                    \* findHunter found the author
     todo: SUBSET Issues,
     issue: Issues \cup {NoneId},
     read: ClaimStatuses,                \* the claim as it was read
     results: [Issues -> Outcomes],
     batch: SUBSET Deliveries,           \* rows the backfill has still to do
     snap: [Deliveries -> [Issues -> Outcomes]]]    \* and as it read them
HandlerIdle == [pc |-> "idle", job |-> "delivery", id |-> NoneId, existing |-> FALSE,
                eligible |-> FALSE, hunter |-> FALSE, todo |-> {}, issue |-> NoneId,
                read |-> "none", results |-> NoResults, batch |-> {},
                snap |-> [d \in Deliveries |-> NoResults]]

MergeTypeOK ==
    /\ mdPublic \subseteq Deliveries
    /\ mdBounty \in [Issues -> BountyStatuses]
    /\ mdRepo \in RepoKinds
    /\ mdLink \in BOOLEAN
    /\ mdClaim \in [Issues -> ClaimStatuses]
    /\ mdDelivery \in [Deliveries -> DeliveryRow]
    /\ mdHandler \in [Handlers -> HandlerRecord]
    /\ mdMissed \subseteq Deliveries

MergeInit ==
    /\ mdPublic \in {{}} \cup {{d} : d \in Deliveries}
    /\ mdBounty \in [Issues -> {"draft", "funded"}]
    /\ mdRepo \in {"public_reference", "app_install"}
    /\ mdLink \in BOOLEAN
    /\ mdClaim = [i \in Issues |-> "none"]
    /\ mdDelivery = [d \in Deliveries |-> NoDeliveryRow]
    /\ mdHandler = [h \in Handlers |-> HandlerIdle]
    /\ mdMissed = {}

HandlerGoto(h, pc) == mdHandler' = [mdHandler EXCEPT ![h].pc = pc]
HandlerEnds(h) == mdHandler' = [mdHandler EXCEPT ![h] = HandlerIdle]
HandlerOnly == UNCHANGED <<mdPublic, mdBounty, mdRepo, mdLink, mdClaim, mdDelivery, mdMissed>>
-----------------------------------------------------------------------------
(* processDelivery                                                          *)

\* A result that names a claim: hasSuccessfulClaimWrite.
Written(outcome) == outcome \in {"claimed", "claim_terminal"}

ShouldRetryClaimWrites(row) ==
    row.eligible /\ \A i \in Issues : ~ Written(row.results[i])

\* The poller only looks at public references with a funded bounty.
PollSees == /\ mdRepo # "app_install"
            /\ \E i \in Issues : mdBounty[i] = "funded"

\* A delivery that is new or has written no claim yet.  The evaluation of a
\* signed one asks GitHub for the closing issues and goes on without them when
\* that fails; the poller hands over eligible merges alone.
Receive(h, d, eligible) ==
    LET row == mdDelivery[d]
    IN  /\ mdHandler[h].pc = "idle"
        /\ d \in mdPublic => PollSees /\ eligible
        /\ row.seen => ShouldRetryClaimWrites(row)
        /\ mdHandler' = [mdHandler EXCEPT ![h] =
             [HandlerIdle EXCEPT !.pc = IF eligible THEN "repo" ELSE "record",
                                 !.id = d, !.existing = row.seen,
                                 !.eligible = eligible,
                                 !.todo = IF eligible THEN Issues ELSE {}]]
        /\ HandlerOnly

\* updateDeliveryOutcome for a row that was read, else recordDeliveryIfNew.
StoreRow(h) ==
    LET d == mdHandler[h].id
        new == [seen |-> TRUE, eligible |-> mdHandler[h].eligible,
                results |-> mdHandler[h].results]
    IN  IF mdHandler[h].existing \/ ~ mdDelivery[d].seen
        THEN [mdDelivery EXCEPT ![d] = new] ELSE mdDelivery

Unlinked(results) == \E i \in Issues : results[i] = "hunter_not_linked"

\* A backfill other than h that has still to write this row, or to read it.
Coming(d, others) ==
    \E g \in others :
        /\ mdHandler[g].job = "backfill"
        /\ mdHandler[g].pc = "scan" \/ d \in mdHandler[g].batch \/ mdHandler[g].id = d

MissedNow(h) ==
    LET d == mdHandler[h].id
    IN  IF mdLink /\ Unlinked(mdHandler[h].results) /\ ~ Coming(d, Handlers \ {h})
        THEN mdMissed \cup {d} ELSE mdMissed

RecordDelivery(h) ==
    /\ mdHandler[h].pc = "record" /\ mdHandler[h].job = "delivery"
    /\ mdDelivery' = StoreRow(h)
    /\ mdMissed' = MissedNow(h)
    /\ HandlerEnds(h)
    /\ UNCHANGED <<mdPublic, mdBounty, mdRepo, mdLink, mdClaim>>
-----------------------------------------------------------------------------
(* markEligibleClaims, for a delivery and for the backfill                  *)

\* The results of the issues in S are known; the rest goes on.
Settles(h, S, outcome) ==
    LET rest == mdHandler[h].todo \ S
    IN  mdHandler' = [mdHandler EXCEPT ![h] =
          [@ EXCEPT !.pc = IF rest = {} THEN "record" ELSE "bounty",
                    !.todo = rest, !.issue = NoneId, !.read = "none",
                    !.results = [i \in Issues |-> IF i \in S THEN outcome
                                                  ELSE mdHandler[h].results[i]]]]

FindRepo(h) ==
    /\ mdHandler[h].pc = "repo"
    /\ IF mdRepo = "inactive"
       THEN Settles(h, mdHandler[h].todo, "repo_not_connected")
       ELSE HandlerGoto(h, "hunter")
    /\ HandlerOnly

FindHunter(h) ==
    /\ mdHandler[h].pc = "hunter"
    /\ mdHandler' = [mdHandler EXCEPT ![h].pc = "bounty", ![h].hunter = mdLink]
    /\ HandlerOnly

FindBounty(h, i) ==
    /\ mdHandler[h].pc = "bounty" /\ i \in mdHandler[h].todo
    /\ CASE mdBounty[i] # "funded" -> Settles(h, {i}, "no_funded_bounty")
         [] mdBounty[i] = "funded" /\ ~ mdHandler[h].hunter ->
              Settles(h, {i}, "hunter_not_linked")
         [] OTHER -> mdHandler' = [mdHandler EXCEPT ![h].pc = "claim", ![h].issue = i]
    /\ HandlerOnly

\* TERMINAL_CLAIM_STATUSES: what has been paid is not marked again.
TerminalClaim_None(status) == FALSE
TerminalClaim(status) == status = "paid"

FindClaim(h) ==
    LET i == mdHandler[h].issue
    IN  /\ mdHandler[h].pc = "claim"
        /\ IF TerminalClaim(mdClaim[i])
           THEN Settles(h, {i}, "claim_terminal")
           ELSE mdHandler' = [mdHandler EXCEPT ![h].pc = "write", ![h].read = mdClaim[i]]
        /\ HandlerOnly

\* The update names the row by its id; the insert fails on the unique index
\* when the claim has come into being since.
WriteClaim(h) ==
    LET i == mdHandler[h].issue
    IN  /\ mdHandler[h].pc = "write"
        /\ mdHandler[h].read = "none" => mdClaim[i] = "none"
        /\ mdClaim' = [mdClaim EXCEPT ![i] = "eligible"]
        /\ Settles(h, {i}, "claimed")
        /\ UNCHANGED <<mdPublic, mdBounty, mdRepo, mdLink, mdDelivery, mdMissed>>

\* That error, any other one, or the end of the process: nothing is recorded.
\* A backfill is not run again by anybody.
HandlerFails(h) ==
    /\ mdHandler[h].pc # "idle"
    /\ HandlerEnds(h)
    /\ mdMissed' = IF mdHandler[h].job = "delivery" THEN mdMissed
                   ELSE IF mdHandler[h].pc = "scan" THEN Deliveries
                   ELSE mdMissed \cup mdHandler[h].batch \cup ({mdHandler[h].id} \ {NoneId})
    /\ UNCHANGED <<mdPublic, mdBounty, mdRepo, mdLink, mdClaim, mdDelivery>>
-----------------------------------------------------------------------------
(* Connect GitHub: upsertGithubLink, then backfillUnlinkedClaimsForHunter    *)

Connect(h) ==
    /\ mdHandler[h].pc = "idle"
    /\ mdLink' = TRUE
    /\ mdHandler' = [mdHandler EXCEPT ![h] =
         [HandlerIdle EXCEPT !.pc = "scan", !.job = "backfill"]]
    /\ UNCHANGED <<mdPublic, mdBounty, mdRepo, mdClaim, mdDelivery, mdMissed>>

PendingRow(d) == mdDelivery[d].eligible /\ Unlinked(mdDelivery[d].results)

Scan(h) ==
    LET pending == {d \in Deliveries : PendingRow(d)}
    IN  /\ mdHandler[h].pc = "scan"
        /\ mdHandler' = [mdHandler EXCEPT ![h] =
             IF pending = {} THEN HandlerIdle
             ELSE [@ EXCEPT !.pc = "next", !.batch = pending,
                            !.snap = [d \in Deliveries |-> mdDelivery[d].results]]]
        /\ mdMissed' = mdMissed \ pending
        /\ UNCHANGED <<mdPublic, mdBounty, mdRepo, mdLink, mdClaim, mdDelivery>>

NextPending(h, d) ==
    LET rows == mdHandler[h].snap[d]
    IN  /\ mdHandler[h].pc = "next" /\ d \in mdHandler[h].batch
        /\ mdHandler' = [mdHandler EXCEPT ![h] =
             [@ EXCEPT !.pc = "repo", !.id = d, !.batch = mdHandler[h].batch \ {d}, !.eligible = TRUE,
                       !.results = rows, !.existing = TRUE,
                       !.todo = {i \in Issues : rows[i] = "hunter_not_linked"}]]
        /\ HandlerOnly

BackfillGoesOn(h) ==
    mdHandler' = [mdHandler EXCEPT ![h] =
        IF @.batch = {} THEN HandlerIdle
        ELSE [HandlerIdle EXCEPT !.pc = "next", !.job = "backfill",
                                 !.batch = mdHandler[h].batch,
                                 !.snap = mdHandler[h].snap]]

\* The new results are merged into the rows as the backfill had read them.
MergedResults_Unsaved(h) == mdDelivery
MergedResults(h) == [mdDelivery EXCEPT ![mdHandler[h].id].results = mdHandler[h].results]

RecordBackfill(h) ==
    /\ mdHandler[h].pc = "record" /\ mdHandler[h].job = "backfill"
    /\ mdDelivery' = MergedResults(h)
    /\ mdMissed' = MissedNow(h)
    /\ BackfillGoesOn(h)
    /\ UNCHANGED <<mdPublic, mdBounty, mdRepo, mdLink, mdClaim>>
-----------------------------------------------------------------------------
(* What other parts do                                                      *)

\* unlinkGithubForUser
Disconnect ==
    /\ mdLink /\ mdLink' = FALSE
    /\ UNCHANGED <<mdPublic, mdBounty, mdRepo, mdClaim, mdDelivery, mdHandler, mdMissed>>

\* deactivateReposForInstallation, for a signed installation event
Uninstall ==
    /\ mdRepo = "app_install" /\ mdRepo' = "inactive"
    /\ UNCHANGED <<mdPublic, mdBounty, mdLink, mdClaim, mdDelivery, mdHandler, mdMissed>>

\* upsertInstallationRepos
Install ==
    /\ mdRepo # "app_install" /\ mdRepo' = "app_install"
    /\ UNCHANGED <<mdPublic, mdBounty, mdLink, mdClaim, mdDelivery, mdHandler, mdMissed>>

\* upsertPublicReferenceRepo: a poster names the repository in a new bounty.
Reference ==
    /\ mdRepo = "inactive" /\ mdRepo' = "public_reference"
    /\ UNCHANGED <<mdPublic, mdBounty, mdLink, mdClaim, mdDelivery, mdHandler, mdMissed>>

Fund(i) ==
    /\ mdBounty[i] = "draft"
    /\ mdBounty' = [mdBounty EXCEPT ![i] = "funded"]
    /\ UNCHANGED <<mdPublic, mdRepo, mdLink, mdClaim, mdDelivery, mdHandler, mdMissed>>

\* The winner is settled, or the bounty is refunded or cancelled.
PayWinner(i) ==
    /\ mdClaim[i] = "eligible" /\ mdBounty[i] = "funded"
    /\ mdClaim' = [mdClaim EXCEPT ![i] = "paid"]
    /\ mdBounty' = [mdBounty EXCEPT ![i] = "closed"]
    /\ UNCHANGED <<mdPublic, mdRepo, mdLink, mdDelivery, mdHandler, mdMissed>>

CloseUnpaid(i) ==
    /\ mdBounty[i] # "closed"
    /\ mdBounty' = [mdBounty EXCEPT ![i] = "closed"]
    /\ UNCHANGED <<mdPublic, mdRepo, mdLink, mdClaim, mdDelivery, mdHandler, mdMissed>>
-----------------------------------------------------------------------------
HandlerStep(h) ==
    \/ \E d \in Deliveries, eligible \in BOOLEAN : Receive(h, d, eligible)
    \/ \E d \in Deliveries : NextPending(h, d)
    \/ \E i \in Issues : FindBounty(h, i)
    \/ FindRepo(h) \/ FindHunter(h) \/ FindClaim(h) \/ WriteClaim(h)
    \/ RecordDelivery(h) \/ RecordBackfill(h) \/ HandlerFails(h)
    \/ Connect(h) \/ Scan(h)

MergeNext ==
    \/ \E h \in Handlers : HandlerStep(h)
    \/ \E i \in Issues : Fund(i) \/ PayWinner(i) \/ CloseUnpaid(i)
    \/ Disconnect \/ Uninstall \/ Install \/ Reference

MergeSpec == MergeInit /\ [][MergeNext]_mdVars
-----------------------------------------------------------------------------
(* Properties                                                               *)

\* An author who is connected is not left waiting for Connect GitHub: a row
\* that says so is one a backfill is about to rewrite, unless it was recorded
\* from a lookup made before the link and after the backfill had read the
\* rows, or the backfill failed (backfillUnlinkedClaimsForHunter).
BackfillReaches ==
    \A d \in Deliveries :
        mdLink /\ PendingRow(d) /\ d \notin mdMissed => Coming(d, Handlers)

\* A paid claim is marked eligible again only by a handler that had read it
\* before it was paid: redeliveries, the poller and the backfill leave it.
PaidClaimStays ==
    [][\A i \in Issues : mdClaim[i] = "paid" /\ mdClaim'[i] # "paid" =>
          \E h \in Handlers : /\ mdHandler[h].pc = "write" /\ mdHandler[h].issue = i
                              /\ mdHandler[h].read = "eligible"]_mdVars

=============================================================================
