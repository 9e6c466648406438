# Formal models of GitHub Bounties

GitHub Bounties (`src/apps/web`) holds USDC in one wallet, `gb-escrow`, for many
bounties. A poster funds a bounty on a GitHub issue, others top it up, a merged
pull request makes its author the winner, and the face is split between a fee,
the winner and a pool of other participants, or returned to the funders.
Handlers are Next.js routes on Cloud Run that read and write Postgres and call a
custody rail (CDP) and an x402 facilitator. Most of them are **not** wrapped in
one transaction, so every `await` between two effects is a point where another
request may run or the process may die. These modules model that.

Paths below are relative to `src/apps/web/src/` unless they begin with `README`
or `docs/`.

## 1. Inventory

| Part | State | Operations | What is hard | What makes it correct |
|---|---|---|---|---|
| Money split, `lib/money.ts` | none | face -> fee, shares, dust, winner | two roundings | the parts add up to the face |
| Outbound escrow, `escrow/service.ts`, `allocation.ts`, `payout-guard.ts` | `bounties.status`, `escrows`, `allocation_ledger`, contributions | `settleEscrow` per scope, `refundEscrow` | concurrent claims and cancels, crash or lost answer between rail and row, retries with expired keys | never more than the face leaves; rows never claim what did not move; winner first; pay or refund, not both; retries finish |
| Rail, `escrow/rail.ts` (CDP is external) | idempotency keys for about a day | transfer | answers get lost, keys expire | one transfer per remembered key |
| Merge webhook, `webhooks/claims.ts`, `pool.ts` | `claims`, `pool_participants` | mark eligible, freeze row by row | freezes while a claim is in flight; redelivery | a claim pays what the frozen pool says |
| Inbound funding, `escrow/x402-http.ts`, `inbound.ts`, `top-up.ts` | escrow hash, contributions, face | pay, record, lock, top up | the facilitator settles before anything is written | face = sum of credits <= money that arrived; top-ups stop at the merge |
| Draft changes, `bounties/update-amount.ts`, `admin/delete.ts` | face, status, `deleted_at` | edit, cancel, expire, delete | they race with a payment or a lock | no funds enter a deleted bounty |
| Fee withdrawal, `admin/withdraw.ts` | confirm tokens, `fee_withdrawals` | preview, execute | two administrators, a timeout after broadcast, failed status write | a token pays once; no silent duplicate; unknown stops the wallet |
| API access, `api/access` | keys, spend ledger, idempotency rows, request log | fund, top up, cancel, claim, refund, every call's rate limit | reserve then check; find then save; insert then count on several clocks | caps and limits hold; a key pays once |
| Webhook deliveries, `webhooks/process-delivery.ts`, `delivery-store.ts`, `public-merge-poller.ts` | `webhook_deliveries`, `claims`, `github_links`, `repos` | process, replay, poll, Connect GitHub | the delivery row comes after the claim; the hunter connects in between | a paid claim stays paid; a connected hunter does not wait for ever |
| Email outbox, `email/outbox.ts` | `email_outbox` | enqueue, claim, send, mark | leases that expire under a worker, answers that are lost | a mail repeats only after a loss; final rows stay final |
| Pool rules and freeze, `lib/pool-eligibility.ts`, `pool-freeze-rows.ts`, `webhooks/pool.ts` | `pool_participants` | live roster, freeze row by row | overlapping deliveries, partial snapshots | frozen rows stay; fee, winner and shares make up the face |
| Hugging Face, `huggingface/apply-merge.ts`, `bounties/submissions.ts` | `hf_links`, `bounty_submissions`, `claims` | webhook, poll, Connect, submit, withdraw | three callers evaluate one merge | a claim that counts is not disputed by a stale evaluation |
| Watch list, `huggingface/watch.ts`, `bounties/hf-merge-poller.ts` | the watched repositories of the bot's webhook, kept at the Hub | sync after a funding, sync at every poll | the whole list is read and written back by requests that overlap; a write may be lost or answer nothing | a repository that waits for a merge ends up watched |
| Claims, `claims/payout.ts`, `escrow/destination-guard.ts`, `app/api/bounties/[id]/claim`, the claim calls of `api/access` | `payout_address` of claims and participants, `users.wallet_address`, links | claim on the site or with a key, settle by the poster, link, unlink | an address is written, read twice and confirmed with other claims in between | the ledger names where the money went; only the row's own user claims |
| Campaign contacts, `contacts/` | `marketing_contacts`, the provider's audience | sign up, import, push, pull, webhook | both sides change at once | an unsubscribe is one-way and reaches the other side |
| Legacy funding, `escrow/legacy-funding.ts`, `scripts/security/reconcile-legacy-funding.ts` | `escrows.x402_payment_id` | verify a hash on the chain and mark it; top-ups mark theirs | three writers replace one column, with no common lock | the guard counts what arrived, once; a lost mark can be verified again |
| Keys and calls, `api/access/handlers.ts`, `http.ts`, `mcp-tools.ts` | `api_keys`, the principal a call carries | make, revoke, call | a handler checks a status that the service reads again | only a money key moves money |
| Wallet button, `components/fund-lock-panel.tsx`, `wallet/pay-x402.ts` | none but the browser's | press, sign, post, lock | two tabs, an answer that is lost | what settled is on record, what is reported paid has settled |
| Posting, `bounties/create.ts`, `hf-create.ts`, `locks.ts`, `signals.ts`, `github/persist.ts`, `admin/settings.ts` | `bounties`, `repos`, `claim_locks`, `work_signals`, `platform_settings` | post, install, drain, signal, save the rates | everything is read before it is written | one active bounty per issue, stamped with rates that were in force; a stale write undoes nothing |
| Administrator's desk, `admin/refund.ts`, `delete.ts`, `balances.ts`, `escrow/reconcile.ts` | `admin_audit_log`, `deleted_at` | refund, delete, read the balances | the poster, the payer and hunters work on the same rows, and only the deletion locks them | what the log and the tiles say is so |
| Reads of pull requests, `github/public-read.ts`, `pool-snapshot.ts`, `api.ts` | none but the call's | list what closes an issue, what mentions it, what a delivery closes | several lists one after the other, cut at pages, failing one by one, while GitHub changes | nothing that was there is missed |
| Links, `github/complete.ts`, `huggingface/complete.ts`, `oauth.ts` | `github_links`, `hf_links` | connect, unlink, backfill | accounts change their names | the author is credited |
| Sign-in and settings, `auth/users.ts`, `email/sign-in.ts`, `profile/settings.ts` | `users`, preferences, the welcome | sign in, save | overlapping saves, deaths | the user's own choices stay; a welcome is not forgotten |
| Statistics, intelligence, other reads, infrastructure | caches | queries | | not modelled |

How they interact: funding ends where `lockEscrowFunds` makes the bounty
`funded`; top-ups go on until the merge webhook writes a claim or freezes the
pool; from then on claims (`claims/payout.ts`) call `settleEscrow`, while the
poster's cancel, the administrator's refund and the expiry job call
`refundEscrow`. All of them share the rows and the wallet `gb-escrow`, and the
rail's idempotency keys are the only thing two concurrent settles have in
common before they write. The fee that settles send arrives in `gb-fee`, from
which administrators withdraw. `PROJECT.json` lists the hazards at their lines.

## 2. Modules and the code

**`Split`** is `splitFaceAtomic` and `splitPostFeePoolAtomic` as integer
operators.

**`Settlement`** (extends `Split`) is one funded bounty.
`bounty` and `escrow` are the rows, `ledger[l]` the row of a payout leg in
`allocation_ledger` (status, has a hash, amount, `bound` = carries the winner's
participant id), `memberPaid` the hashes on `pool_participants`, `returned` those on
`bounty_contributions`, `claim` and `frozen` what the webhook wrote, `keys[l]`
the idempotency keys the rail remembers, `chain[l]` what really moved. `req[r]`
is a handler: a program counter and the copies it read.

- `Arrive` -> `SettleRead`/`RefundRead`: the reads and early returns;
  `SettleNotCovered`, `SettleRailDown`: refusals before any effect.
- `SettleEnter`, `SettleEnterEscrow`: the two updates to `settling`, the first
  guarded by status with its count ignored.
- `PrepareLegs`: `ensurePendingLegs` and `syncEscrowHashesOntoLedger`.
- `SubmitLeg`, `LegNotCovered`, `SendLeg`, `ConfirmLeg`, `RecordLeg`, `LegError`:
  one leg through `assertPayoutCovered`, the rail, `markLegConfirmed` and the escrow.
- `SettleTally`, `SettleFinish`: whether everything intended is confirmed, and
  the last writes.
- `Refund*`: `refundEscrow`, a single transfer or one per contribution.
- `Mark*`, `Freeze*`, `HookStop`: one webhook delivery.
- `Crash`, `HookCrash`, `ExpireKey`: the environment.

Merged steps: the reads of bounty, escrow, freeze and claim are one step; a
failed leg's `markLegFailed` and `persistEscrowFail` are one step. A lost answer
is `SendLeg` followed by `LegError`. Members and contributions are paid in any
order, which covers the code's order. There is one winning pull request, and
hook deliveries come one at a time. `Members` stands for the hunters that get
the role "pool", so there are at most `MaxPaid` of them.

**`FeeWithdraw`** has tokens, at most one withdrawal row per token (unique index),
`sent[t]` = the chain, and the requests. `Claim` is the transaction under the
advisory lock. `SendOk`, `SendNoHash`, `SendThrows` are the rail's answers,
`FailureStatus` is `classifyFeeTransferFailure`, `Mark`/`MarkFails` the status
write inside the `try` or in its `catch`. The code tells errors apart by their text. A
"rejection" moved nothing; "transport" is an error on its list, which may have moved the
money; "unlisted" one whose text is on no list, so that it is taken for a rejection
although it may have moved. `misled` remembers the tokens of the errors that were taken
for what they were not, a failed status write among them. An order stands for amount and
destination; the balance check is a rejection by the rail; audit rows and the
manual reconciliation of a row are left out.

**`Funding`** is a bounty from its creation to the merge on the live rail.
A payment stands for its transaction hash. `PayRead`, `PaySettle`, `RecordRead`,
`RecordWrite` are `handleX402Fund` with `recordExactInbound`;
`LockRead`, `LockCommit` are `lockEscrowFunds`; `TopUp*` are `handleFundedTopUp`
and the transaction of `topUpFundedBounty`; `EditAmount`, `VoidRead`/`VoidWrite`
and `Delete` are the other writers of a draft. `Merge` is the webhook. Row
locks make `TopUpApply`, `EditAmount` and `Delete` one step: a claim or
participant row cannot be inserted while the bounty row its foreign key names
is locked for update. Fail codes, the list of verified top-up hashes and checks
on the payer are left out; what happens to a bounty after `funded` belongs to
`Settlement`.

**`BountyMoney`** is what the escrow promises about the money of one bounty, with
no requests, rows or keys: transfers happen, the others after the winner's; what
is on record has happened and stays on record; the claim is closed after the
winner was paid, the refund after everything went back. `Settlement` implements
it: `Money == INSTANCE BountyMoney` maps `moved` to the legs on the chain,
`recorded` to `OnRecord` (confirmed rows and stored hashes) and the closings to the
claim and the escrow row.

**`ApiAccess`** is one money key, one bounty and the calls in flight.
`LookUp`, `SavePlaceholder`, `StoreResponse` are `withIdempotency`; `Quote`, `Reserve`,
`Recheck`, `SettlePayment`, `DeliverPayment` and the refusals are `settleAndLock`,
`CancelDraft` is `handleCancel`. A response is its status. `PaymentRefused` is a
facilitator that says no, `AnswerLost` one that settled without telling: both are answered
402, so `AnswerLost` leaves a hole in the key's promise (`apiHoles`). The other calls are in
`ApiGateway`.

**`ApiGateway`** is keys, scopes and everything else a key may call. `CreateKey`,
`RevokeKey`, `DisconnectGithub` are the Settings page; `Authenticate` makes the
principal that a call keeps, `AdmitCall` or `RefuseCall` its handler's checks
(`Scoped`, `Admissible` with `CancelOpen`, `ClaimOpen`, `RefundOpen`), `AnswerCall`,
`RefundEscrow` and `PerformClaim` what it hands over to, which reads the bounty
again. Calls that only read or hand over to one operation are one operator each.

**`KeyRateLimit`** is `runAuthed` around any call: insert the request, count the
window, admit or refuse. Every instance has a clock of its own.

**`EmailOutbox`**: `Notify` is an event function with `enqueueEmailForUser`, then
`deliverOutbox` with `ClaimEmailOutbox`, `Check*`, `Send*`, `MarkRow`. `Owns` is the
condition on `claimed_by`. The provider remembers an Idempotency-Key until `ProviderForgets`.

**`MergeDelivery`**: a handler receives a delivery (or the poller's), and goes through
`FindRepo`, `FindHunter`, `FindBounty`, `FindClaim`, `WriteClaim` of
`markEligibleClaims` per issue, then `RecordDelivery`. `Connect`, `Scan`,
`NextPending`, `RecordBackfill` are `completeGitHubAppReturn` with
`backfillUnlinkedClaimsForHunter`. `Fund`, `PayWinner` and `CloseUnpaid` are what
`Funding` and `Settlement` do to the two rows read here.

**`PoolFreeze`** (extends `Split`): `Freeze*`, `Upsert*` are `freezeAfterWinner`
with `upsertFrozenParticipant`, `Live*` are `ingestLiveRoster` with `upsertCandidate`,
`EligibleAuthors`, `PaidAuthors`, `ExcludedAuthors` and `FrozenRows` the pure rules.
An author has one pull request. `pfDisturbed` is a history variable: a freeze was cut
off between two rows, or ran into another write.

**`HubMerge`** is `applyHuggingFaceMerge` from its three callers (`HubWebhook`,
`HubPoll`, `HubConnect`) on one pull request, with `writeClaim` as `HubFindClaim` and
`HubWriteClaim`, and the submissions and links it reads. `HubFetch` is the call to the
Hub, `HubPeople` and `HubDenies` are `evaluateHuggingFaceMerge` over what was read:
the blocked identities (`HubBlocked`, of the poster and those who backed the bounty
by then, `HubBacks`); `late` remembers that a link or a backer is newer than what a run
has read.

**`AdminDesk`** is one bounty under the administrator's hands. `AskRefund` to
`CloseRefund` are `adminRefundBounty` and, for the poster, `refundEscrow`; `AskDelete`
and `SoftDelete` are `softDeleteBounty`, which reads its facts twice; `ReadTile` is a tile
of the balance report, `Attributed` what reconciliation shows. `PayIn`, `LockFunds`,
`SettleBegins` and `SettleLeg` are what `Funding` and `Settlement` do meanwhile. Met while
modelling, and named in the properties: the tile leaves out escrows that are
"refunding" and deleted bounties; a draft cancelled and deleted over a recorded payment
keeps the payment for review; a void that was read before the lock committed leaves the bounty cancelled
over a funded escrow (`adCrossed`); a refund that failed half way is "refused" in the log
although part of it moved; a call that dies leaves no row (`adUntold`). A row of the log has an
action and a result only: how much went back it does not tell, and only the history
variable `adLogged` remembers it.

**`PullRead`** is one reader of one issue's pull requests, asking for the merged ones
that close it (`BeginClosing`), for all that mention it (`BeginSnapshot`) or for what a
delivery closes (`BeginDelivery`), while `Mention` and `MergePull` change GitHub between its
requests. `due` is a history variable: what the answer must show, less what only a
failed request would have shown. Beyond `MAX_PULLS` merged ones the newest are cut
off, a delivery whose links cannot be read closes what its text says, and a freeze
whose request failed is without that member for good.

**`ContactSync`** is one mailbox: its row and the provider's contact. Every call
reads the clock when it starts and stamps its write with that time, as the code
does. `Post`, `Patch`, `RecordSynced` are a push (`PatchRefused` one that the provider
answered 409, which the code takes for success), `SyncLists` to `SelectStale` the
job, `Import*` the transaction of the import, which locks nothing.

**`FundingMarkers`** is what the payout guard counts for some funded bounties:
`fmEscrow[b]` is the row with the head and the marks of `x402_payment_id`, `fmCredit`
the contributions by hash, `fmChain` the transfers in each transaction. `Claim*`,
`VerifyLeg` and `WriteMark` are `reconcileLegacyFunding`, which claims and refunds
run before `loadPayoutCoverage`; `Script*` is the script, which reads all rows in
one statement and writes at the end; `TopUp*` is the transaction of an x402
top-up. `fmCounted` remembers what has counted for whom. `Legacy` says what rows and
receipts may be there at the start; its limits are in `LegacyState`.

**`PayoutAddress`** is the address of one winner's and one member's share.
`ClaimWithKey` with `TakeWallet` is a claim through the API (the saved wallet),
`ClaimOnSite` one with an address of its own, `SettleByPoster` a settlement without.
`LoadRow`, `PersistWallet` and `StampAddress` are `claimPayout` and `claimPoolPayout`;
`PlanDestination`, `PlanLeg`, `CheckDestination`, `Release`, `ConfirmDestination` and
`FinishClaim` follow the address through `settleEscrow`. `daSent` is the chain.
Amounts, coverage and the other legs are in `Settlement`, which has no addresses.

**`Checkout`** is the wallet button against the x402 route. A press stands for the
authorization it signs (a fresh nonce). `PressPay`, `SignChallenge`, `AnswerLost`,
`LockInbound` are the browser; `CkEnter` with `PostPayment`, `SettlePayment`,
`RecordInbound`, `WriteInbound`, `ApplyTopUp` the handler; `EditFace`, `EndBounty`,
`DeleteBounty`, `CloseTopUps` the others that write the bounty meanwhile. The price a
payment is compared with is the face that its handler read. The escrow row of a deleted
bounty keeps what the code keeps, one hash and one reason: `WriteInbound` notes a further
payment in the reason, in the place of the one before (`Displaced`). `Funding` has
the amounts; this module has what the payer is told and what is lost.

**`Posting`** is one issue, or one discussion of a Hub repository. `FetchIssue` or
`FetchDiscussion`, `ReadRepo`, `WriteRepo`, `InsertBounty` post; `ConfirmInstallation`,
`SaveInstallation`, `RemoveApp` are the App; `ReadLocks` and `DrainLocks` the drain that
every board read starts; `AskSignal`, `InsertSignal`, `ClearSignal` the work signal.
Every two of them are separate statements in the code and separate steps here.
`poRates` are the rates of `platform_settings`, which an administrator saves, and
`poStamp` those a bounty was stamped with when it was inserted.

**`HubWatch`** is `ensureHfRepoWatched`. A sync lists (`ListWatched`) and writes the whole
list back with one repository more (`UpdateWatched`); `UpdateUnanswered`, `SyncFails` and
`SyncDies` are its ways to fail. `FundHub` is the request that locked the funds and syncs once;
`PollBegins`, `PollTakes`, `PollEnds` are `pollHfMerges` before it looks at merges, syncing
one waiting repository after the other. `SubmitPr`, `WithdrawPr`, `EndHubBounty` decide
who waits, `CreateHook` is ops. The list at the Hub is external.

**`AccountLinks`**: `TakeName` is the provider, `GitHubReturns`, `HuggingFaceReturns` and
`LinkRow`, `LinkAccount` are Connect. `DeliveryLooks` finds the author by id, then by name
(`FoundBy`), and `DeliveryWrites` records the answer in a later step, as the code does after
further awaits; `BackfillReads` takes the rows that nobody was found for, `BackfillLooks` and
`BackfillWrites` treat them one by one. A `Lookup` carries whether its answer was right when
given (`right`), and whether a backfill read the rows before it was recorded (`overtaken`).

**`UserAccount`**: `SignIn`, `EnqueueWelcome`, `StampWelcome`, `RecordSignup` are
`persistGoogleSignIn`; `SaveDisplayName`, `LoadPreferences`, `SavePreferences` the
settings.

**`MCSettlement`, `MCFeeWithdraw`, `MCFunding`, `MCMoney`, `MCServices`** give the constants
values and the symmetry sets. **`SplitProofs`, `SettlementProofs`,
`BountyMoneyProofs`, `FundingProofs`, `ServiceProofs`, `WebhookProofs`,
`WithdrawProofs`** hold the theorems, **`SumProofs`** what they need about sums.

Definitions named `X_Something` next to a definition `X` are wrong on purpose:
they are the plausible bugs with which each property was seen to fail.

## 3. Runs and bounds

| Run | Instance | Shows |
|---|---|---|
| `lifecycle` | `FairSpecMerged`, 1 request at a time, 2 members, 2 funders, all operations, 1 error, 1 crash, keys expire | `ResendNeedsLoss`, `PayoutXorRefund`, `StatusAccounted`, and the liveness `RefundCompletes`, `WinnerIsPaid` |
| `freeze` | `Spec`, the webhook runs beside one request, 2 members, 2 funders, 1 error, 1 crash, keys expire | `HashBackedByChain`, `OutflowWithinInflowUnfailing` |
| `claims_and_cancel` | `SpecMerged`, 2 requests, 2 members, 2 funders, 1 error, 1 crash | any two claims, or a claim and the cancel of `refund_race`, race: `EachSideWithinFace`, `SettledMeansPaid`, `WinnerFirst`, and `RefinesBountyMoney` |
| `withdraw` | 2 requests, 3 tokens, 2 orders, window of 2 token lives, all kinds of error, 1 failing status write | `OneTransferPerToken`, `NoSilentRepeatUnlessMisled`, `StatusMatchesChain`, `UnknownStopsTheWallet` |
| `money` | `Funding` (2 requests, 3 payments, 2 faces, 1 edit, 1 crash), `FundingMarkers`, `PayoutAddress`, `Checkout`, `ApiGateway` or `AdminDesk` (below) | `MoneyTypeOK`, `FaceIsFunded`, `NoFundsAfterTheEnd`, `CountedArrivedOnce`, `LostMarkReturns`, `LedgerWherePaid`, `SettledIsKept`, `MoneyNeedsMoneyScope`, `DeskTellsTheTruth` |
| `services` | eleven services, two overlapping calls, workers or deliveries each (below) | `ServicesTypeOK`, `SpendsOnceWithinCap`, `AdmittedWithinLimit`, `MailOnce`, `BackfillReaches`, `PaidClaimStays`, `FrozenSetConserves`, `FrozenRowsStay`, `HubClaimStays`, `UnsubscribeKept`, `StaleReadsUndoNothing`, `AuthorFound`, `AccountKept`, `ReadsMissNothing` |
| `watch` | `FairWatchSpec`, 2 repositories, 2 polls, 1 failure | `WatchTypeOK` and the liveness `WaitingIsWatched` |
| `refund_race` | claim and cancel, nothing fails | **violates** `PayoutXorRefund` |
| `freeze_race` | claims around a freeze | **violates** `WinnerFirst` |
| `confirm_crash` | winner's retries after a crash | **violates** `SettlingResolves` |
| `withdraw_dberror` | one order, a failing status write | **violates** `NoSilentRepeat` |
| `edit_race` | the `Funding` of `money` | **violates** `FaceArrived` |

Why the bounds suffice. A race of two handlers needs two of them; a third only
repeats what the second saw, because all interference goes through rows and
keys. Two members give one that is paid and one that is not, a remainder in
every division (face 40: fee 4, pool 7, shares 3, dust 1). One error and one
crash reach every retry of every leg; where keys expire `MaxSends` is one more
than errors and crashes, so the bound never stops a transfer that could happen.
Without expiry two sends are enough, because a key that is remembered moves
nothing twice. In `withdraw`, three tokens let a duplicate follow a lost or a
refused one, and a window of two token lives makes a row expire from it. In
`Funding` three payments are a lock and two top-ups that race. Crashes of a
withdrawal and of `HookCrash` are unbounded or share `MaxCrashes`.

`services` and `money` check several modules in one instance each. They share no
variable, so their product would only multiply states: the initial state chooses one
(`service`, `part`), the others stand still, and the view hides them. It also hides what
nothing reads any more (`ApiView`, `HubView`, `PostingView`, `LinksView`, `PullView`, `DeskView`,
`CheckoutView`). Exchanging `p1` and `p2` is
sound because every module treats its calls alike. The bounds, per service:

- API: one key, one Idempotency-Key, two spend rows, two days, a cap of one
  payment. Two payments are what it takes to exceed the cap or to pay twice.
- Rate limit: three requests, two in flight, limit 1, a window of one tick, four
  ticks: a window that fills, empties and fills again.
- Outbox: two mails of one bounty, two workers, two attempts, one lease that runs
  out, so a worker loses its row to another and comes back.
- Deliveries: one issue and one delivery, redelivered at will by two handlers, in
  any state of link, repository and bounty. Several issues of one delivery are
  written one after the other, so each alone meets the same interleavings.
- Pool: three authors, one of whom merges, a cap of one paid member, so winner, pool
  and overflow all occur, and every subset of pull requests as a snapshot.
- Hub: one pull request, two evaluations with an id each for webhook and poller.
- Contacts: five readings of the clock (`LastStamp`): an insert, a push, an
  unsubscribe, a second push and a write that began before them.
- Marks: two bounties, three hashes, two runs. The first hash is on the escrow of
  one bounty and may be credited to either, with or without a head; its receipt
  holds the transfer, one of another token, or several. The third is fresh, for
  one top-up; a second adds nothing, because the column is replaced whole by
  whoever is stale.
- Addresses: two claims of either share by two users with two addresses, before or
  after the winner was paid. Three claims would let a third address be stored, but
  whoever reads it differs from it in the same way as from the second.
- Checkout: three presses and two faces: two that race and one that follows them,
  with an edit of the face in between.
- Gateway: a poster and a hunter, one key, two lists of scopes, two calls: one
  passes its checks while the other changes the bounty.
- Desk: two calls, two contributions and two legs: one that is moved and one that is
  not, and a call that reads while the other writes.
- Posting: two calls, two drafts, and two settings an administrator may save (300, in range, and 1001,
  one more than allowed). Reads: three pull requests, a cap of two (`PrMax`), pages of two
  (`PrPage`) and two of them (`PrPages`), in three worlds (`PullWorlds`), so that every list may be
  exceeded by one. Links: two users, two accounts and two names, so a name can be given
  up and taken over and either user be found for the merge; a second merge would be looked
  up, recorded and scanned without touching the first. Of the two Connects and the delivery
  two are under way together, as in the other services, and the account and the name that
  come first are fixed, since they are alike (`LinksBound`). Account: two calls and two kinds of mail,
  one of which a save does not mention.

In `watch` two repositories are the least that can push
each other off the list, and besides the two funding requests two polls may overlap for
ever. Once the syncs that listed a repository's absence are over, the list only grows, and
a third poll would be one more such sync.

Bounds inside actions are named where they are: a key is revoked, a bounty deleted
or the day turned only in those states of the calls where it can make a
difference (`ApiAccess`).

The type invariants of `Settlement` and `FeeWithdraw` are proved for all constants (`TypeCorrect`,
`WithdrawTypeCorrect`), so no run repeats them.

Deadlock is checked in `watch`, whose polls can always come again, and not in the others:
the services stop at their bounds, and a bounty that is settled or refunded is finished.

## 4. Fairness

`FairSpecMerged` assumes weak fairness of the steps of a handler that was
started (Node runs it to its end unless the process dies, which is `Crash`), of
a winner who keeps claiming and of a poster (or administrator) who keeps asking
for a refund that has begun. These two are assumptions about people, not about
the scheduler: no job retries a claim, the messages it stores tell the winner to
claim again, and a refund that failed half way stays in `refunding` until somebody
asks again (the API and MCP call resumes it, `mcp-tools.ts:391`; the page's button
is shown for `pending_fund`, `funded` and `claim_locked` only). The expiry cron is
not assumed to help: it looks at bounties whose `expires_at` has passed, and
nothing in the code sets that column. No fairness of the webhook, the members, the
cron or failures is assumed.

`FairWatchSpec` assumes that a sync that was started goes on and that a poll is begun again
whenever none is running: Cloud Scheduler calls it every ten minutes (`README.md:278`,
`README.md:303`). Nobody has to fund, submit or create the webhook.

The other modules state safety only: no job drains the
outbox or retries a delivery by itself, so the code justifies no fairness there.

## 5. Disagreements between code and documents

Five runs exhibit the first of them; `PROJECT.json` quotes the lines.

1. `refund_race`: a claim and a cancel in flight together pay twice the face
   (`docs/escrow.md:163` says a refunded bounty pays no winner).
2. `freeze_race`: a settle planned before the freeze leaves a winner's row that
   later settles do not recognise, and the fee goes first (`docs/escrow.md:160`).
3. `confirm_crash`: after a crash between two writes the coverage check refuses
   every retry (`escrow/service.ts:427`).
4. `withdraw_dberror`: a failing write of "ok" marks a transfer that moved as
   failed, and the duplicate guard forgets it (`README.md:77`).
5. `edit_race`: an edit during an in-flight payment is accepted
   (`docs/api.md:152`), and more is credited than arrived.

Six more are stated as properties of their modules and belong to no run. TLC refutes
each of them when it takes the place of the properties in the cfg that is named:

6. `PaidWhereShown` (`money.cfg`): a claim that was paid may be made again with another
   address, which replaces the one the money went to in the row that
   `api/access/claim-leg.ts:1` describes as "paid to".
7. `FailedIsRejected` (`withdraw.cfg`): an error after the broadcast whose text is not on the
   list of `admin/withdraw.ts:36` makes the row "failed" although the money moved
   (`admin/withdraw.ts:92` calls it a known rejection), and the duplicate guard forgets it.
8. `DeletedInboundKept` (`money.cfg`): of three payments that settle for a deleted bounty
   the second is on no record, because the third takes its place in the one reason
   (`escrow/inbound.ts:48` and `escrow/x402-http.ts:77` say it is kept for review).
9. `LoginOrIdAttached` (`services.cfg`): the backfill compares the login only, where its
   comment says "login/id" (`webhooks/claims.ts:207`), so a renamed author's merge stays behind.
10. `OnlyFlagsSent` (`services.cfg`): of two saves of preferences that overlap, one writes back
   the flag that the other had sent (`docs/api.md:162`: only the flags sent are updated).
11. `FundedIsWatched` (`watch.cfg`): of two fundings that overlap, one takes the other's
   repository off the watch list, and a poll puts back only repositories with a submission
   (`README.md:295` says every poll adds it). With a submission it comes back, which is
   `WaitingIsWatched`.

Others, seen while modelling, are in the list of hazards with a note. The nearest
to a twelfth: the import of contacts can write `subscribed = true` over an unsubscribe
that committed after it had read the row, which `README.md:83` excludes;
`UnsubscribeKept` names this writer and holds for every other.

Where the code gives up a promise in a race, the property that states the promise
excepts that race by name, in a history variable or a field, and says nothing about it:
`apiHoles` (two calls look one idempotency key up together, a lost write, a refused
payment that moved), `mdMissed` and `late` (a backfill overtakes a lookup), `pfDisturbed`
(a freeze cut off or overlapped, in `FrozenSetConserves`), `mailLost`, `csHoles` (a write stamped before the last
sync, a 409 taken for success), `adCrossed`, `adUntold`, `uaOff` (a save that had read
before), `stale` in `Posting`, `misled`, `calm` and `Displaced` in `Checkout`. The deliveries
that had read a claim before it was paid, a pool row before it was frozen or the people of
a merge before a backer joined are excepted in the text of `PaidClaimStays`, `FrozenRowsStay` and `HubClaimStays`. The
comment on each property says which states these are, and the hazards they belong
to have a note.

## 6. Proofs

All theorems hold for every value of the constants that the named assumptions of
the modules allow. The assumptions say that the values that stand for "none" are
none of the others, that amounts, limits and times are natural numbers, that rates
are basis points, and which sets are finite: the contributors and the legs
(`AmountAssumption`, `LegsAssumption`), the authors of a pool (`PoolAssumption`),
the spend rows (`ApiAssumption`), the requests of a key (`RateAssumption`), the
payments (`FundingAssumption`), and the desk's funders and legs, as many of the one as of
the other because each makes up the face in units (`DeskAssumption`). `MarkAssumption` has legacy rows satisfy `LegacyState`.
None limits how many requests, calls, crashes or errors there are.

`SumProofs` holds what the rest needs of sums over finite sets, which the prover has
no induction for: `SubsetInduction` derives induction over the subsets of a finite
set from the library's well-founded facts in first-order form, and from it follow what a
sum is when one term changes, is split off or is bounded. `SplitProofs` has
`SplitConserves`: fee + paid pool + winner = face, all natural numbers, from
bounds on integer division (`DivBounds`) and `count * (pool \div count) <= pool`.

**Settlement** (`SettlementProofs`, `BountyMoneyProofs`)

- `TypeCorrect`: `Spec => []TypeOK`.
- `RecordsBacked`: `Spec => []HashBackedByChain`. It is not inductive, since a
  handler writes hashes that it carries in variables. `HashInv` adds what the
  copies in `req` mean (a hash in a request stands for a transfer; a request
  past the rail call has moved its leg; a refund past some leg has returned
  it) and that a key the rail remembers has moved its leg. `Inductive` proves
  `Spec => [](TypeOK /\ HashInv)`, one lemma per group of actions.
- `WinnerIsFirst`: `SpecMerged => []WinnerFirst` by `WinnerFirstInv`
  (`WinnerFirstInductive`): with the pool frozen, every winner's row is bound to the
  winner's participant, so a request that does not have the winner to pay is one
  whose winner was paid. The invariant needs `HashInv`, and `freeze_race` shows it
  fails without the frozen pool.
- `ImplementsBountyMoney`: `SpecMerged => RefinesBountyMoney`. Every step maps to a
  step of `BountyMoney` or a stutter: `SendLeg` pays (`WinnerFirstInv` gives the
  order), the steps that write rows record what `HashInv` says has moved, and no
  step takes anything from `OnRecord`.
- `SettledPaid`: `SpecMerged => []SettledMeansPaid` by `AmountsInv`
  (`AmountsInductive`): every request works on the plan of the frozen pool, and every
  leg has moved a whole number of its planned amounts. What a settled bounty has
  recorded is then the whole plan, and `SplitConserves` adds it up to the face.
- `SidesWithinFace`: `SpecMerged => []EachSideWithinFace` when `KeysExpire` is
  FALSE. `OnceInv` has each side of a leg move once, because the key that a second send
  would use is remembered; `SideKept` bounds the sum of a side by the plan. The
  hypothesis is the rail's promise while a retry comes within the life of its key.
- `PayoutOrRefund`: `PayoutXorRefund` for handlers that do not overlap, keys forgotten or
  not, merged or not. With one handler at a time its copies are the rows,
  so a refund starts only where no payout is recorded, and the reverse. For
  overlapping handlers it is false (`refund_race`), so there is nothing more to prove.
- `ResendsPaidFor`: `Spec => []ResendNeedsLoss`. `LossInv` counts what is still to
  come: a leg whose row is not written while its transfer has gone is `Owed` one
  repetition. The repeated transfers and those owed never exceed the errors and the
  crashes, each of which can leave one; `KeyKept` covers the sends that the rail absorbs.
- `StatusIsAccounted`: `SpecMerged => StatusAccounted` for handlers that do not overlap,
  as the run `lifecycle` has them. One end of a settlement writes the fail code and
  another writes none, so the property needs to know that the other cannot leave a
  bounty in "settling". `AccountInv` says why: the statuses of bounty and escrow
  agree; the ledger has each hash that the escrow has; the legs still to transfer
  fit into what the contributions have left (`Fits`), so the coverage check cannot fail
  once the first leg has gone; and a handler finishes as "settled" exactly when
  the ledger has the whole plan.
- `CoverageMakesUp`: `Spec => []OutflowWithinInflowUnfailing` for handlers that do not
  overlap, while the webhook writes the pool row by row. A claim may plan with half of
  the pool, so its legs need not fit one plan. `CoverInv` says what holds instead:
  the rows cover what has moved, all of it within the face, and a handler about to
  transfer is within what the check found left. A member's row was planned for a pool
  that has only grown since (`RowsPlanned`), and by `ShareMonotone` a share only shrinks as
  it does (`PlannedGrows`), so the row still covers the leg. Overlapping handlers are left
  out because for them it is false: one that saw no pool sends the winner's part of the
  whole while another pays the members.

**The money that comes in** (`FundingProofs`)

- `FundTypeCorrect`, `FaceFunded`, `NoFundsAfter`: `FundInv` says what a request
  holds: before its settle a payment that has not moved, past it one that has
  arrived. A draft is credited nothing and a top-up raises the face that is in force
  by what it credits, so the face is the sum of the contributions.
- `MarkTypeCorrect`, `CountedArrived`, `LostMarksReturn`: the invariant `MarkInv` says
  that a mark on a row, or in the stale copy of a run, is `Backed`: the bounty alone
  owns the hash and its receipt matches the leg. `Keeps` lists what no step
  changes (heads, lock hashes, credited legs, receipts), so `Backed` stays true
  for ever, and a write of a stale copy can only lose marks.
- `LedgerIsWherePaid`: `AddressInv` has a claim that may send carry an address, and
  one that has sent carry the address the transfer went to.
- `PaymentIsKept`: by `CheckoutInv` a calm press is alone in the handler and finds the
  bounty as it was posted, so its payment is recorded or credited; a recorded hash that a
  late press may still overwrite belongs to a press that was not alone either. A payment to a
  deleted bounty is the hash, the one in the reason, or displaced by a later one, and
  stays displaced.
- `GatewayTypeCorrect`, `MoneyNeedsScope`: `GwInv` keeps what a call was let in
  with: the scopes of its key, or the draft that its cancel read as unfunded.
- `DeskIsTruthful`: `DeskInv` has the rows of bounty, escrow and contributions agree
  (`RowsAgree`), places all of the money (`MoneyPlaced`), and says what a call knows
  between its reads, that whatever it moved left a row or is counted as untold (`Told`),
  which is no statement about how much the row tells, and what the tile has read
  (`TilesHold`).

**Merges** (`WebhookProofs`)

- `MergeTypeCorrect`, `PaidClaimsStay`, `HubTypeCorrect`, `HubClaimsStay`: with
  `MergeInv` and `HubInv`, which say what a handler about to write has read (never
  "paid"), the only way to reopen a claim is a read made before it was paid. For
  the Hub, a claim that became eligible is also one of somebody who did not back the bounty,
  unless the backing came after the evaluation.
- `PoolTypeCorrect`, `FrozenRowsKept`, `FrozenConserves`: the shares are natural numbers
  because a frozen row's share is one of `FrozenRows`, whose amounts `Split` bounds; a
  delivery about to write has read a row that was not frozen; the frozen rows have one
  winner and make up the face.
- `BackfillIsReached`: a backfill covers a row (`Covers`) that it has yet to scan, has in
  its batch or is working on. `ReachInv` adds that a handler at rest is no backfill and
  that one between two rows holds none, so the row that it has just written is not one
  that it is still to write.
- `PullTypeCorrect`, `ReadsMiss`: the lists are functions picked by `CHOOSE` (`Ascending`,
  `Among`), so what sorting, filtering and cutting keep follows from facts about finite
  sets (`AscendingFacts`, `AmongFacts`, `FirstFacts`) and needs no induction over lists.
  `PullInv` has what is due wait in one of the lists that the reader has read or is going
  to read (`ClosingKept`, `PoolKept`). It is lost only where a request fails, and then
  it is no longer due, or where `MAX_PULLS` cuts (`Cut`). GitHub's own steps only add to
  the pages and to the merged pull requests (`HubKeeps`).

**Withdrawals** (`WithdrawProofs`)

- `WithdrawTypeCorrect`: `Spec => []TypeOK` of `FeeWithdraw`.
- `WithdrawInductive`: `Spec => []WithdrawInv`. None of the four properties is
  inductive: a token is spent in the claim, money moves in the send, and the row
  says so in the mark, so a property about rows and money needs what a request
  knows between them. `RequestKnows` says it: the row is its own and still
  pending, nothing moved before the send, and the outcome it is about to write
  is true unless an error was taken for a rejection and was none (`misled`).
  `OneInFlight` and `OneClaimed` make the
  advisory lock and the in-flight check one owner at a time, and `OrdersApart`
  is the duplicate guard over every row that may have moved and was not misjudged: when a claim passes,
  nothing is in flight, so those are exactly the "ok" rows it compared with.
- From it `TokenPaysOnce`, `HistoryIsTrue`, `NoRepeat` and the action property
  `UnknownStops`: an unknown row is the one in flight, so no request is past its
  claim and none can send.

**Around the escrow** (`ServiceProofs`)

- `LimitHolds`: `RateSpec => []AdmittedWithinLimit`. The invariant `CountedHaveRows`
  says that a call about to be admitted has its row and has counted; of the calls
  admitted in a window, the one that counted last saw the rows of all.
- `ApiTypeCorrect`, `SpendsOnce`: `ApiInv` says whose spend row a call works on
  (no two calls share one), what the row says of a payment that moved, and that the
  spends of a day that count are within the cap when a row is reserved. A payment counts
  if it neither failed after it moved nor was checked after midnight; an idempotency key
  looked up by two calls together, or answered 402 after it moved, is not covered.
- `AccountIsKept`: `AccountInv` says what a save that nobody overtook has read (one
  that was overtaken may bring a kind back, number 10 of section 5), and that
  a call which stamps the welcome has queued it or was refused.
- `AuthorIsFound`: `LinksInv` has every link, every Connect in flight and every
  recorded merge and every lookup in flight hold a name that its account has or had,
  unless that name changed hands. Whoever is found by name is then the author, or the name
  changed hands. For the backfill it says that an account whose backfill is past a row has
  no merge waiting under its name, but from a lookup that the backfill overtook.
- `StaleReadsKept`: the action property holds because `PostingInv` makes a read that
  is not marked as stale equal to what is stored.
- `UnsubscribeIsKept`: `ContactInv` is about the time before the provider knows of the
  unsubscribe. Until then a stamp names the write it was made by (`StampsApart`), so a
  push whose row has the stamp of the row has its subscription too, and nobody knows
  the id of a contact that is not there (`ContactThere`). The import that had read before,
  a write stamped before the last sync and a 409 are excepted.
- `MailGoesOnce`: `MailInv` counts. Every mail that left, every delivery that holds the
  mail and a row that is free to be claimed use up the first sending or a loss of their
  own; and only the worker whose claim is on the row ends it.

**The runs that follow several components.** A behaviour of `money` or `services` moves one
component and leaves the others alone, so it is a behaviour of each of them
(`MoneyParts` in `FundingProofs`, `ServicesParts` in `WebhookProofs`), and what is proved
of a component holds of the run. `MoneyTypeCorrect` and `ServicesTypeCorrect` say so of
the type invariants, each of which is a lemma or a theorem about its own module.

Model-checked only, and why:

- the liveness properties (`RefundCompletes`, `WinnerIsPaid`, `WaitingIsWatched`): out of the prover's reach;
- `StatusAccounted` for overlapping handlers is false, so there is nothing to prove: a
  second claim that read "funded" writes the escrow from "settled" back to "settling"
  until it ends (the hazard at `escrow/service.ts:831`).

## 7. Plan

Done: the modules and proofs above. Next: the composition of late top-ups with a refund
that took its snapshot.

Not modelled, and why: the public read API, statistics, rosters and lists are
queries; the intelligence cache is one upsert per key with a time to live; the
pages other than the wallet button keep no state of their own and reach the handlers
modelled here; `escrow/reconcile.ts` computes notes for operators and the other
scripts report.

Not planned: HTTP clients, the session library, reads and statistics, e-mail texts,
the UI, other scripts, infrastructure, and the standalone V0 receiver in `src/src`.
