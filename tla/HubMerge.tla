------------------------------ MODULE HubMerge ------------------------------
(***************************************************************************)
(* A Hugging Face bounty from the submission of a pull request to the claim *)
(* of its author (src/apps/web/src/huggingface/apply-merge.ts,              *)
(* bounties/submissions.ts and bounties/hf-merge-poller.ts).  The Hub's      *)
(* webhook, the poller and the backfill after Connect all run the same       *)
(* evaluation: they read the pull request and the people of the repository   *)
(* from the Hub again, the backers of the bounty and the author's link from  *)
(* the database, and write the claim as eligible or, when the merger is       *)
(* neither owner nor member, as disputed.  Only submissions lock the bounty. *)
(*                                                                         *)
(* The module follows one pull request and the account that wrote it.  What   *)
(* the Hub says about the people is a choice of every evaluation: members     *)
(* come and go.                                                              *)
(***************************************************************************)
EXTENDS Integers, FiniteSets

CONSTANTS
    HubRuns,        \* evaluations that run at the same time
    HubIds          \* the deliveries: "webhook" and hfPollDeliveryId, "poll"

ASSUME HubAssumption == HubIds # {} /\ HubIds \subseteq {"webhook", "poll"}

VARIABLES
    hmBounty,       \* status of the bounty
    hmMerged,       \* the Hub: the pull request is merged, with a commit
    hmLink,         \* hf_links: who has linked the account, or "none"
    hmBackers,      \* the poster and the funders
    hmSubmission,   \* the author's bounty_submissions row
    hmClaim,        \* the claim of the pull request
    hmHunter,       \* claims.hunterUserId
    hmDelivery,     \* webhook_deliveries
    hmRun           \* evaluations in flight

hmVars == <<hmBounty, hmMerged, hmLink, hmBackers, hmSubmission, hmClaim, hmHunter,
            hmDelivery, hmRun>>
-----------------------------------------------------------------------------
HubUsers == {"hunter", "poster"}
HubClaims == {"none", "disputed", "eligible", "paid"}

\* Where a discussion leads by itself: its author merged it or is a member of the
\* organisation, nobody who may merge did, or a good merge.
HubReadings == {"deny", "disputed", "eligible"}

\* A delivery that is eligible but got no claim, as its author was not linked,
\* waits for one; the other outcomes are as one.
HubRows == {"none", "done", "waits"}

HubRunRecord ==
    [pc: {"idle", "fetch", "targets", "people", "hunter", "claim", "write", "finish"},
     id: HubIds,
     merged: BOOLEAN,                   \* the discussion as it was fetched
     status: HubReadings,               \* what the decision asks for
     hunter: HubUsers,                  \* findHunter
     late: BOOLEAN,                     \* history: a link or a backer is newer
                                        \* than the read of the backers
     read: HubClaims,                   \* the claim as it was read
     outcome: HubRows]
HubRunIdle == [pc |-> "idle", id |-> CHOOSE d \in HubIds : TRUE,
               merged |-> FALSE, status |-> "eligible", hunter |-> "hunter",
               late |-> FALSE, read |-> "none", outcome |-> "none"]

HubTypeOK ==
    /\ hmBounty \in {"funded", "closed"}
    /\ hmMerged \in BOOLEAN
    /\ hmLink \in {"none"} \cup HubUsers /\ hmHunter \in {"none"} \cup HubUsers
    /\ hmBackers \subseteq HubUsers
    /\ hmSubmission \in {"none", "submitted"}     \* a withdrawn one is as none
    /\ hmClaim \in HubClaims
    /\ hmDelivery \in [HubIds -> HubRows]
    /\ hmRun \in [HubRuns -> HubRunRecord]

HubInit ==
    /\ hmBounty = "funded" /\ hmMerged = FALSE
    /\ hmLink \in {"none", "hunter"} /\ hmBackers = {"poster"}
    /\ hmSubmission = "none" /\ hmClaim = "none" /\ hmHunter = "none"
    /\ hmDelivery = [d \in HubIds |-> "none"]
    /\ hmRun = [r \in HubRuns |-> HubRunIdle]

\* What a run still carries when it comes to finish.
HubDone(run, outcome) ==
    [HubRunIdle EXCEPT !.pc = "finish", !.id = run.id, !.outcome = outcome]
HubRunEnds(r) == hmRun' = [hmRun EXCEPT ![r] = HubRunIdle]
HubRunOnly ==
    UNCHANGED <<hmBounty, hmMerged, hmLink, hmBackers, hmSubmission, hmClaim, hmHunter, hmDelivery>>
-----------------------------------------------------------------------------
(* applyHuggingFaceMerge                                                    *)

HubRetry(row) == row = "waits"    \* shouldRetryClaimWrites

HubBegins(r, d) ==
    /\ hmRun[r].pc = "idle"
    /\ hmRun' = [hmRun EXCEPT ![r] = [HubRunIdle EXCEPT !.pc = "fetch", !.id = d]]

\* handleHuggingFaceWebhook: sent for a merge, and sent again as the Hub likes.
HubWebhook(r) ==
    /\ "webhook" \in HubIds /\ hmMerged
    /\ hmDelivery["webhook"] # "none" => HubRetry(hmDelivery["webhook"])
    /\ HubBegins(r, "webhook")
    /\ HubRunOnly

\* pollHfMerges refreshes every submitted pull request of a funded bounty.
HubPoll(r) ==
    /\ "poll" \in HubIds
    /\ hmSubmission = "submitted" /\ hmBounty = "funded"
    /\ HubBegins(r, "poll")
    /\ HubRunOnly

\* The runs that have read the backers, and would make the claim eligible, have
\* not seen this.
HubTooLate(runs) ==
    [r \in HubRuns |-> IF runs[r].pc \in {"hunter", "claim", "write"} /\ runs[r].status = "eligible"
                      THEN [runs[r] EXCEPT !.late = TRUE] ELSE runs[r]]

\* linkHuggingFaceAccount: an account has one user; then
\* backfillHuggingFaceClaimsForHunter refreshes a delivery that waits for a claim.
HubConnect(u, r, d) ==
    /\ hmLink \in {"none", u} /\ hmLink' = u
    /\ hmRun[r].pc = "idle"
    /\ hmRun' = IF HubRetry(hmDelivery[d])
                THEN HubTooLate([hmRun EXCEPT ![r] = [HubRunIdle EXCEPT !.pc = "fetch", !.id = d]])
                ELSE HubTooLate(hmRun)
    /\ UNCHANGED <<hmBounty, hmMerged, hmBackers, hmSubmission, hmClaim, hmHunter, hmDelivery>>

\* fetchHuggingFaceDiscussion
HubFetch(r, says) ==
    /\ hmRun[r].pc = "fetch"
    /\ says # "eligible" => hmMerged
    /\ hmRun' = [hmRun EXCEPT ![r].pc = "targets", ![r].merged = hmMerged, ![r].status = says]
    /\ HubRunOnly

\* Only a discussion that is gone is recorded: a rate limit, a refusal and
\* everything else throw, as in HubRunDies.
HubFetchGone(r) ==
    /\ hmRun[r].pc = "fetch"
    /\ hmRun' = [hmRun EXCEPT ![r] = HubDone(@, "done")]
    /\ HubRunOnly

\* loadTargets
HubTargeted == hmSubmission = "submitted" /\ hmBounty = "funded"

\* preliminaryMergeSkip
HubTargets(r) ==
    /\ hmRun[r].pc = "targets"
    /\ hmRun' = [hmRun EXCEPT ![r] =
         IF @.merged /\ HubTargeted THEN [@ EXCEPT !.pc = "people", !.merged = FALSE]
         ELSE HubDone(@, "done")]
    /\ HubRunOnly

\* blockedIdentities: the author is an account that a backer has linked.
HubBlocked == hmLink \in hmBackers

\* evaluateHuggingFaceMerge: the base is the default branch, the pull request is
\* newer than the bounty, and its author is no owner, merger, backer or member.
HubDenies(run, passes) == run.status = "deny" \/ HubBlocked \/ ~ passes

\* The default branch and the members of the organisation, then the backers.
HubPeople(r, passes) ==
    /\ hmRun[r].pc = "people"
    /\ hmRun' = [hmRun EXCEPT ![r] = IF HubDenies(@, passes) THEN HubDone(@, "done")
                                    ELSE [@ EXCEPT !.pc = "hunter"]]
    /\ HubRunOnly

\* findHunter
HubFindHunter(r) ==
    /\ hmRun[r].pc = "hunter"
    /\ hmRun' = [hmRun EXCEPT ![r] = IF hmLink = "none" THEN HubDone(@, "waits")
                                    ELSE [@ EXCEPT !.pc = "claim", !.hunter = hmLink]]
    /\ HubRunOnly

\* writeClaim keeps a paid claim, and an eligible one from a review.
KeepsClaim_Paid(claim, status) == claim = "paid"
KeepsClaim(claim, status) == claim = "paid" \/ (claim = "eligible" /\ status = "disputed")

HubFindClaim(r) ==
    /\ hmRun[r].pc = "claim"
    /\ hmRun' = [hmRun EXCEPT ![r] =
         IF KeepsClaim(hmClaim, @.status)
         THEN HubDone(@, "done")
         ELSE [@ EXCEPT !.pc = "write", !.read = hmClaim]]
    /\ HubRunOnly

\* An update goes by the id of the row that was read and names the hunter anew;
\* an insert that meets a row reports that row.
HubWriteClaim(r) ==
    LET met == hmRun[r].read = "none" /\ hmClaim # "none"
        written == IF met THEN hmClaim ELSE hmRun[r].status
    IN  /\ hmRun[r].pc = "write"
        /\ hmClaim' = written
        /\ hmHunter' = IF met THEN hmHunter ELSE hmRun[r].hunter
        /\ hmRun' = [hmRun EXCEPT ![r] = HubDone(@, "done")]
        /\ UNCHANGED <<hmBounty, hmMerged, hmLink, hmBackers, hmSubmission, hmDelivery>>

\* finish: the outcome is stored, over another one if need be.
HubFinish(r) ==
    /\ hmRun[r].pc = "finish"
    /\ hmDelivery' = [hmDelivery EXCEPT ![hmRun[r].id] = hmRun[r].outcome]
    /\ HubRunEnds(r)
    /\ UNCHANGED <<hmBounty, hmMerged, hmLink, hmBackers, hmSubmission, hmClaim, hmHunter>>

\* The Hub does not answer, an error, the end of the process.
HubRunDies(r) ==
    /\ hmRun[r].pc # "idle"
    /\ HubRunEnds(r)
    /\ HubRunOnly
-----------------------------------------------------------------------------
(* The people, the Hub and the settlement                                   *)

HubRest == UNCHANGED <<hmDelivery, hmHunter>>

\* submitHuggingFacePr: the pull request is open or merged, and by the account
\* its user has linked; the bounty is read again under its lock.
Submit ==
    /\ hmBounty = "funded" /\ hmLink # "none" /\ hmSubmission # "submitted"
    /\ hmSubmission' = "submitted"
    /\ UNCHANGED <<hmBounty, hmMerged, hmLink, hmBackers, hmClaim, hmRun>> /\ HubRest

\* withdrawBountySubmission
Withdraw ==
    /\ hmSubmission = "submitted" /\ hmClaim # "paid"
    /\ hmSubmission' = "none"
    /\ UNCHANGED <<hmBounty, hmMerged, hmLink, hmBackers, hmClaim, hmRun>> /\ HubRest

HubUnlink ==
    /\ hmLink # "none" /\ hmLink' = "none"
    /\ UNCHANGED <<hmBounty, hmMerged, hmBackers, hmSubmission, hmClaim, hmRun>> /\ HubRest

\* A top-up makes the hunter a funder, until there is a claim.
HubBacks ==
    /\ hmBounty = "funded" /\ hmClaim = "none" /\ hmBackers # HubUsers
    /\ hmBackers' = HubUsers
    /\ hmRun' = HubTooLate(hmRun)
    /\ UNCHANGED <<hmBounty, hmMerged, hmLink, hmSubmission, hmClaim>> /\ HubRest

HubMergesPr ==
    /\ ~ hmMerged /\ hmMerged' = TRUE
    /\ UNCHANGED <<hmBounty, hmLink, hmBackers, hmSubmission, hmClaim, hmRun>> /\ HubRest

HubPaid ==
    /\ hmClaim = "eligible" /\ hmBounty = "funded"
    /\ hmClaim' = "paid" /\ hmBounty' = "closed"
    /\ UNCHANGED <<hmMerged, hmLink, hmBackers, hmSubmission, hmRun>> /\ HubRest
-----------------------------------------------------------------------------
HubStep(r) ==
    \/ HubWebhook(r) \/ HubPoll(r)
    \/ (\E u \in HubUsers, d \in HubIds : HubConnect(u, r, d))
    \/ (\E says \in HubReadings : HubFetch(r, says)) \/ HubFetchGone(r) \/ HubTargets(r)
    \/ (\E passes \in BOOLEAN : HubPeople(r, passes)) \/ HubFindHunter(r)
    \/ HubFindClaim(r) \/ HubWriteClaim(r) \/ HubFinish(r) \/ HubRunDies(r)

HubNext ==
    \/ \E r \in HubRuns : HubStep(r)
    \/ Submit \/ Withdraw \/ HubUnlink \/ HubBacks \/ HubMergesPr \/ HubPaid

HubSpec == HubInit /\ [][HubNext]_hmVars
-----------------------------------------------------------------------------
(* Properties                                                               *)

\* The claim of a merged pull request is its author's, and an outsider's.  It
\* becomes eligible for nobody who posted or funded the bounty, whoever links,
\* unlinks or funds meanwhile, unless that came after the evaluation had read
\* the backers (blockedIdentities, then findHunter, apply-merge.ts:397).  What has
\* been won is not taken back by a later look at the people of the repository:
\* an eligible claim becomes disputed, and a paid one open, only through an
\* evaluation that had read the claim before (writeClaim).
HubClaimStays ==
    [][/\ (hmClaim' = "eligible" /\ <<hmClaim, hmHunter>> # <<hmClaim, hmHunter>>') =>
             \/ hmHunter' \notin hmBackers
             \/ \E r \in HubRuns : hmRun[r].pc = "write" /\ hmRun[r].late
       /\ (hmClaim \in {"eligible", "paid"} /\ hmClaim' \notin {hmClaim, "paid"}) =>
             \E r \in HubRuns : /\ hmRun[r].pc = "write"
                                /\ hmRun[r].read \notin {"none", hmClaim}]_hmVars
=============================================================================
