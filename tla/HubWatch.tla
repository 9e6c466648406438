------------------------------ MODULE HubWatch ------------------------------
(***************************************************************************)
(* The watch list of the bot's webhook at Hugging Face                      *)
(* (src/apps/web/src/huggingface/watch.ts): the Hub delivers the events of a *)
(* repository only while it is on the list.  A sync reads the whole list,    *)
(* and writes it back whole with one repository more.  The request that      *)
(* funded a bounty syncs its repository once; every poll syncs, one after    *)
(* the other, the repositories that wait for a merge.  Nothing orders the     *)
(* syncs of different requests, so one may write back a list on which the     *)
(* addition of another is missing.                                          *)
(***************************************************************************)
EXTENDS Naturals, FiniteSets

CONSTANTS
    HwRepos,       \* repositories, each with one bounty
    HwPolls,       \* polls that can run at the same time
    HwNone,        \* no repository
    HwMaxFails     \* bound: syncs that fail or die

ASSUME WatchAssumption ==
    HwNone \notin HwRepos /\ HwRepos \cap HwPolls = {} /\ HwMaxFails \in Nat

VARIABLES
    hwHook,        \* ops made the webhook of the bot account
    hwWatched,     \* its watched repositories
    hwDiscussion,  \* its domains include discussion
    hwBounty,      \* bounty of each repository
    hwSubmission,  \* submission to it; the bound is one of each
    hwSync,        \* the sync of each funding request and of each poll
    hwFails,
    hwSaid         \* history: repositories whose funding was told they are watched

hwVars == <<hwHook, hwWatched, hwDiscussion, hwBounty, hwSubmission, hwSync, hwFails,
            hwSaid>>
hwHub == <<hwHook, hwWatched, hwDiscussion>>
hwRows == <<hwBounty, hwSubmission>>
-----------------------------------------------------------------------------
HwCalls == HwRepos \cup HwPolls

\* A funding request is named by the repository.  todo: what the poll has still to
\* sync.
WatchSync ==
    [pc: {"idle", "next", "list", "update"}, repo: HwRepos \cup {HwNone},
     watched: SUBSET HwRepos, todo: SUBSET HwRepos]
NoSync == [pc |-> "idle", repo |-> HwNone, watched |-> {}, todo |-> {}]

WatchTypeOK ==
    /\ hwHook \in BOOLEAN /\ hwDiscussion \in BOOLEAN
    /\ hwWatched \subseteq HwRepos
    /\ hwBounty \in [HwRepos -> {"draft", "funded", "ended"}]
    /\ hwSubmission \in [HwRepos -> {"none", "submitted", "withdrawn"}]
    /\ hwSync \in [HwCalls -> WatchSync]
    /\ hwFails \in 0..HwMaxFails
    /\ hwSaid \subseteq HwRepos

WatchInit ==
    /\ hwHook \in BOOLEAN /\ hwDiscussion \in BOOLEAN /\ hwWatched = {}
    /\ hwBounty = [r \in HwRepos |-> "draft"]
    /\ hwSubmission = [r \in HwRepos |-> "none"]
    /\ hwSync = [c \in HwCalls |-> NoSync]
    /\ hwFails = 0 /\ hwSaid = {}
-----------------------------------------------------------------------------
(* What calls for a sync                                                    *)

\* lockEscrowFunds has committed, and its request calls watchFundedHuggingFaceBounty.
FundHub(r) ==
    /\ hwBounty[r] = "draft"
    /\ hwBounty' = [hwBounty EXCEPT ![r] = "funded"]
    /\ hwSync' = [hwSync EXCEPT ![r] = [NoSync EXCEPT !.pc = "list", !.repo = r]]
    /\ UNCHANGED <<hwHub, hwSubmission, hwFails, hwSaid>>

\* What the poll selects: submitted pull requests of funded bounties.
WaitsForMerge(r) == hwBounty[r] = "funded" /\ hwSubmission[r] = "submitted"

PollBegins(p) ==
    /\ hwSync[p].pc = "idle"
    /\ hwSync' = [hwSync EXCEPT ![p] =
         [NoSync EXCEPT !.pc = "next", !.todo = {r \in HwRepos : WaitsForMerge(r)}]]
    /\ UNCHANGED <<hwHub, hwRows, hwFails, hwSaid>>

PollTakes(p, r) ==
    /\ hwSync[p].pc = "next" /\ r \in hwSync[p].todo
    /\ hwSync' = [hwSync EXCEPT ![p].pc = "list", ![p].repo = r, ![p].todo = @ \ {r}]
    /\ UNCHANGED <<hwHub, hwRows, hwFails, hwSaid>>

\* The poll goes on to the merges themselves, in HubMerge.
PollEnds(p) ==
    /\ hwSync[p].pc = "next" /\ hwSync[p].todo = {}
    /\ hwSync' = [hwSync EXCEPT ![p] = NoSync]
    /\ UNCHANGED <<hwHub, hwRows, hwFails, hwSaid>>
-----------------------------------------------------------------------------
(* ensureHfRepoWatched                                                      *)

\* The sync is over: the funding request is done, a poll takes the next one.
SyncOver(c) ==
    hwSync' = [hwSync EXCEPT ![c] =
      IF c \in HwPolls THEN [@ EXCEPT !.pc = "next", !.repo = HwNone, !.watched = {}]
      ELSE NoSync]

\* reason "updated" or "already"
SaysWatched(c) == hwSaid' = IF c \in HwPolls THEN hwSaid ELSE hwSaid \cup {c}

Already(r) == r \in hwWatched /\ hwDiscussion

ListWatched(c) ==
    LET r == hwSync[c].repo
    IN  /\ hwSync[c].pc = "list"
        /\ CASE ~ hwHook -> SyncOver(c) /\ UNCHANGED hwSaid       \* no_webhook
             [] hwHook /\ Already(r) -> SyncOver(c) /\ SaysWatched(c)
             [] OTHER -> /\ hwSync' = [hwSync EXCEPT ![c].pc = "update",
                                                     ![c].watched = hwWatched]
                         /\ UNCHANGED hwSaid
        /\ UNCHANGED <<hwHub, hwRows, hwFails>>

\* The list as it was read, and the repository.
NextWatched_Alone(c) == {hwSync[c].repo}
NextWatched_NoName(c) == hwSync[c].watched \cup {HwNone}
NextWatched(c) == hwSync[c].watched \cup {hwSync[c].repo}

WriteWatched(c) ==
    /\ hwSync[c].pc = "update"
    /\ hwWatched' = NextWatched(c) /\ hwDiscussion' = TRUE
    /\ UNCHANGED <<hwHook, hwRows>>

UpdateWatched(c) ==
    /\ WriteWatched(c)
    /\ SaysWatched(c)
    /\ SyncOver(c)
    /\ UNCHANGED hwFails

\* reason "failed": the Hub took the list and its answer was lost, ...
UpdateUnanswered(c) ==
    /\ WriteWatched(c)
    /\ hwFails < HwMaxFails /\ hwFails' = hwFails + 1
    /\ SyncOver(c)
    /\ UNCHANGED hwSaid

\* ... or it did not take it, or did not list.
SyncFails(c) ==
    /\ hwSync[c].pc \in {"list", "update"}
    /\ hwFails < HwMaxFails /\ hwFails' = hwFails + 1
    /\ SyncOver(c)
    /\ UNCHANGED <<hwHub, hwRows, hwSaid>>

\* The instance dies, and with it the poll.
SyncDies(c) ==
    /\ hwSync[c].pc # "idle"
    /\ hwFails < HwMaxFails /\ hwFails' = hwFails + 1
    /\ hwSync' = [hwSync EXCEPT ![c] = NoSync]
    /\ UNCHANGED <<hwHub, hwRows, hwSaid>>
-----------------------------------------------------------------------------
(* What others do                                                           *)

CreateHook ==
    /\ ~ hwHook /\ hwHook' = TRUE
    /\ UNCHANGED <<hwWatched, hwDiscussion, hwRows, hwSync, hwFails, hwSaid>>

SubmitPr(r) ==
    /\ hwBounty[r] = "funded" /\ hwSubmission[r] = "none"
    /\ hwSubmission' = [hwSubmission EXCEPT ![r] = "submitted"]
    /\ UNCHANGED <<hwHub, hwBounty, hwSync, hwFails, hwSaid>>

WithdrawPr(r) ==
    /\ hwSubmission[r] = "submitted"
    /\ hwSubmission' = [hwSubmission EXCEPT ![r] = "withdrawn"]
    /\ UNCHANGED <<hwHub, hwBounty, hwSync, hwFails, hwSaid>>

\* Paid, cancelled or deleted: the repository stays on the list.
EndHubBounty(r) ==
    /\ hwBounty[r] = "funded"
    /\ hwBounty' = [hwBounty EXCEPT ![r] = "ended"]
    /\ UNCHANGED <<hwHub, hwSubmission, hwSync, hwFails, hwSaid>>
-----------------------------------------------------------------------------
WatchNext ==
    \/ \E r \in HwRepos : FundHub(r) \/ SubmitPr(r) \/ WithdrawPr(r) \/ EndHubBounty(r)
    \/ \E p \in HwPolls : PollBegins(p) \/ PollEnds(p) \/ \E r \in HwRepos : PollTakes(p, r)
    \/ \E c \in HwCalls : \/ ListWatched(c) \/ UpdateWatched(c) \/ UpdateUnanswered(c)
                          \/ SyncFails(c) \/ SyncDies(c)
    \/ CreateHook

WatchSpec == WatchInit /\ [][WatchNext]_hwVars

\* A request that is served goes on, and Cloud Scheduler calls the poll again and
\* again.  Nobody has to fund, submit or make the webhook.
FairWatchSpec ==
    /\ WatchSpec
    /\ \A c \in HwCalls : WF_hwVars(ListWatched(c)) /\ WF_hwVars(UpdateWatched(c))
    /\ \A p \in HwPolls : /\ WF_hwVars(PollBegins(p)) /\ WF_hwVars(PollEnds(p))
                          /\ WF_hwVars(\E r \in HwRepos : PollTakes(p, r))
-----------------------------------------------------------------------------
\* Once the webhook is there, the Hub ends up delivering, and goes on delivering,
\* the events of every repository that waits for a merge: whatever the syncs of
\* overlapping fundings and polls took off each other's lists, failed or died.
WaitingIsWatched ==
    \A r \in HwRepos : <>[](hwHook /\ WaitsForMerge(r) => Already(r))

\* "After a successful fund, and again on each poll, the app adds { type, name } to
\* the bot webhook" (README.md:295): when a poll ends and no other sync is under way,
\* a funded repository whose funding was told that it is watched is watched.  It is not
\* so after two fundings that overlap, while nobody has submitted to the first.
FundedIsWatched ==
    [][\A p \in HwPolls :
         /\ hwSync[p].pc = "next" /\ hwSync[p].todo = {}
         /\ \A c \in HwCalls : hwSync'[c].pc = "idle"
         => \A r \in hwSaid : hwBounty[r] = "funded" => r \in hwWatched]_hwVars
=============================================================================
