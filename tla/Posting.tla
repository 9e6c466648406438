------------------------------ MODULE Posting ------------------------------
(***************************************************************************)
(* Posting a bounty on an issue and what happens around the draft           *)
(* (src/apps/web/src/bounties): the repository row that a new bounty refers  *)
(* to, which the GitHub App may own; the one active bounty of the issue;     *)
(* the residual claim-locks that every read of the board drains; and the     *)
(* "Working on this" signal.  Each of them reads, waits, and writes what it   *)
(* read to be right.                                                        *)
(*                                                                         *)
(* A call follows one issue, or one discussion of a Hugging Face repository *)
(* (hf-create.ts), which has no App.                                        *)
(***************************************************************************)
EXTENDS Naturals, FiniteSets

CONSTANTS
    PoCalls,       \* requests that can run at the same time
    PoDrafts,      \* bounties that can be posted on the issue
    PoNone,        \* no bounty
    PoInputs       \* basis points an administrator may type

ASSUME PostingAssumption ==
    /\ PoNone \notin PoDrafts
    /\ PoInputs \subseteq Nat

VARIABLES
    poBounty,      \* bounties of the issue
    poLock,        \* the residual claim_locks row: its bounty and whether it is active
    poRepo,        \* the repos row: connection_kind, or that it is not active
    poSignals,     \* uncleared work_signals rows of one hunter
    poRates,       \* platform_settings: fee_bps and pool_bps
    poStamp,       \* the rates a bounty was stamped with, if it was posted
    poCall         \* requests in flight

poVars == <<poBounty, poLock, poRepo, poSignals, poRates, poStamp, poCall>>
-----------------------------------------------------------------------------
\* "locked" is claim_locked; "ended" is every status out of ACTIVE_BOUNTY_STATUSES.
DraftStatus == {"none", "pending_fund", "funded", "locked", "settling", "ended"}
PostingRepos == {"none", "public_reference", "app_install", "inactive", "hub"}

\* FEE_BPS, POOL_BPS_OF_POST_FEE, and the ranges of percent.ts
DefaultRates == [fee |-> 200, pool |-> 1500]
RateRange == [fee |-> 0..1000, pool |-> 1000..2000]
PlatformRates == [fee: RateRange.fee, pool: RateRange.pool]

PostingCall ==
    [pc: {"idle", "repo", "write", "insert", "stamp", "rates", "connect", "drain", "signal"},
     saw: PostingRepos,
     rates: PlatformRates,    \* the settings as read
     next: PlatformRates,     \* the settings to write
     stale: BOOLEAN]      \* history: another write came since the read
NoPosting ==
    [pc |-> "idle", saw |-> "none", rates |-> DefaultRates, next |-> DefaultRates,
     stale |-> FALSE]

PostingTypeOK ==
    /\ poBounty \in [PoDrafts -> DraftStatus]
    /\ poLock \in [of: PoDrafts \cup {PoNone}, active: BOOLEAN]
    /\ poRepo \in PostingRepos
    /\ poSignals \in Nat
    /\ poRates \in PlatformRates
    /\ DOMAIN poStamp \subseteq PoDrafts
    /\ poCall \in [PoCalls -> PostingCall]

\* The database may hold a bounty that was claim_locked when locks were retired.
PostingInit ==
    /\ \/ poLock = [of |-> PoNone, active |-> FALSE] /\ poRepo = "none"
          /\ poBounty = [d \in PoDrafts |-> "none"]
       \/ poLock = [of |-> PoNone, active |-> FALSE] /\ poRepo = "hub"
          /\ poBounty = [d \in PoDrafts |-> "none"]
       \/ \E d \in PoDrafts :
            /\ poLock = [of |-> d, active |-> TRUE] /\ poRepo = "public_reference"
            /\ poBounty = [x \in PoDrafts |-> IF x = d THEN "locked" ELSE "none"]
    /\ poSignals = 0
    /\ poRates = DefaultRates
    /\ poStamp = <<>>
    /\ poCall = [c \in PoCalls |-> NoPosting]

PoAt(c, pc) == poCall[c].pc = pc
PoBegin(c, pc, saw) ==
    /\ PoAt(c, "idle")
    /\ poCall' = [poCall EXCEPT ![c] = [NoPosting EXCEPT !.pc = pc, !.saw = saw]]
PoGoto(c, pc) == poCall' = [poCall EXCEPT ![c].pc = pc]
PoEnd(c) == poCall' = [poCall EXCEPT ![c] = NoPosting]

\* The end of a call whose write outdates what the calls at pcs have read.
PoEndOutdating(c, pcs) ==
    poCall' = [d \in PoCalls |->
      IF d = c THEN NoPosting
      ELSE [poCall[d] EXCEPT !.stale = @ \/ poCall[d].pc \in pcs]]

OnIssue == {d \in PoDrafts : poBounty[d] \notin {"none", "ended"}}
-----------------------------------------------------------------------------
(* createBountyFromIssueUrl                                                 *)

\* findActiveRepoByFullName: an issue of the App is read through the
\* installation and keeps its row, any other one as the public sees it.
FetchIssue(c) ==
    /\ poRepo # "hub"
    /\ PoBegin(c, IF poRepo = "app_install" THEN "insert" ELSE "repo", "none")
    /\ UNCHANGED <<poBounty, poLock, poRepo, poSignals, poRates, poStamp>>

\* createHuggingFaceBounty, to its transaction: whoever posts first makes the row
\* of the repository, which is the same whoever writes it.
FetchDiscussion(c) ==
    /\ poRepo = "hub"
    /\ PoBegin(c, "insert", "none")
    /\ UNCHANGED <<poBounty, poLock, poRepo, poSignals, poRates, poStamp>>

\* The issue is closed, a pull request, or cannot be read; or the instance dies.
GiveUpPosting(c) ==
    /\ ~ PoAt(c, "idle")
    /\ PoEnd(c)
    /\ UNCHANGED <<poBounty, poLock, poRepo, poSignals, poRates, poStamp>>

OwnedByApp_Unasked(repo) == FALSE
OwnedByApp(repo) == repo = "app_install"

\* upsertPublicReferenceRepo reads the row and leaves one of the App alone ...
ReadRepo(c) ==
    /\ PoAt(c, "repo")
    /\ poCall' = [poCall EXCEPT ![c] =
         [NoPosting EXCEPT !.pc = IF OwnedByApp(poRepo) THEN "insert" ELSE "write",
                           !.saw = poRepo]]
    /\ UNCHANGED <<poBounty, poLock, poRepo, poSignals, poRates, poStamp>>

\* ... inserts one, or writes by id; an insert that comes second tries again.
WriteRepo(c) ==
    /\ PoAt(c, "write")
    /\ IF poCall[c].saw = "none" /\ poRepo # "none"
       THEN PoGoto(c, "repo") /\ UNCHANGED poRepo
       ELSE PoGoto(c, "insert") /\ poRepo' = "public_reference"
    /\ UNCHANGED <<poBounty, poLock, poSignals, poRates, poStamp>>

\* The transaction reads the rates of the day ...
ReadRates(c) ==
    /\ PoAt(c, "insert")
    /\ poCall' = [poCall EXCEPT ![c] =
         [NoPosting EXCEPT !.pc = "stamp", !.rates = poRates]]
    /\ UNCHANGED <<poBounty, poLock, poRepo, poSignals, poRates, poStamp>>

\* ... and inserts the bounty with them, and its pending escrow; the index
\* bounties_one_active_per_issue refuses a second one.
InsertBounty(c) ==
    /\ PoAt(c, "stamp")
    /\ IF OnIssue = {}
       THEN \E d \in PoDrafts :
              /\ poBounty[d] = "none"
              /\ poBounty' = [poBounty EXCEPT ![d] = "pending_fund"]
              /\ poStamp' = [x \in DOMAIN poStamp \cup {d} |->
                              IF x = d THEN poCall[c].rates ELSE poStamp[x]]
       ELSE UNCHANGED <<poBounty, poStamp>>
    /\ PoEnd(c)
    /\ UNCHANGED <<poLock, poRepo, poSignals, poRates>>
-----------------------------------------------------------------------------
(* completeGitHubAppReturn, for the installation; the App's webhook         *)

\* confirmInstallation and listInstallationRepos
ConfirmInstallation(c) ==
    /\ poRepo # "hub"
    /\ PoBegin(c, "connect", poRepo)
    /\ UNCHANGED <<poBounty, poLock, poRepo, poSignals, poRates, poStamp>>

\* upsertInstallationRepos
SaveInstallation(c) ==
    /\ PoAt(c, "connect")
    /\ poRepo' = "app_install"
    /\ PoEndOutdating(c, {"write"})
    /\ UNCHANGED <<poBounty, poLock, poSignals, poRates, poStamp>>

\* deactivateReposForInstallation, or the repository is no longer selected.
RemoveApp ==
    /\ poRepo = "app_install"
    /\ poRepo' = "inactive"
    /\ UNCHANGED <<poBounty, poLock, poSignals, poRates, poStamp, poCall>>
-----------------------------------------------------------------------------
(* Money, in Funding and Settlement                                         *)

MoveBounty(d) ==
    /\ \/ poBounty[d] = "pending_fund" /\ poBounty' = [poBounty EXCEPT ![d] = "funded"]
       \/ poBounty[d] = "funded" /\ poBounty' = [poBounty EXCEPT ![d] = "settling"]
       \/ poBounty[d] \notin {"none", "ended"} /\ poBounty' = [poBounty EXCEPT ![d] = "ended"]
    /\ UNCHANGED <<poLock, poRepo, poSignals, poRates, poStamp, poCall>>
-----------------------------------------------------------------------------
(* drainExclusiveClaimLocks, on every read of the board, and releaseClaimLock *)

ReadLocks(c) ==
    /\ poLock.active
    /\ PoBegin(c, "drain", "none")
    /\ UNCHANGED <<poBounty, poLock, poRepo, poSignals, poRates, poStamp>>

\* One transaction: only an active lock is drained, and only a bounty that is
\* still claim_locked opens again.
DrainLocks(c) ==
    /\ PoAt(c, "drain")
    /\ IF poLock.active
       THEN /\ poLock' = [poLock EXCEPT !.active = FALSE]
            /\ poBounty' = [poBounty EXCEPT ![poLock.of] = IF @ = "locked" THEN "funded" ELSE @]
       ELSE UNCHANGED <<poLock, poBounty>>
    /\ PoEnd(c)
    /\ UNCHANGED <<poRepo, poSignals, poRates, poStamp>>
-----------------------------------------------------------------------------
(* signalWorkingOnThis, clearWorkSignal                                     *)

\* An uncleared row is answered as it is.
AskSignal(c) ==
    /\ \E d \in OnIssue : poBounty[d] # "settling"
    /\ poSignals = 0
    /\ PoBegin(c, "signal", "none")
    /\ UNCHANGED <<poBounty, poLock, poRepo, poSignals, poRates, poStamp>>

InsertSignal(c) ==
    /\ PoAt(c, "signal")
    /\ poSignals' = poSignals + 1
    /\ PoEndOutdating(c, {"signal"})
    /\ UNCHANGED <<poBounty, poLock, poRepo, poRates, poStamp>>

\* Clears every row of the hunter; a signal that is being asked for comes after.
ClearSignal ==
    /\ poSignals # 0
    /\ poSignals' = 0
    /\ UNCHANGED <<poBounty, poLock, poRepo, poRates, poStamp, poCall>>
-----------------------------------------------------------------------------
(* setPlatformFee, setPlatformPool                                          *)

\* resolveFeeBps, resolvePoolBps: basis points, a percentage of at most two
\* decimals, or both if they agree.  A refusal is audited and changes nothing.
ResolvedRate(given, range) ==
    IF Cardinality(given) = 1 /\ given \subseteq range THEN given ELSE {}

\* The other rate is written as it was read.
NextRates(read, which, bps) == [read EXCEPT ![which] = bps]

\* writeRates reads the row, without a lock, ...
AskRate(c, which) ==
    /\ PoAt(c, "idle")
    /\ \E given \in SUBSET PoInputs : \E bps \in ResolvedRate(given, RateRange[which]) :
         poCall' = [poCall EXCEPT ![c] =
           [NoPosting EXCEPT !.pc = "rates", !.rates = poRates,
                             !.next = NextRates(poRates, which, bps)]]
    /\ UNCHANGED <<poBounty, poLock, poRepo, poSignals, poRates, poStamp>>

\* ... and writes both columns, and the audit row, unless nothing changes.
WriteRates(c) ==
    /\ PoAt(c, "rates")
    /\ IF poCall[c].next = poCall[c].rates THEN UNCHANGED poRates /\ PoEnd(c)
       ELSE poRates' = poCall[c].next /\ PoEndOutdating(c, {"rates", "stamp"})
    /\ UNCHANGED <<poBounty, poLock, poRepo, poSignals, poStamp>>
-----------------------------------------------------------------------------
PostingNext ==
    \/ \E c \in PoCalls :
         \/ FetchIssue(c) \/ FetchDiscussion(c) \/ GiveUpPosting(c) \/ ReadRepo(c) \/ WriteRepo(c)
         \/ ReadRates(c) \/ InsertBounty(c) \/ WriteRates(c)
         \/ \E which \in DOMAIN RateRange : AskRate(c, which)
         \/ ConfirmInstallation(c) \/ SaveInstallation(c)
         \/ ReadLocks(c) \/ DrainLocks(c) \/ AskSignal(c) \/ InsertSignal(c)
    \/ \E d \in PoDrafts : MoveBounty(d)
    \/ RemoveApp \/ ClearSignal

PostingSpec == PostingInit /\ [][PostingNext]_poVars
-----------------------------------------------------------------------------
\* A repository of the App stays with it, so that webhooks keep it, although
\* strangers post bounties on its issues: only a post that read the row before
\* the App came writes over it (persist.ts:200).
AppKeepsRepo ==
    poRepo = "app_install" /\ poRepo' = "public_reference" =>
      \E c \in PoCalls : PoAt(c, "write") /\ poCall[c].stale

\* A bounty that has ended is not opened again by a lock that was read before.
EndedStaysEnded == \A d \in PoDrafts : poBounty[d] = "ended" => poBounty'[d] = "ended"

\* A second signal of a hunter needs a call that looked before the first.
SecondSignalIsStale ==
    poSignals' > poSignals /\ poSignals # 0 =>
      \E c \in PoCalls : PoAt(c, "signal") /\ poCall[c].stale

\* An administrator changes one rate, within its range, and a bounty is posted
\* with the rates of the day, unless they were read before another change; its
\* stamp stays (settings.ts:89).
RatesAsAnnounced ==
    LET stale(pc) == \E c \in PoCalls : PoAt(c, pc) /\ poCall[c].stale
    IN  /\ poRates'.fee # poRates.fee /\ poRates'.pool # poRates.pool => stale("rates")
        /\ \A d \in DOMAIN poStamp' :
             IF d \in DOMAIN poStamp THEN poStamp'[d] = poStamp[d]
             ELSE poStamp'[d] = poRates \/ stale("stamp")

\* What a request read before it waited does not undo what others did meanwhile,
\* except where nothing guards the write: a repository that the App takes over
\* while a bounty is posted, a signal that is given twice, and two rates that are
\* set at once.
StaleReadsUndoNothing ==
    [][AppKeepsRepo /\ EndedStaysEnded /\ SecondSignalIsStale /\ RatesAsAnnounced]_poVars
=============================================================================
