---------------------------- MODULE AccountLinks ----------------------------
(***************************************************************************)
(* Which user a merged pull request is credited to                         *)
(* (src/apps/web/src/github, src/apps/web/src/huggingface): a user connects  *)
(* an account of the provider, whose id and name are kept in github_links or *)
(* hf_links; accounts are renamed and names are taken over; a merge looks   *)
(* for the author by id and then by name, and records the outcome after      *)
(* further awaits; and the merges that nobody was linked to are looked at     *)
(* again when an account is connected.                                       *)
(*                                                                         *)
(* MergeDelivery and HubMerge have the claim that a merge writes, and what   *)
(* happens when deliveries of one merge overlap or fail half way; here one   *)
(* delivery of a merge is under way at a time, next to the backfills.         *)
(***************************************************************************)
EXTENDS FiniteSets

CONSTANTS
    AlUsers, AlAccounts, AlNames,
    AlMerges,      \* merged pull requests
    AlNone

ASSUME LinksAssumption == AlNone \notin AlUsers \cup AlAccounts \cup AlNames

VARIABLES
    alHub,       \* the provider is Hugging Face
    alName,      \* the provider: name of each account
    alHolder,    \* the provider: account that held a name last
    alPassed,    \* history: names that went from one account to another
    alLink,      \* github_links or hf_links, by user
    alFlow,      \* the callback of each user's Connect
    alMerge,     \* what is recorded of the merges
    alDelivery   \* the delivery of a merge that is under way

alVars == <<alHub, alName, alHolder, alPassed, alLink, alFlow, alMerge, alDelivery>>
alProvider == <<alHub, alName, alHolder, alPassed>>
-----------------------------------------------------------------------------
\* filled: the backfill that follows the link has ended.
AccountLink == [acc: AlAccounts, name: AlNames, filled: BOOLEAN]
NoLink == [acc |-> AlNone]

\* What findHunter answered for a merge, to be recorded later; user is AlNone for
\* CLAIM_SKIP.hunterNotLinked.  right: the user was linked to the account, or the
\* name had gone from one account to another.  overtaken: a backfill of the account
\* has read the rows since.
Lookup == [m: AlMerges, acc: AlAccounts, name: AlNames, user: AlUsers \cup {AlNone},
           right: BOOLEAN, overtaken: BOOLEAN]
NoLookup == [acc |-> AlNone]

\* batch: the rows that the backfill has read and not yet looked at.
LinkFlow == [pc: {"link", "scan", "backfill", "write"}, acc: AlAccounts, name: AlNames,
             batch: SUBSET AlMerges, hit: Lookup \cup {NoLookup}]
NoFlow == [pc |-> "idle", hit |-> NoLookup]

\* user has the claim; waits: the delivery says hunterNotLinked.  late: it says so
\* by a lookup that was overtaken.
AlMergeRow == [acc: AlAccounts, name: AlNames, user: AlUsers \cup {AlNone},
               waits: BOOLEAN, right: BOOLEAN, late: BOOLEAN]
NoMergeRow == [acc |-> AlNone]

LinksTypeOK ==
    /\ alHub \in BOOLEAN /\ alName \in [AlAccounts -> AlNames \cup {AlNone}]
    /\ alHolder \in [AlNames -> AlAccounts \cup {AlNone}] /\ alPassed \subseteq AlNames
    /\ alLink \in [AlUsers -> AccountLink \cup {NoLink}]
    /\ alFlow \in [AlUsers -> LinkFlow \cup {NoFlow}]
    /\ alMerge \in [AlMerges -> AlMergeRow \cup {NoMergeRow}]
    /\ alDelivery \in [AlMerges -> Lookup \cup {NoLookup}]

LinksInit ==
    /\ alHub \in BOOLEAN
    /\ alName = [a \in AlAccounts |-> AlNone]    \* not signed up yet
    /\ alHolder = [n \in AlNames |-> AlNone]
    /\ alPassed = {}
    /\ alLink = [u \in AlUsers |-> NoLink]
    /\ alFlow = [u \in AlUsers |-> NoFlow]
    /\ alMerge = [m \in AlMerges |-> NoMergeRow]
    /\ alDelivery = [m \in AlMerges |-> NoLookup]

LinkedTo(a) == {u \in AlUsers : alLink[u].acc = a}
LinkedAs(n) == {u \in AlUsers : alLink[u] # NoLink /\ alLink[u].name = n}

\* findGithubLinkByIdOrLogin, and findHunter of the Hub: by id, or else whoever
\* has the name on the link.
FoundBy(a, n) == IF LinkedTo(a) # {} THEN LinkedTo(a) ELSE LinkedAs(n)
Hunters(a, n) == IF FoundBy(a, n) = {} THEN {AlNone} ELSE FoundBy(a, n)

\* The answer u about a merge of account a, which was looked for as n.
Looked(m, a, n, u) ==
    [m |-> m, acc |-> a, name |-> n, user |-> u, overtaken |-> FALSE,
     right |-> u # AlNone /\ (alLink[u].acc = a \/ n \in alPassed)]

\* The claim is written and the delivery says so, or it says that nobody is
\* linked; that leaves a claim alone.
Recorded(l) ==
    IF l.user = AlNone /\ alMerge[l.m] # NoMergeRow
    THEN [alMerge EXCEPT ![l.m].name = l.name, ![l.m].waits = TRUE,
                         ![l.m].late = l.overtaken]
    ELSE [alMerge EXCEPT ![l.m] =
           [acc |-> l.acc, name |-> l.name, user |-> l.user, waits |-> l.user = AlNone,
            right |-> l.right, late |-> l.overtaken]]
-----------------------------------------------------------------------------
(* The provider                                                             *)

\* The account signs up under the name, or takes it instead of the one it has.
TakeName(a, n) ==
    /\ \A b \in AlAccounts : alName[b] # n
    /\ alName' = [alName EXCEPT ![a] = n]
    /\ alHolder' = [alHolder EXCEPT ![n] = a]
    /\ alPassed' = alPassed \cup IF alHolder[n] \in {a, AlNone} THEN {} ELSE {n}
    /\ UNCHANGED <<alHub, alLink, alFlow, alMerge, alDelivery>>
-----------------------------------------------------------------------------
(* Connect: completeGitHubAppReturn, completeHuggingFaceConnect             *)

\* The code that the user comes back with is exchanged for who the account is now.
ReadIdentity(u, a) ==
    /\ alFlow[u] = NoFlow /\ alName[a] # AlNone
    /\ alFlow' = [alFlow EXCEPT ![u] = [pc |-> "link", acc |-> a, name |-> alName[a],
                                        batch |-> {}, hit |-> NoLookup]]
    /\ UNCHANGED <<alProvider, alLink, alMerge, alDelivery>>

\* The state is of this user and 30 minutes old at most.  A return that is
\* refused, or has only an installation, leaves the links alone.
GitHubReturns(u, a) == ~ alHub /\ ReadIdentity(u, a)

\* The verifier in the cookie fits the state, too.
HuggingFaceReturns(u, a) == alHub /\ ReadIdentity(u, a)

\* upsertGithubLink, linkHuggingFaceAccount: the row of the user, new or not.
LinkRow_KeepsName(u, a, n) ==
    [acc |-> a, name |-> IF alLink[u] = NoLink THEN n ELSE alLink[u].name, filled |-> FALSE]
LinkRow_NoName(u, a, n) == [acc |-> a, name |-> AlNone, filled |-> FALSE]
LinkRow(u, a, n) == [acc |-> a, name |-> n, filled |-> FALSE]

\* The account is unique in its table: one that another user has is refused.
LinkAccount(u) ==
    LET f == alFlow[u]
    IN  /\ f.pc = "link"
        /\ IF LinkedTo(f.acc) \subseteq {u}
           THEN /\ alLink' = [alLink EXCEPT ![u] = LinkRow(u, f.acc, f.name)]
                /\ alFlow' = [alFlow EXCEPT ![u].pc = "scan"]
           ELSE alFlow' = [alFlow EXCEPT ![u] = NoFlow] /\ UNCHANGED alLink
        /\ UNCHANGED <<alProvider, alMerge, alDelivery>>

\* backfillUnlinkedClaimsForHunter and backfillHuggingFaceClaimsForHunter read the
\* deliveries once and take the merges that were recorded under the name.
PendingFor(u) ==
    {m \in AlMerges : /\ alMerge[m] # NoMergeRow
                      /\ alMerge[m].waits /\ alMerge[m].name = alFlow[u].name}

\* A lookup about the account that found nobody comes too late for this reading.
Overtakes(a, l) ==
    IF l.acc = a /\ l.user = AlNone THEN [l EXCEPT !.overtaken = TRUE] ELSE l

BackfillReads(u) ==
    LET a == alFlow[u].acc
    IN  /\ alFlow[u].pc = "scan"
        /\ alFlow' = [v \in AlUsers |->
             IF v = u THEN [alFlow[u] EXCEPT !.pc = "backfill", !.batch = PendingFor(u)]
             ELSE [alFlow[v] EXCEPT !.hit = Overtakes(a, @)]]
        /\ alDelivery' = [m \in AlMerges |-> Overtakes(a, alDelivery[m])]
        /\ UNCHANGED <<alProvider, alLink, alMerge>>

\* GitHub's looks for the account that was connected; the Hub's reads the author
\* of the merge again.
BackfillLooks(u, m) ==
    LET f == alFlow[u]
        a == alMerge[m].acc
        n == IF alHub THEN alName[a] ELSE f.name
    IN  /\ f.pc = "backfill" /\ m \in f.batch
        /\ \E v \in Hunters(IF alHub THEN a ELSE f.acc, n) :
             alFlow' = [alFlow EXCEPT ![u] =
               [f EXCEPT !.pc = "write", !.batch = f.batch \ {m}, !.hit = Looked(m, a, n, v)]]
        /\ UNCHANGED <<alProvider, alLink, alMerge, alDelivery>>

BackfillWrites(u) ==
    /\ alFlow[u].pc = "write"
    /\ alMerge' = Recorded(alFlow[u].hit)
    /\ alFlow' = [alFlow EXCEPT ![u] = [@ EXCEPT !.pc = "backfill", !.hit = NoLookup]]
    /\ UNCHANGED <<alProvider, alLink, alDelivery>>

BackfillEnds(u) ==
    /\ alFlow[u].pc = "backfill" /\ alFlow[u].batch = {}
    /\ alFlow' = [alFlow EXCEPT ![u] = NoFlow]
    /\ alLink' = [alLink EXCEPT ![u] =
         IF @ = LinkRow(u, alFlow[u].acc, alFlow[u].name) THEN [@ EXCEPT !.filled = TRUE]
         ELSE @]
    /\ UNCHANGED <<alProvider, alMerge, alDelivery>>

\* The provider does not answer, the backfill throws, or the instance dies.
FlowDies(u) ==
    /\ alFlow[u] # NoFlow
    /\ alFlow' = [alFlow EXCEPT ![u] = NoFlow]
    /\ UNCHANGED <<alProvider, alLink, alMerge, alDelivery>>

\* unlinkGithubForUser, unlinkHuggingFaceForUser
UnlinkAccount(u) ==
    /\ alLink[u] # NoLink
    /\ alLink' = [alLink EXCEPT ![u] = NoLink]
    /\ UNCHANGED <<alProvider, alFlow, alMerge, alDelivery>>
-----------------------------------------------------------------------------
\* A merge by the account is delivered, or delivered again while its author is
\* not linked: GitHub's payload has the name of that time, the Hub is asked.  The
\* author is looked for (claims.ts:78) ...
DeliveryLooks(m, a) ==
    LET row == alMerge[m]
        n == IF row = NoMergeRow \/ alHub THEN alName[a] ELSE row.name
    IN  /\ alDelivery[m] = NoLookup /\ alName[a] # AlNone
        /\ row = NoMergeRow \/ (row.acc = a /\ row.waits)
        /\ \E u \in Hunters(a, n) :
             alDelivery' = [alDelivery EXCEPT ![m] = Looked(m, a, n, u)]
        /\ UNCHANGED <<alProvider, alLink, alFlow, alMerge>>

\* ... and what became of it is recorded after the claims and the pool freeze.
DeliveryWrites(m) ==
    /\ alDelivery[m] # NoLookup
    /\ alMerge' = Recorded(alDelivery[m])
    /\ alDelivery' = [alDelivery EXCEPT ![m] = NoLookup]
    /\ UNCHANGED <<alProvider, alLink, alFlow>>

\* Nothing is recorded; GitHub may deliver it again.
DeliveryDies(m) ==
    /\ alDelivery[m] # NoLookup
    /\ alDelivery' = [alDelivery EXCEPT ![m] = NoLookup]
    /\ UNCHANGED <<alProvider, alLink, alFlow, alMerge>>
-----------------------------------------------------------------------------
LinksNext ==
    \/ \E a \in AlAccounts, n \in AlNames : TakeName(a, n)
    \/ \E u \in AlUsers :
         \/ \E a \in AlAccounts : GitHubReturns(u, a) \/ HuggingFaceReturns(u, a)
         \/ LinkAccount(u) \/ BackfillReads(u) \/ BackfillWrites(u) \/ BackfillEnds(u)
         \/ FlowDies(u) \/ UnlinkAccount(u)
         \/ \E m \in AlMerges : BackfillLooks(u, m)
    \/ \E m \in AlMerges :
         \/ \E a \in AlAccounts : DeliveryLooks(m, a)
         \/ DeliveryWrites(m) \/ DeliveryDies(m)

LinksSpec == LinksInit /\ [][LinksNext]_alVars
-----------------------------------------------------------------------------
\* A merge goes to a user who had connected the account that wrote it when the
\* author was looked for.  Another user gets it only by a name that one account
\* gave up and another took: the link keeps the name that the account had when it
\* was connected, and a merge whose id is not linked is looked up by name
\* (github/persist.ts:26).
CreditedToAuthor ==
    \A m \in AlMerges : alMerge[m] # NoMergeRow =>
      alMerge[m].user = AlNone \/ alMerge[m].right

\* Once an account is connected and the backfill has ended, its earlier merges
\* are credited, unless they were recorded under another name than the link's, or
\* after the backfill had read the rows, from a lookup made before the link.
EarlierMergesFound ==
    \A u \in AlUsers, m \in AlMerges :
      /\ alLink[u] # NoLink /\ alLink[u].filled
      /\ alMerge[m].acc = alLink[u].acc
      => alMerge[m].user # AlNone \/ alMerge[m].late \/ alMerge[m].name # alLink[u].name

AuthorFound == CreditedToAuthor /\ EarlierMergesFound

\* What the comment of GitHub's backfill says: "attach any hunter_not_linked
\* outcomes whose winner login/id now matches this user" (claims.ts:207).  It is
\* not so for an account that was renamed: the id is not compared.
LoginOrIdAttached ==
    ~ alHub => \A u \in AlUsers, m \in AlMerges :
      /\ alLink[u] # NoLink /\ alLink[u].filled
      /\ alMerge[m].acc = alLink[u].acc
      => alMerge[m].user # AlNone \/ alMerge[m].late
=============================================================================
