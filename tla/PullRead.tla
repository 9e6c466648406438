------------------------------ MODULE PullRead ------------------------------
(***************************************************************************)
(* How the application reads the pull requests of an issue from GitHub while  *)
(* they are opened and merged: the merged ones that may close it              *)
(* (listPublicClosingPulls in github/public-read.ts, for the poller of        *)
(* repositories without the App), all that mention it, for the pool           *)
(* (fetchPoolPullRequests in github/pool-snapshot.ts), and what a delivered    *)
(* merge closes (fetchMergeSurfaces in github/api.ts).  The first two ask     *)
(* several lists one after the other, of which every one is cut at a page,    *)
(* may fail or may lag, and then every pull request by itself.                *)
(***************************************************************************)
EXTENDS Integers, FiniteSets, Sequences, SequencesExt

CONSTANTS
    PrPulls,      \* numbers of pull requests
    PrWorlds,     \* what each has to do with the issue: [PrPulls -> PrKinds]
    PrMax,        \* MAX_PULLS, and closedByPullRequestsReferences(first: 20)
    PrPage,       \* timeline entries of a page
    PrPages       \* pages the snapshot reads at most

\* "mention" names the issue, "body" and "commit" say there that it closes it,
\* "sidebar" was linked by hand, "elsewhere" is of another repository.
PrKinds == {"mention", "body", "commit", "sidebar", "elsewhere"}

ASSUME PullReadAssumption ==
    /\ PrPulls \subseteq Nat /\ IsFiniteSet(PrPulls)
    /\ PrWorlds \subseteq [PrPulls -> PrKinds]
    /\ {PrMax, PrPage, PrPages} \subseteq Nat \ {0}

VARIABLES
    prKind,       \* GitHub: what a pull request has to do with the issue
    prToken,      \* GITHUB_PUBLIC_READ_TOKEN is set
    prTimeline,   \* GitHub: the timeline of the issue
    prMerged,     \* GitHub: merged pull requests
    prRead        \* the reader

prVars == <<prKind, prToken, prTimeline, prMerged, prRead>>
prHub == <<prKind, prToken, prTimeline, prMerged>>
-----------------------------------------------------------------------------
PullReader ==
    [pc: {"idle", "graph", "timeline", "search", "list", "pulls", "surfaces",
          "done"},
     asks: {"closing", "pool", "delivery"},
     graph: SUBSET PrPulls,        \* byNumber, as GraphQL fills it
     nums: Seq(PrPulls),           \* numbers, in the order they were added
     limited: BOOLEAN,             \* sawRateLimit
     todo: Seq(PrPulls),           \* to be read one by one
     found: SUBSET PrPulls,        \* byNumber, or pulls
     due: SUBSET PrPulls]          \* history: what it should show, as it began,
                                   \* less what failed requests would have shown
NoReader ==
    [pc |-> "idle", asks |-> "closing", graph |-> {}, nums |-> <<>>, limited |-> FALSE,
     todo |-> <<>>, found |-> {}, due |-> {}]

PullTypeOK ==
    /\ prKind \in PrWorlds /\ prToken \in BOOLEAN
    /\ prTimeline \in Seq(PrPulls) /\ IsInjective(prTimeline)
    /\ prMerged \subseteq PrPulls
    /\ prRead \in PullReader

PullInit ==
    /\ prKind \in PrWorlds /\ prToken \in BOOLEAN
    /\ prTimeline = <<>> /\ prMerged = {}
    /\ prRead = NoReader

Here == {p \in PrPulls : prKind[p] # "elsewhere"}
Linked == {p \in Here : prKind[p] \in {"body", "sidebar"}}
Closing == {p \in Here : prKind[p] # "mention"}
FirstPages(n) == SubSeq(prTimeline, 1, IF Len(prTimeline) < n * PrPage THEN Len(prTimeline)
                                                                     ELSE n * PrPage)

PrGoto(fields) == prRead' = fields /\ UNCHANGED prHub

\* The numbers of a set in order, and those of a list that are in a set, as listed.
Ascending(pulls) ==
    CHOOSE s \in SetToSeqs(pulls) : \A i, j \in DOMAIN s : i < j => s[i] < s[j]
Among(nums, pulls) ==
    LET at == Ascending({i \in DOMAIN nums : nums[i] \in pulls})
    IN  [k \in DOMAIN at |-> nums[at[k]]]
-----------------------------------------------------------------------------
(* GitHub                                                                   *)

\* Other events of the timeline, a label or a comment, are as one "elsewhere".
Mention(p) ==
    /\ p \notin ToSet(prTimeline)
    /\ prTimeline' = Append(prTimeline, p)
    /\ UNCHANGED <<prKind, prToken, prMerged, prRead>>

MergePull(p) ==
    /\ p \in Here \ prMerged
    /\ prMerged' = prMerged \cup {p}
    /\ UNCHANGED <<prKind, prToken, prTimeline, prRead>>
-----------------------------------------------------------------------------
(* The lists                                                                *)

\* What a closing read shows if nothing fails: of the first page, and what is
\* linked if there is a token to ask for it.
DueClosing ==
    {p \in prMerged \cap Closing :
       \/ prKind[p] # "sidebar" /\ p \in ToSet(FirstPages(1))
       \/ prToken /\ p \in Linked /\ Cardinality(Linked) <= PrMax}

\* The repository is read first: private, gone or limited ends the call.
BeginClosing ==
    /\ prRead.pc = "idle"
    /\ PrGoto([NoReader EXCEPT !.pc = IF prToken THEN "graph" ELSE "timeline",
                               !.due = DueClosing])

\* The installation's token, or the public one; the merged pull request that
\* brought the delivery is included.
BeginSnapshot(p) ==
    /\ prRead.pc = "idle" /\ p \in prMerged
    /\ PrGoto([NoReader EXCEPT !.pc = "search", !.asks = "pool", !.nums = <<p>>,
                               !.due = {p} \cup (ToSet(FirstPages(PrPages)) \cap Here)])

\* closingPullsFromGraphql: open ones use up the page and are left out.
ReadGraph ==
    /\ prRead.pc = "graph"
    /\ \/ \E page \in SUBSET Linked :
            LET merged == page \cap prMerged
            IN  /\ page = Linked \/ Cardinality(page) = PrMax
                /\ Cardinality(page) <= PrMax
                /\ PrGoto([prRead EXCEPT !.pc = "timeline", !.graph = merged, !.found = merged,
                                         !.nums = SetToSeq(merged)])
       \/ PrGoto([prRead EXCEPT !.pc = "timeline",
                    !.due = @ \ {p \in Linked : prKind[p] = "sidebar" \/ p \notin ToSet(FirstPages(1))}])

\* numbers.add: a number keeps its first place.
WithNumbers(nums, more) == nums \o Among(more, PrPulls \ ToSet(nums))

\* A failure reads as the pages before it, of the one page as nothing; the
\* closing reader remembers that it was a rate limit.
ReadTimeline ==
    LET pool == prRead.asks = "pool"
        pages == IF pool THEN PrPages ELSE 1
    IN  /\ prRead.pc = "timeline"
        /\ \E n \in 0..pages, limited \in BOOLEAN :
             /\ limited => n = 0 /\ ~ pool
             /\ PrGoto([prRead EXCEPT
                  !.pc = IF pool THEN "list" ELSE "search",
                  !.limited = limited,
                  !.due = @ \ (ToSet(FirstPages(pages)) \ (ToSet(FirstPages(n)) \cup ToSet(prRead.nums))),
                  !.nums = WithNumbers(@, Among(FirstPages(n), Here))])

\* The index finds what is merged, for the pool also what is open, unless it
\* lags; a failure reads as an empty page here too.
ReadSearch ==
    LET pool == prRead.asks = "pool"
        indexed == IF pool THEN Here ELSE Here \cap prMerged
    IN  /\ prRead.pc = "search"
        /\ \E page \in SUBSET indexed, limited \in BOOLEAN : \E items \in SetToSeqs(page) :
             /\ limited => page = {} /\ ~ pool
             /\ PrGoto([prRead EXCEPT !.pc = IF pool THEN "timeline" ELSE "list",
                                      !.limited = @ \/ limited,
                                      !.nums = WithNumbers(@, items)])
-----------------------------------------------------------------------------
(* The pull requests                                                        *)

FirstOf(nums) == SubSeq(nums, 1, IF Len(nums) < PrMax THEN Len(nums) ELSE PrMax)

\* Cutting the list before what GraphQL gave is taken off.
Missing_CutFirst(nums, graph) == Among(FirstOf(nums), PrPulls \ graph)

\* missing
Missing(nums, graph) == FirstOf(Among(nums, PrPulls \ graph))

\* No number and a rate limit is an error; the snapshot reads them all, in order.
ListPulls ==
    /\ prRead.pc = "list"
    /\ IF prRead.nums = <<>> /\ prRead.limited THEN PrGoto(NoReader)
       ELSE PrGoto([prRead EXCEPT !.pc = "pulls",
                      !.todo = IF prRead.asks = "pool" THEN Ascending(ToSet(prRead.nums))
                               ELSE Missing(prRead.nums, prRead.graph)])

\* readPull, toPoolPullRequest: one that cannot be read is passed over, and
\* commits that cannot be read are as none.
ReadPull ==
    /\ prRead.pc = "pulls" /\ prRead.todo # <<>>
    /\ LET p == Head(prRead.todo)
           passed == [prRead EXCEPT !.todo = Tail(@)]
           wanted == prRead.asks = "pool" \/ p \in prMerged
       IN  \/ PrGoto([passed EXCEPT !.due = @ \ {p}])
           \/ ~ wanted /\ PrGoto(passed)
           \/ wanted /\ PrGoto([passed EXCEPT !.found = @ \cup {p}])
           \/ wanted /\ prKind[p] = "commit"
                /\ PrGoto([passed EXCEPT !.found = @ \cup {p}, !.due = @ \ {p}])

\* The closing ones are cut; the freeze adds its own, as the delivery has it.
AnswerPulls ==
    /\ prRead.pc = "pulls" /\ prRead.todo = <<>>
    /\ PrGoto([prRead EXCEPT !.pc = "done",
                 !.found = IF prRead.asks = "pool" THEN @ \cup {Head(prRead.nums)}
                           ELSE ToSet(FirstOf(Ascending(@)))])

\* fetchMergeSurfaces, for a delivery of the App: its links and its commits, or
\* nothing when the token or a request fails; its text came with it.
BeginDelivery(p) ==
    /\ prRead.pc = "idle" /\ p \in prMerged
    /\ PrGoto([NoReader EXCEPT !.pc = "surfaces", !.asks = "delivery", !.nums = <<p>>,
                               !.found = {p}, !.due = {p} \cap Closing])
ReadSurfaces ==
    /\ prRead.pc = "surfaces"
    /\ \/ PrGoto([prRead EXCEPT !.pc = "done", !.graph = prRead.found \cap Linked])
       \/ PrGoto([prRead EXCEPT !.pc = "done",
                    !.due = {p \in prRead.due : prKind[p] = "body"}])

\* The caller has it, or a request threw.
EndRead == prRead.pc # "idle" /\ PrGoto(NoReader)
-----------------------------------------------------------------------------
PullNext ==
    \/ \E p \in PrPulls : Mention(p) \/ MergePull(p) \/ BeginSnapshot(p) \/ BeginDelivery(p)
    \/ BeginClosing \/ ReadGraph \/ ReadTimeline \/ ReadSearch
    \/ ListPulls \/ ReadPull \/ AnswerPulls \/ ReadSurfaces \/ EndRead

PullSpec == PullInit /\ [][PullNext]_prVars
-----------------------------------------------------------------------------
\* What was on the pages a reader asks for before it began is in its answer, with
\* the evidence that it closes the issue, whatever is opened or merged between
\* its requests: a failed request hides only what it alone would have shown, and
\* a full list is cut only beyond MAX_PULLS (public-read.ts:302,
\* pool-snapshot.ts:332, runtime.ts:42).
ReadsMissNothing ==
    LET r == prRead
        pool == r.asks = "pool"
        evident == IF pool THEN r.found
                   ELSE {p \in r.found : p \in r.graph \/ prKind[p] \in {"body", "commit"}}
        full == \/ Cardinality(ToSet(r.nums) \ r.graph) > PrMax
                \/ Cardinality(ToSet(r.nums) \cap prMerged) > PrMax
    IN  r.pc = "done" => /\ r.due \subseteq evident \/ (~ pool /\ full)
                         /\ pool \/ r.found \subseteq prMerged
=============================================================================
