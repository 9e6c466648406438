----------------------------- MODULE MCServices -----------------------------
(***************************************************************************)
(* Instances for TLC of the components around the escrow that share no      *)
(* state with each other.  A behaviour follows one of them, chosen by the   *)
(* initial state; the others keep their initial states.  p1 and p2 are the  *)
(* two calls, deliveries or workers that run side by side in each of them.  *)
(***************************************************************************)
EXTENDS ApiAccess, KeyRateLimit, EmailOutbox, MergeDelivery, HubMerge, PoolFreeze,
        ContactSync, Posting, AccountLinks, UserAccount, PullRead, TLC

CONSTANTS p1, p2

VARIABLE service    \* the component this behaviour is about

Services == {"api", "rate", "mail", "merge", "hub", "pool", "contacts", "posting",
             "links", "account", "reads"}

servicesVars == <<service, apiVars, rlVars, mailVars, mdVars, hmVars, pfVars, csVars,
                  poVars, alVars, uaVars, prVars>>

\* Components with several initial states have one where they stand still.
ServicesInit ==
    /\ service \in Services
    /\ ApiInit /\ RateInit /\ MailInit /\ MergeInit /\ HubInit /\ PoolInit
    /\ ContactInit /\ PostingInit /\ LinksInit /\ AccountInit
    /\ PullInit
    /\ service # "merge" => /\ mdPublic = {} /\ mdRepo = "app_install" /\ ~ mdLink
                            /\ \A i \in Issues : mdBounty[i] = "draft"
    /\ service # "hub" => hmLink = "none"
    /\ service # "posting" => poRepo = "none"
    /\ service # "links" => ~ alHub
    /\ service # "reads" => /\ prKind = CHOOSE w \in PrWorlds : TRUE
                            /\ ~ prToken

\* Bound: two of the Connects and deliveries are under way together.  And accounts
\* and names are alike, so it does not matter which account is the first.
LinksBound ==
    /\ Cardinality({u \in AlUsers : alFlow'[u] # NoFlow})
         + Cardinality({m \in AlMerges : alDelivery'[m] # NoLookup}) <= 2
    /\ (\A a \in AlAccounts : alName[a] = AlNone) =>
         alName'[CHOOSE a \in AlAccounts : TRUE] = CHOOSE n \in AlNames : TRUE

ServicesNext ==
    \/ /\ service = "api" /\ ApiNext
       /\ UNCHANGED <<service, rlVars, mailVars, mdVars, hmVars, pfVars,
                      csVars, poVars, alVars, uaVars, prVars>>
    \/ /\ service = "rate" /\ RateNext
       /\ UNCHANGED <<service, apiVars, mailVars, mdVars, hmVars, pfVars,
                      csVars, poVars, alVars, uaVars, prVars>>
    \/ /\ service = "mail" /\ MailNext
       /\ UNCHANGED <<service, apiVars, rlVars, mdVars, hmVars, pfVars,
                      csVars, poVars, alVars, uaVars, prVars>>
    \/ /\ service = "merge" /\ MergeNext
       /\ UNCHANGED <<service, apiVars, rlVars, mailVars, hmVars, pfVars,
                      csVars, poVars, alVars, uaVars, prVars>>
    \/ /\ service = "hub" /\ HubNext
       /\ UNCHANGED <<service, apiVars, rlVars, mailVars, mdVars, pfVars,
                      csVars, poVars, alVars, uaVars, prVars>>
    \/ /\ service = "pool" /\ PoolNext
       /\ UNCHANGED <<service, apiVars, rlVars, mailVars, mdVars, hmVars,
                      csVars, poVars, alVars, uaVars, prVars>>
    \/ /\ service = "contacts" /\ ContactNext
       /\ UNCHANGED <<service, apiVars, rlVars, mailVars, mdVars, hmVars,
                      pfVars, poVars, alVars, uaVars, prVars>>
    \/ /\ service = "posting" /\ PostingNext
       /\ UNCHANGED <<service, apiVars, rlVars, mailVars, mdVars, hmVars,
                      pfVars, csVars, alVars, uaVars, prVars>>
    \/ /\ service = "links" /\ LinksNext /\ LinksBound
       /\ UNCHANGED <<service, apiVars, rlVars, mailVars, mdVars, hmVars, pfVars,
                      csVars, poVars, uaVars, prVars>>
    \/ /\ service = "account" /\ AccountNext
       /\ UNCHANGED <<service, apiVars, rlVars, mailVars, mdVars, hmVars,
                      pfVars, csVars, poVars, alVars, prVars>>
    \/ /\ service = "reads" /\ PullNext
       /\ UNCHANGED <<service, apiVars, rlVars, mailVars, mdVars, hmVars,
                      pfVars, csVars, poVars, alVars, uaVars>>

ServicesSpec == ServicesInit /\ [][ServicesNext]_servicesVars

ServicesTypeOK ==
    CASE service = "api"   -> ApiTypeOK   [] service = "rate" -> RateTypeOK
      [] service = "mail"  -> MailTypeOK  [] service = "hub"  -> HubTypeOK
      [] service = "merge" -> MergeTypeOK [] service = "pool" -> PoolTypeOK
      [] service = "contacts" -> ContactTypeOK [] service = "posting" -> PostingTypeOK
      [] service = "links" -> LinksTypeOK [] service = "account" -> AccountTypeOK
      [] service = "reads" -> PullTypeOK

\* What pull requests 1, 2 and 3 have to do with the issue.
PullWorlds ==
    {<<"commit", "body", "mention">>, <<"sidebar", "body", "elsewhere">>,
     <<"body", "body", "body">>}

Symmetry == Permutations({p1, p2})

\* Rows of the ledger are told apart by what is in them and by the call that holds
\* them.
ApiView ==
    LET held(i) == <<apiSpend[i], {c \in ApiCalls : apiCall[c].row = i}>>
    IN  <<apiKey, apiBounty, apiIdem, [c \in ApiCalls |-> [apiCall[c] EXCEPT !.row = Nil]],
          {<<held(i), Cardinality({j \in SpendRows : held(j) = held(i)})>> : i \in SpendRows},
          apiDay, apiHoles>>

\* Of a bounty that is closed there are only the evaluations that found it open;
\* of the poller's delivery nothing reads more than whether it waits.
HubView ==
    LET open == hmBounty = "funded"
        past(run) == run.pc \in {"people", "hunter", "claim", "write"}
    IN  <<hmLink, hmBackers, hmClaim, hmHunter,
          [r \in HubRuns |-> IF open \/ past(hmRun[r]) THEN hmRun[r] ELSE HubRunIdle],
          IF open
          THEN <<hmMerged, hmSubmission,
                 [d \in HubIds |-> IF d = "poll" THEN HubRetry(hmDelivery[d]) ELSE hmDelivery[d]]>>
          ELSE <<>> >>

\* Bounties are counted by what became of them: a lock matters while its bounty is
\* the one that is locked.  Nothing reads the rates a bounty was stamped with.
PostingView ==
    <<{<<s, Cardinality({d \in PoDrafts : poBounty[d] = s})>> : s \in DraftStatus},
      poLock.active, poRepo, poSignals # 0, poRates, poCall>>

\* Who held a name last matters until it has passed on, and how a merge was recorded
\* while it waits.
LinksView ==
    LET found(l) == IF l # NoLookup /\ l.user # AlNone THEN [l EXCEPT !.name = AlNone] ELSE l
        row(r) == IF r = NoMergeRow \/ r.user = AlNone THEN r
                  ELSE IF r.waits THEN [r EXCEPT !.late = TRUE]
                  ELSE [r EXCEPT !.late = TRUE, !.name = AlNone]
    IN  <<alHub, alName, [n \in AlNames |-> IF n \in alPassed THEN n ELSE alHolder[n]], alLink,
          [u \in AlUsers |-> [alFlow[u] EXCEPT !.hit = found(@)]],
          [m \in AlMerges |-> row(alMerge[m])],
          [m \in AlMerges |-> found(alDelivery[m])]>>

\* Of the answer of a reader there is what the property says.
PullView == <<prHub, IF prRead.pc = "done" THEN ReadsMissNothing ELSE prRead>>

\* The components that stand still do not distinguish states.
ServicesView ==
    <<service,
      CASE service = "api"   -> ApiView  [] service = "rate" -> rlVars
        [] service = "mail"  -> mailVars [] service = "hub"  -> HubView
        [] service = "merge" -> mdVars   [] service = "pool" -> pfVars
        [] service = "contacts" -> csVars [] service = "posting" -> PostingView
        [] service = "links" -> LinksView [] service = "account" -> uaVars
        [] service = "reads" -> PullView>>
=============================================================================
