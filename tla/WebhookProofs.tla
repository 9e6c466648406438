--------------------------- MODULE WebhookProofs ---------------------------
(***************************************************************************)
(* What the deliveries of a merge may do to claims on GitHub and on the Hub, *)
(* and to the frozen pool, for any number of deliveries, handlers, issues,   *)
(* evaluations and authors, any face and any rates.                         *)
(* No step locks a row: a row that counts is lost only to a handler that     *)
(* had read it before it counted, and the invariants say what a handler     *)
(* about to write has read.                                                 *)
(* PullRead: whatever is merged between its requests, a reader of GitHub has*)
(* what it was due in one of the lists that it still reads (ReadsMiss).     *)
(* At the end, the services of MCServices together (ServicesTypeCorrect).   *)
(***************************************************************************)
EXTENDS MCServices, ServiceProofs, SplitProofs, SumProofs, FiniteSetTheorems,
        SequenceTheorems, TLAPS

-----------------------------------------------------------------------------
(* GitHub deliveries: markEligibleClaims                                    *)

\* What a handler in the middle of its work knows.
AtWork(q) ==
    /\ q.pc \in {"repo", "hunter", "bounty", "claim", "write", "record"} => q.id \in Deliveries
    /\ q.pc \in {"claim", "write"} => q.issue \in Issues
    /\ q.pc = "write" => q.read \in {"none", "eligible"}

MergeInv == MergeTypeOK /\ \A h \in Handlers : AtWork(mdHandler[h])

RestOfMergeType ==
    /\ mdPublic \subseteq Deliveries
    /\ mdBounty \in [Issues -> BountyStatuses]
    /\ mdRepo \in RepoKinds
    /\ mdLink \in BOOLEAN
    /\ mdClaim \in [Issues -> ClaimStatuses]
    /\ mdDelivery \in [Deliveries -> DeliveryRow]
    /\ mdMissed \subseteq Deliveries

LEMMA HandlerUpdate ==
    ASSUME MergeInv, NEW h \in Handlers, NEW q \in HandlerRecord, AtWork(q),
           mdHandler' = [mdHandler EXCEPT ![h] = q], RestOfMergeType'
    PROVE  MergeInv'
<1>1. mdHandler' \in [Handlers -> HandlerRecord]
  BY DEF MergeInv, MergeTypeOK
<1>2. \A g \in Handlers : mdHandler'[g] \in {q, mdHandler[g]}
  BY DEF MergeInv, MergeTypeOK
<1>3. ASSUME NEW g \in Handlers
      PROVE  AtWork(mdHandler'[g])
  BY <1>2 DEF MergeInv
<1> QED
  BY <1>1, <1>3 DEF MergeInv, MergeTypeOK, RestOfMergeType

LEMMA HandlerIdleOK == HandlerIdle \in HandlerRecord /\ AtWork(HandlerIdle)
  BY DEF HandlerIdle, HandlerRecord, AtWork, NoResults, Outcomes, ClaimStatuses

\* Steps that only move the handler.
LEMMA OnlyTheHandler ==
    ASSUME MergeInv, HandlerOnly
    PROVE  RestOfMergeType'
  BY DEF MergeInv, MergeTypeOK, RestOfMergeType, HandlerOnly

LEMMA SettlesInv ==
    ASSUME MergeInv, NEW h \in Handlers, NEW S \in SUBSET Issues, NEW outcome \in Outcomes,
           mdHandler[h].id \in Deliveries, Settles(h, S, outcome), RestOfMergeType'
    PROVE  MergeInv'
<1> DEFINE q == mdHandler[h]
           rest == q.todo \ S
           new == [q EXCEPT !.pc = IF rest = {} THEN "record" ELSE "bounty",
                            !.todo = rest, !.issue = NoneId, !.read = "none",
                            !.results = [i \in Issues |-> IF i \in S THEN outcome
                                                          ELSE q.results[i]]]
<1>1. q \in HandlerRecord
  BY DEF MergeInv, MergeTypeOK
<1>2. [i \in Issues |-> IF i \in S THEN outcome ELSE q.results[i]] \in [Issues -> Outcomes]
  BY <1>1 DEF HandlerRecord
<1>3. new \in HandlerRecord
  BY <1>1, <1>2 DEF HandlerRecord, ClaimStatuses
<1>4. AtWork(new)
  BY <1>1 DEF HandlerRecord, AtWork
<1>5. mdHandler' = [mdHandler EXCEPT ![h] = new]
  BY DEF Settles
<1> HIDE DEF new
<1> QED
  BY <1>3, <1>4, <1>5, HandlerUpdate

LEMMA MergeInitInv == MergeInit => MergeInv
<1> SUFFICES ASSUME MergeInit
             PROVE  MergeInv
  OBVIOUS
<1>1. NoDeliveryRow \in DeliveryRow
  BY DEF NoDeliveryRow, DeliveryRow, NoResults, Outcomes
<1> QED
  BY <1>1, HandlerIdleOK DEF MergeInit, MergeInv, MergeTypeOK, BountyStatuses, RepoKinds,
                             ClaimStatuses

LEMMA HandlerStepInv ==
    ASSUME MergeInv, NEW h \in Handlers, HandlerStep(h)
    PROVE  MergeInv'
<1> DEFINE q == mdHandler[h]
<1>1. q \in HandlerRecord /\ AtWork(q) /\ RestOfMergeType
  BY DEF MergeInv, MergeTypeOK, RestOfMergeType
<1>2. ASSUME NEW d \in Deliveries, NEW eligible \in BOOLEAN, Receive(h, d, eligible)
      PROVE  MergeInv'
  <2> DEFINE new == [HandlerIdle EXCEPT !.pc = IF eligible THEN "repo" ELSE "record",
                                 !.id = d, !.existing = mdDelivery[d].seen,
                                 !.eligible = eligible,
                                 !.todo = IF eligible THEN Issues ELSE {}]
  <2>1. mdDelivery[d].seen \in BOOLEAN
    BY <1>1 DEF RestOfMergeType, DeliveryRow
  <2>2. new \in HandlerRecord /\ AtWork(new)
    BY <2>1, HandlerIdleOK DEF HandlerRecord, AtWork
  <2>3. mdHandler' = [mdHandler EXCEPT ![h] = new] /\ HandlerOnly
    BY <1>2 DEF Receive
  <2> HIDE DEF new
  <2> QED
    BY <2>2, <2>3, OnlyTheHandler, HandlerUpdate
<1>3. ASSUME NEW d \in Deliveries, NextPending(h, d)
      PROVE  MergeInv'
  <2> DEFINE new == [q EXCEPT !.pc = "repo", !.id = d, !.batch = q.batch \ {d},
                       !.eligible = TRUE, !.results = q.snap[d], !.existing = TRUE,
                       !.todo = {i \in Issues : q.snap[d][i] = "hunter_not_linked"}]
  <2>1. q.snap[d] \in [Issues -> Outcomes]
    BY <1>1 DEF HandlerRecord
  <2>2. new \in HandlerRecord /\ AtWork(new)
    BY <1>1, <2>1 DEF HandlerRecord, AtWork
  <2>3. mdHandler' = [mdHandler EXCEPT ![h] = new] /\ HandlerOnly
    BY <1>3 DEF NextPending, MergeInv, MergeTypeOK
  <2> HIDE DEF new
  <2> QED
    BY <2>2, <2>3, OnlyTheHandler, HandlerUpdate
<1>4. ASSUME NEW i \in Issues, FindBounty(h, i)
      PROVE  MergeInv'
  <2>1. RestOfMergeType' /\ q.id \in Deliveries
    BY <1>1, <1>4, OnlyTheHandler DEF FindBounty, AtWork
  <2>2. CASE Settles(h, {i}, "no_funded_bounty") \/ Settles(h, {i}, "hunter_not_linked")
    BY <2>1, <2>2, SettlesInv DEF Outcomes
  <2>3. CASE mdHandler' = [mdHandler EXCEPT ![h].pc = "claim", ![h].issue = i]
    <3> DEFINE new == [q EXCEPT !.pc = "claim", !.issue = i]
    <3>1. new \in HandlerRecord /\ AtWork(new)
      BY <1>1, <2>1 DEF HandlerRecord, AtWork
    <3>2. mdHandler' = [mdHandler EXCEPT ![h] = new]
      BY <2>3 DEF MergeInv, MergeTypeOK
    <3> HIDE DEF new
    <3> QED
      BY <2>1, <3>1, <3>2, HandlerUpdate
  <2> QED
    BY <1>4, <2>2, <2>3 DEF FindBounty
<1>5. CASE FindRepo(h)
  <2>1. RestOfMergeType' /\ q.id \in Deliveries /\ q.todo \in SUBSET Issues
    BY <1>1, <1>5, OnlyTheHandler DEF FindRepo, AtWork, HandlerRecord
  <2>2. CASE Settles(h, q.todo, "repo_not_connected")
    BY <2>1, <2>2, SettlesInv DEF Outcomes
  <2>3. CASE HandlerGoto(h, "hunter")
    <3> DEFINE new == [q EXCEPT !.pc = "hunter"]
    <3>1. new \in HandlerRecord /\ AtWork(new)
      BY <1>1, <2>1 DEF HandlerRecord, AtWork
    <3>2. mdHandler' = [mdHandler EXCEPT ![h] = new]
      BY <2>3 DEF HandlerGoto, MergeInv, MergeTypeOK
    <3> HIDE DEF new
    <3> QED
      BY <2>1, <3>1, <3>2, HandlerUpdate
  <2> QED
    BY <1>5, <2>2, <2>3 DEF FindRepo
<1>6. CASE FindHunter(h)
  <2> DEFINE new == [q EXCEPT !.pc = "bounty", !.hunter = mdLink]
  <2>1. new \in HandlerRecord /\ AtWork(new)
    BY <1>1, <1>6 DEF HandlerRecord, AtWork, FindHunter, RestOfMergeType
  <2>2. mdHandler' = [mdHandler EXCEPT ![h] = new] /\ HandlerOnly
    BY <1>6 DEF FindHunter, MergeInv, MergeTypeOK
  <2> HIDE DEF new
  <2> QED
    BY <2>1, <2>2, OnlyTheHandler, HandlerUpdate
<1>7. CASE FindClaim(h)
  <2>1. RestOfMergeType' /\ q.id \in Deliveries /\ q.issue \in Issues
    BY <1>1, <1>7, OnlyTheHandler DEF FindClaim, AtWork
  <2>2. CASE TerminalClaim(mdClaim[q.issue])
    BY <1>7, <2>1, <2>2, SettlesInv DEF FindClaim, Outcomes
  <2>3. CASE ~ TerminalClaim(mdClaim[q.issue])
    <3> DEFINE new == [q EXCEPT !.pc = "write", !.read = mdClaim[q.issue]]
    <3>1. mdClaim[q.issue] \in {"none", "eligible"}
      BY <1>1, <2>1, <2>3 DEF RestOfMergeType, ClaimStatuses, TerminalClaim
    <3>2. new \in HandlerRecord /\ AtWork(new)
      BY <1>1, <2>1, <3>1 DEF HandlerRecord, AtWork, ClaimStatuses
    <3>3. mdHandler' = [mdHandler EXCEPT ![h] = new]
      BY <1>7, <2>3 DEF FindClaim, MergeInv, MergeTypeOK
    <3> HIDE DEF new
    <3> QED
      BY <2>1, <3>2, <3>3, HandlerUpdate
  <2> QED
    BY <2>2, <2>3
<1>8. CASE WriteClaim(h)
  <2>1. q.id \in Deliveries /\ q.issue \in Issues
    BY <1>1, <1>8 DEF WriteClaim, AtWork
  <2>2. RestOfMergeType'
    BY <1>1, <1>8, <2>1 DEF WriteClaim, RestOfMergeType, ClaimStatuses
  <2> QED
    BY <1>8, <2>1, <2>2, SettlesInv DEF WriteClaim, Outcomes
<1>9. CASE RecordDelivery(h)
  <2>1. q.id \in Deliveries
    BY <1>1, <1>9 DEF RecordDelivery, AtWork
  <2>2. [seen |-> TRUE, eligible |-> q.eligible, results |-> q.results] \in DeliveryRow
    BY <1>1 DEF HandlerRecord, DeliveryRow
  <2>3. mdDelivery' \in [Deliveries -> DeliveryRow] /\ mdMissed' \subseteq Deliveries
    BY <1>1, <1>9, <2>1, <2>2 DEF RecordDelivery, StoreRow, MissedNow, RestOfMergeType
  <2>4. RestOfMergeType' /\ HandlerEnds(h)
    BY <1>1, <1>9, <2>3 DEF RecordDelivery, RestOfMergeType
  <2> QED
    BY <2>4, HandlerIdleOK, HandlerUpdate DEF HandlerEnds
<1>10. CASE RecordBackfill(h)
  <2> DEFINE new == [HandlerIdle EXCEPT !.pc = "next", !.job = "backfill",
                                 !.batch = q.batch, !.snap = q.snap]
  <2>1. q.id \in Deliveries /\ q.results \in [Issues -> Outcomes]
    BY <1>1, <1>10 DEF RecordBackfill, AtWork, HandlerRecord
  <2>2. mdDelivery' \in [Deliveries -> DeliveryRow] /\ mdMissed' \subseteq Deliveries
    BY <1>1, <1>10, <2>1
       DEF RecordBackfill, MergedResults, MissedNow, RestOfMergeType, DeliveryRow
  <2>3. RestOfMergeType'
    BY <1>1, <1>10, <2>2 DEF RecordBackfill, RestOfMergeType
  <2>4. new \in HandlerRecord /\ AtWork(new)
    BY <1>1, HandlerIdleOK DEF HandlerRecord, AtWork
  <2>5. mdHandler' \in {[mdHandler EXCEPT ![h] = HandlerIdle], [mdHandler EXCEPT ![h] = new]}
    BY <1>10 DEF RecordBackfill, BackfillGoesOn, MergeInv, MergeTypeOK
  <2> HIDE DEF new
  <2> QED
    BY <2>3, <2>4, <2>5, HandlerIdleOK, HandlerUpdate
<1>11. CASE HandlerFails(h)
  <2>1. RestOfMergeType' /\ HandlerEnds(h)
    BY <1>1, <1>11 DEF HandlerFails, RestOfMergeType, HandlerRecord
  <2> QED
    BY <2>1, HandlerIdleOK, HandlerUpdate DEF HandlerEnds
<1>12. CASE Connect(h)
  <2> DEFINE new == [HandlerIdle EXCEPT !.pc = "scan", !.job = "backfill"]
  <2>1. new \in HandlerRecord /\ AtWork(new)
    BY HandlerIdleOK DEF HandlerRecord, AtWork
  <2>2. mdHandler' = [mdHandler EXCEPT ![h] = new] /\ RestOfMergeType'
    BY <1>1, <1>12 DEF Connect, RestOfMergeType
  <2> HIDE DEF new
  <2> QED
    BY <2>1, <2>2, HandlerUpdate
<1>13. CASE Scan(h)
  <2> DEFINE pending == {d \in Deliveries : PendingRow(d)}
             new == [q EXCEPT !.pc = "next", !.batch = pending,
                              !.snap = [d \in Deliveries |-> mdDelivery[d].results]]
  <2>1. [d \in Deliveries |-> mdDelivery[d].results] \in [Deliveries -> [Issues -> Outcomes]]
    BY <1>1 DEF RestOfMergeType, DeliveryRow
  <2>2. new \in HandlerRecord /\ AtWork(new)
    BY <1>1, <2>1 DEF HandlerRecord, AtWork
  <2>3. RestOfMergeType'
    BY <1>1, <1>13 DEF Scan, RestOfMergeType
  <2>4. mdHandler' \in {[mdHandler EXCEPT ![h] = HandlerIdle], [mdHandler EXCEPT ![h] = new]}
    BY <1>13 DEF Scan, MergeInv, MergeTypeOK
  <2> HIDE DEF new
  <2> QED
    BY <2>2, <2>3, <2>4, HandlerIdleOK, HandlerUpdate
<1> QED
  BY <1>2, <1>3, <1>4, <1>5, <1>6, <1>7, <1>8, <1>9, <1>10, <1>11, <1>12, <1>13
     DEF HandlerStep

LEMMA MergeNextInv == MergeInv /\ [MergeNext]_mdVars => MergeInv'
<1> SUFFICES ASSUME MergeInv, [MergeNext]_mdVars
             PROVE  MergeInv'
  OBVIOUS
<1>1. CASE \E h \in Handlers : HandlerStep(h)
  BY <1>1, HandlerStepInv
<1>2. CASE \/ \E i \in Issues : Fund(i) \/ PayWinner(i) \/ CloseUnpaid(i)
           \/ Disconnect \/ Uninstall \/ Install \/ Reference \/ UNCHANGED mdVars
  <2>1. UNCHANGED mdHandler
    BY <1>2 DEF Fund, PayWinner, CloseUnpaid, Disconnect, Uninstall, Install, Reference, mdVars
  <2>2. RestOfMergeType'
    BY <1>2 DEF Fund, PayWinner, CloseUnpaid, Disconnect, Uninstall, Install, Reference, mdVars,
                RestOfMergeType, MergeInv, MergeTypeOK, BountyStatuses, ClaimStatuses, RepoKinds
  <2> QED
    BY <2>1, <2>2 DEF MergeInv, MergeTypeOK, RestOfMergeType
<1> QED
  BY <1>1, <1>2 DEF MergeNext

\* Rows, claims and handlers keep their types, whatever is redelivered, dies or
\* overlaps with Connect GitHub.
THEOREM MergeTypeCorrect == MergeSpec => []MergeTypeOK
<1>1. MergeInv => MergeTypeOK
  BY DEF MergeInv
<1> QED
  BY <1>1, MergeInitInv, MergeNextInv, PTL DEF MergeSpec

\* Redeliveries, the poller and the backfill leave a paid claim alone, unless
\* they had read it as eligible before it was paid (markEligibleClaims).
THEOREM PaidClaimsStay == MergeSpec => PaidClaimStays
<1>1. ASSUME MergeInv, [MergeNext]_mdVars, NEW i \in Issues,
             mdClaim[i] = "paid", mdClaim'[i] # "paid"
      PROVE  \E h \in Handlers : /\ mdHandler[h].pc = "write" /\ mdHandler[h].issue = i
                                 /\ mdHandler[h].read = "eligible"
  <2>1. PICK h \in Handlers : WriteClaim(h)
    <3>1. mdClaim \in [Issues -> ClaimStatuses]
      BY <1>1 DEF MergeInv, MergeTypeOK
    <3>2. UNCHANGED mdClaim \/ (\E j \in Issues : PayWinner(j))
            \/ \E h \in Handlers : WriteClaim(h)
      BY <1>1 DEF MergeNext, HandlerStep, Receive, NextPending, FindBounty, FindRepo,
           FindHunter, FindClaim, RecordDelivery, RecordBackfill, HandlerFails, Connect,
           Scan, Fund, CloseUnpaid, Disconnect, Uninstall, Install, Reference,
           HandlerOnly, mdVars
    <3>3. ~ \E j \in Issues : PayWinner(j)
      BY <1>1, <3>1 DEF PayWinner
    <3> QED
      BY <1>1, <3>2, <3>3
  <2>2. mdHandler[h].issue = i
    BY <1>1, <2>1 DEF WriteClaim, MergeInv, MergeTypeOK
  <2>3. mdHandler[h].read = "eligible"
    BY <1>1, <2>1, <2>2 DEF WriteClaim, MergeInv, AtWork
  <2> QED
    BY <2>1, <2>2, <2>3 DEF WriteClaim
<1>2. MergeInv /\ [MergeNext]_mdVars =>
        [\A i \in Issues : mdClaim[i] = "paid" /\ mdClaim'[i] # "paid" =>
          \E h \in Handlers : /\ mdHandler[h].pc = "write" /\ mdHandler[h].issue = i
                              /\ mdHandler[h].read = "eligible"]_mdVars
  BY <1>1
<1> QED
  BY <1>2, MergeInitInv, MergeNextInv, PTL DEF MergeSpec, PaidClaimStays

\* A backfill that has still to read row d, or to write it.
Covers(q, d) ==
    q.job = "backfill" /\ (q.pc = "scan" \/ d \in q.batch \/ q.id = d)

\* A handler at rest is no backfill, and a backfill between two rows holds none: the
\* row it has written is not one it is still to write.
BetweenRows(q) ==
    /\ q.pc = "idle" => q.job = "delivery"
    /\ q.pc \in {"scan", "next"} => q.job = "backfill" /\ q.id = NoneId

ReachInv ==
    /\ MergeInv
    /\ \A h \in Handlers : BetweenRows(mdHandler[h])
    /\ BackfillReaches

LEMMA ComingCovers ==
    ASSUME NEW d, NEW S
    PROVE  Coming(d, S) <=> \E g \in S : Covers(mdHandler[g], d)
  BY DEF Coming, Covers

\* A step of one handler: whoever waits after it is one its new record covers, or one
\* that another handler covered and still does.
LEMMA ReachUpdate ==
    ASSUME ReachInv, NEW h \in Handlers, NEW q, BetweenRows(q),
           mdHandler' = [mdHandler EXCEPT ![h] = q],
           \A d \in Deliveries : mdLink' /\ PendingRow(d)' /\ d \notin mdMissed' =>
               Covers(q, d) \/ Coming(d, Handlers \ {h})
    PROVE  (\A g \in Handlers : BetweenRows(mdHandler[g]))' /\ BackfillReaches'
<1>1. mdHandler'[h] = q /\ \A g \in Handlers \ {h} : mdHandler'[g] = mdHandler[g]
  BY DEF ReachInv, MergeInv, MergeTypeOK
<1>2. (\A g \in Handlers : BetweenRows(mdHandler[g]))'
  BY <1>1 DEF ReachInv
<1>3. ASSUME NEW d \in Deliveries, mdLink' /\ PendingRow(d)' /\ d \notin mdMissed'
      PROVE  Coming(d, Handlers)'
  <2>1. \E g \in Handlers : Covers(mdHandler'[g], d)
    BY <1>1, <1>3, ComingCovers
  <2> QED
    BY <2>1 DEF Coming, Covers
<1> QED
  BY <1>2, <1>3 DEF BackfillReaches

\* A step that writes no row, makes no link and forgets no missed delivery, and after
\* which the handler covers what it covered.
LEMMA ReachKept ==
    ASSUME ReachInv, NEW h \in Handlers, NEW q, BetweenRows(q),
           mdHandler' = [mdHandler EXCEPT ![h] = q],
           UNCHANGED <<mdLink, mdDelivery>>, mdMissed \subseteq mdMissed',
           \A d \in Deliveries \ mdMissed' : Covers(mdHandler[h], d) => Covers(q, d)
    PROVE  (\A g \in Handlers : BetweenRows(mdHandler[g]))' /\ BackfillReaches'
<1>1. ASSUME NEW d \in Deliveries, mdLink' /\ PendingRow(d)' /\ d \notin mdMissed'
      PROVE  Covers(q, d) \/ Coming(d, Handlers \ {h})
  <2>1. mdLink /\ PendingRow(d) /\ d \notin mdMissed
    BY <1>1 DEF PendingRow, Unlinked
  <2>2. PICK g \in Handlers : Covers(mdHandler[g], d)
    BY <2>1, ComingCovers DEF ReachInv, BackfillReaches
  <2>3. CASE g = h
    BY <1>1, <2>2, <2>3
  <2>4. CASE g # h
    BY <2>2, <2>4, ComingCovers
  <2> QED
    BY <2>3, <2>4
<1> QED
  BY <1>1, ReachUpdate

\* A handler that has written the row of its delivery: the row is left waiting only
\* where MissedNow says so.
LEMMA ReachWritten ==
    ASSUME ReachInv, NEW h \in Handlers, NEW q, BetweenRows(q),
           mdHandler[h].id \in Deliveries, mdHandler[h].pc = "record",
           mdHandler' = [mdHandler EXCEPT ![h] = q], UNCHANGED mdLink,
           \/ mdDelivery' = mdDelivery /\ mdHandler[h].job = "delivery"
           \/ /\ \A d \in Deliveries \ {mdHandler[h].id} : mdDelivery'[d] = mdDelivery[d]
              /\ mdDelivery'[mdHandler[h].id].results = mdHandler[h].results,
           mdMissed' = MissedNow(h),
           \A d \in mdHandler[h].batch :
               mdHandler[h].job = "backfill" => Covers(q, d)
    PROVE  (\A g \in Handlers : BetweenRows(mdHandler[g]))' /\ BackfillReaches'
<1> DEFINE me == mdHandler[h]
<1>1. ASSUME NEW d \in Deliveries, mdLink' /\ PendingRow(d)' /\ d \notin mdMissed'
      PROVE  Covers(q, d) \/ Coming(d, Handlers \ {h})
  <2>1. mdLink /\ d \notin mdMissed
    BY <1>1 DEF MissedNow
  <2>2. CASE d = me.id /\ mdDelivery'[d].results = me.results
    <3>1. Unlinked(me.results)
      BY <1>1, <2>2 DEF PendingRow
    <3> QED
      BY <1>1, <2>1, <2>2, <3>1 DEF MissedNow
  <2>3. CASE mdDelivery'[d] = mdDelivery[d] /\ (d # me.id \/ me.job = "delivery")
    <3>1. PendingRow(d)
      BY <1>1, <2>3 DEF PendingRow
    <3>2. PICK g \in Handlers : Covers(mdHandler[g], d)
      BY <2>1, <3>1, ComingCovers DEF ReachInv, BackfillReaches
    <3>3. CASE g = h
      BY <2>3, <3>2, <3>3 DEF Covers
    <3>4. CASE g # h
      BY <3>2, <3>4, ComingCovers
    <3> QED
      BY <3>3, <3>4
  <2> QED
    BY <2>2, <2>3
<1> QED
  BY <1>1, ReachUpdate

LEMMA ReachInit == MergeInit => ReachInv
<1> SUFFICES ASSUME MergeInit
             PROVE  ReachInv
  OBVIOUS
<1>1. \A h \in Handlers : BetweenRows(mdHandler[h])
  BY DEF MergeInit, BetweenRows, HandlerIdle
<1>2. BackfillReaches
  BY DEF MergeInit, BackfillReaches, PendingRow, NoDeliveryRow
<1> QED
  BY <1>1, <1>2, MergeInitInv DEF ReachInv

LEMMA SettlesReach ==
    ASSUME ReachInv, NEW h \in Handlers, NEW S, NEW outcome, Settles(h, S, outcome),
           mdHandler[h].pc \notin {"idle", "scan"},
           UNCHANGED <<mdLink, mdDelivery, mdMissed>>
    PROVE  (\A g \in Handlers : BetweenRows(mdHandler[g]))' /\ BackfillReaches'
<1> DEFINE me == mdHandler[h]
           rest == me.todo \ S
           q == [me EXCEPT !.pc = IF rest = {} THEN "record" ELSE "bounty",
                           !.todo = rest, !.issue = NoneId, !.read = "none",
                           !.results = [i \in Issues |-> IF i \in S THEN outcome
                                                         ELSE me.results[i]]]
<1>1. me \in HandlerRecord
  BY DEF ReachInv, MergeInv, MergeTypeOK
<1>2. BetweenRows(q) /\ \A d \in Deliveries : Covers(me, d) => Covers(q, d)
  BY <1>1 DEF HandlerRecord, BetweenRows, Covers
<1>3. mdHandler' = [mdHandler EXCEPT ![h] = q]
  BY DEF Settles
<1> HIDE DEF q
<1> QED
  BY <1>2, <1>3, ReachKept

LEMMA ReachStep ==
    ASSUME ReachInv, NEW h \in Handlers, HandlerStep(h)
    PROVE  (\A g \in Handlers : BetweenRows(mdHandler[g]))' /\ BackfillReaches'
<1> DEFINE me == mdHandler[h]
           Goal == (\A g \in Handlers : BetweenRows(mdHandler[g]))' /\ BackfillReaches'
<1>1. me \in HandlerRecord /\ AtWork(me) /\ BetweenRows(me) /\ RestOfMergeType
  BY DEF ReachInv, MergeInv, MergeTypeOK, RestOfMergeType
<1>2. BetweenRows(HandlerIdle)
  BY DEF BetweenRows, HandlerIdle
<1>3. ASSUME NEW d \in Deliveries, NEW eligible \in BOOLEAN, Receive(h, d, eligible)
      PROVE  Goal
  <2> DEFINE q == [HandlerIdle EXCEPT !.pc = IF eligible THEN "repo" ELSE "record",
                                 !.id = d, !.existing = mdDelivery[d].seen,
                                 !.eligible = eligible,
                                 !.todo = IF eligible THEN Issues ELSE {}]
  <2>1. BetweenRows(q) /\ \A e \in Deliveries : ~ Covers(me, e)
    BY <1>1, <1>3 DEF BetweenRows, HandlerIdle, Covers, Receive
  <2>2. mdHandler' = [mdHandler EXCEPT ![h] = q] /\ HandlerOnly
    BY <1>3 DEF Receive
  <2> HIDE DEF q
  <2> QED
    BY <2>1, <2>2, ReachKept DEF HandlerOnly
<1>4. ASSUME NEW d \in Deliveries, NextPending(h, d)
      PROVE  Goal
  <2> DEFINE q == [me EXCEPT !.pc = "repo", !.id = d, !.batch = me.batch \ {d},
                       !.eligible = TRUE, !.results = me.snap[d], !.existing = TRUE,
                       !.todo = {i \in Issues : me.snap[d][i] = "hunter_not_linked"}]
  <2>1. BetweenRows(q)
    BY <1>1 DEF BetweenRows, HandlerRecord
  <2>2. \A e \in Deliveries : Covers(me, e) => Covers(q, e)
    BY <1>1, <1>4, DeliveryAssumption
       DEF BetweenRows, HandlerRecord, Covers, NextPending
  <2>3. mdHandler' = [mdHandler EXCEPT ![h] = q] /\ HandlerOnly
    BY <1>4 DEF NextPending, ReachInv, MergeInv, MergeTypeOK
  <2> HIDE DEF q
  <2> QED
    BY <2>1, <2>2, <2>3, ReachKept DEF HandlerOnly
<1>5. ASSUME NEW i \in Issues, FindBounty(h, i)
      PROVE  Goal
  <2>1. CASE Settles(h, {i}, "no_funded_bounty") \/ Settles(h, {i}, "hunter_not_linked")
    BY <1>5, <2>1, SettlesReach DEF FindBounty, HandlerOnly
  <2>2. CASE mdHandler' = [mdHandler EXCEPT ![h].pc = "claim", ![h].issue = i]
    <3> DEFINE q == [me EXCEPT !.pc = "claim", !.issue = i]
    <3>1. BetweenRows(q) /\ \A d \in Deliveries : Covers(me, d) => Covers(q, d)
      BY <1>1, <1>5 DEF BetweenRows, HandlerRecord, Covers, FindBounty
    <3>2. mdHandler' = [mdHandler EXCEPT ![h] = q]
      BY <2>2 DEF ReachInv, MergeInv, MergeTypeOK
    <3> HIDE DEF q
    <3> QED
      BY <1>5, <3>1, <3>2, ReachKept DEF FindBounty, HandlerOnly
  <2> QED
    BY <1>5, <2>1, <2>2 DEF FindBounty
<1>6. CASE FindRepo(h)
  <2>1. CASE Settles(h, me.todo, "repo_not_connected")
    BY <1>6, <2>1, SettlesReach DEF FindRepo, HandlerOnly
  <2>2. CASE HandlerGoto(h, "hunter")
    <3> DEFINE q == [me EXCEPT !.pc = "hunter"]
    <3>1. BetweenRows(q) /\ \A d \in Deliveries : Covers(me, d) => Covers(q, d)
      BY <1>1, <1>6 DEF BetweenRows, HandlerRecord, Covers, FindRepo
    <3>2. mdHandler' = [mdHandler EXCEPT ![h] = q]
      BY <2>2 DEF HandlerGoto, ReachInv, MergeInv, MergeTypeOK
    <3> HIDE DEF q
    <3> QED
      BY <1>6, <3>1, <3>2, ReachKept DEF FindRepo, HandlerOnly
  <2> QED
    BY <1>6, <2>1, <2>2 DEF FindRepo
<1>7. CASE FindHunter(h)
  <2> DEFINE q == [me EXCEPT !.pc = "bounty", !.hunter = mdLink]
  <2>1. BetweenRows(q) /\ \A d \in Deliveries : Covers(me, d) => Covers(q, d)
    BY <1>1, <1>7 DEF BetweenRows, HandlerRecord, Covers, FindHunter
  <2>2. mdHandler' = [mdHandler EXCEPT ![h] = q] /\ HandlerOnly
    BY <1>7 DEF FindHunter, ReachInv, MergeInv, MergeTypeOK
  <2> HIDE DEF q
  <2> QED
    BY <2>1, <2>2, ReachKept DEF HandlerOnly
<1>8. CASE FindClaim(h)
  <2>1. CASE Settles(h, {me.issue}, "claim_terminal")
    BY <1>8, <2>1, SettlesReach DEF FindClaim, HandlerOnly
  <2>2. CASE mdHandler' = [mdHandler EXCEPT ![h].pc = "write",
                                            ![h].read = mdClaim[me.issue]]
    <3> DEFINE q == [me EXCEPT !.pc = "write", !.read = mdClaim[me.issue]]
    <3>1. BetweenRows(q) /\ \A d \in Deliveries : Covers(me, d) => Covers(q, d)
      BY <1>1, <1>8 DEF BetweenRows, HandlerRecord, Covers, FindClaim
    <3>2. mdHandler' = [mdHandler EXCEPT ![h] = q]
      BY <2>2 DEF ReachInv, MergeInv, MergeTypeOK
    <3> HIDE DEF q
    <3> QED
      BY <1>8, <3>1, <3>2, ReachKept DEF FindClaim, HandlerOnly
  <2> QED
    BY <1>8, <2>1, <2>2 DEF FindClaim
<1>9. CASE WriteClaim(h)
  BY <1>9, SettlesReach DEF WriteClaim
<1>10. CASE RecordDelivery(h)
  <2>1. me.id \in Deliveries /\ me.pc = "record" /\ me.job = "delivery"
    BY <1>1, <1>10 DEF RecordDelivery, AtWork
  <2>2. \/ mdDelivery' = mdDelivery
        \/ /\ \A d \in Deliveries \ {me.id} : mdDelivery'[d] = mdDelivery[d]
           /\ mdDelivery'[me.id].results = me.results
    BY <1>1, <1>10, <2>1 DEF RecordDelivery, StoreRow, RestOfMergeType
  <2>3. mdHandler' = [mdHandler EXCEPT ![h] = HandlerIdle] /\ UNCHANGED mdLink
          /\ mdMissed' = MissedNow(h)
    BY <1>10 DEF RecordDelivery, HandlerEnds
  <2> QED
    BY <1>2, <2>1, <2>2, <2>3, ReachWritten
<1>11. CASE RecordBackfill(h)
  <2> DEFINE q == [HandlerIdle EXCEPT !.pc = "next", !.job = "backfill",
                                 !.batch = me.batch, !.snap = me.snap]
  <2>1. me.id \in Deliveries /\ me.pc = "record" /\ me.job = "backfill"
    BY <1>1, <1>11 DEF RecordBackfill, AtWork
  <2>2. /\ \A d \in Deliveries \ {me.id} : mdDelivery'[d] = mdDelivery[d]
        /\ mdDelivery'[me.id].results = me.results
    BY <1>1, <1>11, <2>1 DEF RecordBackfill, MergedResults, RestOfMergeType, DeliveryRow
  <2>3. UNCHANGED mdLink /\ mdMissed' = MissedNow(h)
    BY <1>11 DEF RecordBackfill
  <2>4. CASE me.batch = {}
    <3>1. mdHandler' = [mdHandler EXCEPT ![h] = HandlerIdle]
      BY <1>11, <2>4 DEF RecordBackfill, BackfillGoesOn, ReachInv, MergeInv, MergeTypeOK
    <3> QED
      BY <1>2, <2>1, <2>2, <2>3, <2>4, <3>1, ReachWritten
  <2>5. CASE me.batch # {}
    <3>1. mdHandler' = [mdHandler EXCEPT ![h] = q]
      BY <1>11, <2>5 DEF RecordBackfill, BackfillGoesOn, ReachInv, MergeInv, MergeTypeOK
    <3>2. BetweenRows(q) /\ \A d \in me.batch : Covers(q, d)
      BY DEF HandlerIdle, BetweenRows, Covers
    <3> HIDE DEF q
    <3> QED
      BY <2>1, <2>2, <2>3, <3>1, <3>2, ReachWritten
  <2> QED
    BY <2>4, <2>5
<1>12. CASE HandlerFails(h)
  <2>1. mdHandler' = [mdHandler EXCEPT ![h] = HandlerIdle]
          /\ UNCHANGED <<mdLink, mdDelivery>>
    BY <1>12 DEF HandlerFails, HandlerEnds
  <2>2. mdMissed \subseteq mdMissed' /\ \A d \in Deliveries \ mdMissed' : ~ Covers(me, d)
    BY <1>1, <1>12, DeliveryAssumption DEF HandlerFails, Covers, RestOfMergeType, HandlerRecord
  <2> QED
    BY <1>2, <2>1, <2>2, ReachKept
<1>13. CASE Connect(h)
  <2> DEFINE q == [HandlerIdle EXCEPT !.pc = "scan", !.job = "backfill"]
  <2>1. BetweenRows(q) /\ \A d \in Deliveries : Covers(q, d)
    BY DEF BetweenRows, HandlerIdle, Covers
  <2>2. mdHandler' = [mdHandler EXCEPT ![h] = q]
    BY <1>13 DEF Connect
  <2> HIDE DEF q
  <2> QED
    BY <2>1, <2>2, ReachUpdate
<1>14. CASE Scan(h)
  <2> DEFINE pending == {d \in Deliveries : PendingRow(d)}
             q == [me EXCEPT !.pc = "next", !.batch = pending,
                             !.snap = [d \in Deliveries |-> mdDelivery[d].results]]
  <2>1. UNCHANGED mdDelivery
    BY <1>14 DEF Scan
  <2>2. \A d \in Deliveries : PendingRow(d)' => d \in pending
    BY <2>1 DEF PendingRow
  <2>3. CASE pending = {}
    <3>1. mdHandler' = [mdHandler EXCEPT ![h] = HandlerIdle]
      BY <1>14, <2>3 DEF Scan, ReachInv, MergeInv, MergeTypeOK
    <3> QED
      BY <1>2, <2>2, <2>3, <3>1, ReachUpdate
  <2>4. CASE pending # {}
    <3>1. mdHandler' = [mdHandler EXCEPT ![h] = q]
      BY <1>14, <2>4 DEF Scan, ReachInv, MergeInv, MergeTypeOK
    <3>2. BetweenRows(q) /\ \A d \in pending : Covers(q, d)
      BY <1>1, <1>14 DEF HandlerRecord, BetweenRows, Covers, Scan
    <3> HIDE DEF q
    <3> QED
      BY <2>2, <3>1, <3>2, ReachUpdate
  <2> QED
    BY <2>3, <2>4
<1> QED
  BY <1>3, <1>4, <1>5, <1>6, <1>7, <1>8, <1>9, <1>10, <1>11, <1>12, <1>13, <1>14
     DEF HandlerStep

LEMMA ReachNext == ReachInv /\ [MergeNext]_mdVars => ReachInv'
<1> SUFFICES ASSUME ReachInv, [MergeNext]_mdVars
             PROVE  ReachInv'
  OBVIOUS
<1>1. MergeInv'
  BY MergeNextInv DEF ReachInv
<1>2. CASE \E h \in Handlers : HandlerStep(h)
  BY <1>1, <1>2, ReachStep DEF ReachInv
<1>3. CASE \/ \E i \in Issues : Fund(i) \/ PayWinner(i) \/ CloseUnpaid(i)
           \/ Disconnect \/ Uninstall \/ Install \/ Reference \/ UNCHANGED mdVars
  <2>1. UNCHANGED <<mdHandler, mdDelivery, mdMissed>> /\ (mdLink' => mdLink)
    BY <1>3 DEF Fund, PayWinner, CloseUnpaid, Disconnect, Uninstall, Install, Reference, mdVars
  <2>2. BackfillReaches'
    BY <2>1 DEF ReachInv, BackfillReaches, PendingRow, Unlinked, Coming
  <2> QED
    BY <1>1, <2>1, <2>2 DEF ReachInv
<1> QED
  BY <1>2, <1>3 DEF MergeNext

\* No author who has connected is left waiting for Connect GitHub: a row that says so
\* is one that a backfill is about to read or to write, however many deliveries,
\* redeliveries and Connects overlap, but for a row recorded from a lookup made before
\* the link and after the backfill had read the rows, or one whose backfill failed.
THEOREM BackfillIsReached == MergeSpec => []BackfillReaches
<1>1. ReachInv => BackfillReaches
  BY DEF ReachInv
<1> QED
  BY <1>1, ReachInit, ReachNext, PTL DEF MergeSpec

-----------------------------------------------------------------------------
(* Hugging Face evaluations: blockedIdentities, findHunter, writeClaim      *)

\* An evaluation that may still make a claim eligible has looked for the author
\* among the backers, if neither the backers nor the link are newer than that; past
\* the people no evaluation denies; and one about to write has not read a claim that
\* it would keep.
HubRunSound(run) ==
    /\ (run.status = "eligible" /\ ~ run.late) =>
         /\ run.pc = "hunter" => hmLink \notin hmBackers
         /\ run.pc \in {"claim", "write"} => run.hunter \notin hmBackers
    /\ run.pc \in {"hunter", "claim", "write"} => run.status # "deny"
    /\ run.pc = "write" => ~ KeepsClaim(run.read, run.status)

HubInv == HubTypeOK /\ \A r \in HubRuns : HubRunSound(hmRun[r])

\* The rows have their types after the step.
HubRowsOK ==
    /\ hmBounty' \in {"funded", "closed"} /\ hmMerged' \in BOOLEAN
    /\ hmLink' \in {"none"} \cup HubUsers /\ hmHunter' \in {"none"} \cup HubUsers
    /\ hmBackers' \subseteq HubUsers
    /\ hmSubmission' \in {"none", "submitted"} /\ hmClaim' \in HubClaims
    /\ hmDelivery' \in [HubIds -> HubRows]

\* A step that moves one evaluation and leaves the people alone.
LEMMA HubRunUpdate ==
    ASSUME HubInv, NEW r \in HubRuns, NEW q \in HubRunRecord, HubRunSound(q), HubRowsOK,
           hmRun' = [hmRun EXCEPT ![r] = q], UNCHANGED <<hmLink, hmBackers>>
    PROVE  HubInv'
<1>1. hmRun' \in [HubRuns -> HubRunRecord] /\ \A s \in HubRuns : hmRun'[s] \in {q, hmRun[s]}
  BY DEF HubInv, HubTypeOK
<1>2. HubTypeOK'
  BY <1>1 DEF HubTypeOK, HubRowsOK
<1>3. ASSUME NEW s \in HubRuns
      PROVE  HubRunSound(hmRun[s])'
  <2>1. HubRunSound(hmRun'[s])
    BY <1>1, <1>3 DEF HubInv
  <2> QED
    BY <2>1 DEF HubRunSound, KeepsClaim
<1> QED
  BY <1>2, <1>3 DEF HubInv

LEMMA HubRunIdleOK == HubRunIdle \in HubRunRecord /\ HubRunIdle.pc = "idle"
  BY HubAssumption DEF HubRunIdle, HubRunRecord, HubClaims, HubReadings, HubUsers, HubRows

\* Wherever an evaluation is not about to look for the hunter or to write, nothing
\* is asked of it.
LEMMA HubFarSound ==
    ASSUME NEW run, run.pc \notin {"hunter", "claim", "write"}
    PROVE  HubRunSound(run)
  BY DEF HubRunSound

LEMMA HubInitInv == HubInit => HubInv
<1> SUFFICES ASSUME HubInit
             PROVE  HubInv
  OBVIOUS
<1>1. /\ hmRun \in [HubRuns -> HubRunRecord] /\ hmDelivery \in [HubIds -> HubRows]
      /\ \A r \in HubRuns : hmRun[r].pc = "idle"
  BY HubRunIdleOK DEF HubInit, HubRows
<1> QED
  BY <1>1, HubFarSound DEF HubInit, HubInv, HubTypeOK, HubClaims, HubUsers

\* The rows, when a step moves an evaluation only.
LEMMA OnlyTheRun ==
    ASSUME HubInv, HubRunOnly
    PROVE  HubRowsOK /\ UNCHANGED <<hmLink, hmBackers>>
  BY DEF HubInv, HubTypeOK, HubRunOnly, HubRowsOK

LEMMA HubDoneOK ==
    ASSUME NEW run \in HubRunRecord, NEW outcome \in HubRows
    PROVE  /\ HubDone(run, outcome) \in HubRunRecord
           /\ HubDone(run, outcome).pc = "finish"
  BY HubRunIdleOK DEF HubDone, HubRunRecord

LEMMA HubBeginsInv ==
    ASSUME HubInv, NEW r \in HubRuns, NEW d \in HubIds, HubBegins(r, d), HubRunOnly
    PROVE  HubInv'
<1> DEFINE new == [HubRunIdle EXCEPT !.pc = "fetch", !.id = d]
<1>1. new \in HubRunRecord /\ new.pc = "fetch"
  BY HubRunIdleOK DEF HubRunRecord
<1>2. hmRun' = [hmRun EXCEPT ![r] = new]
  BY DEF HubBegins
<1> HIDE DEF new
<1> QED
  BY <1>1, <1>2, HubFarSound, OnlyTheRun, HubRunUpdate

\* After a change of the links or of the backers the evaluations that had read them
\* are late, and of those the invariant asks nothing about the people.
LEMMA HubLateSound ==
    ASSUME HubInv, NEW runs \in [HubRuns -> HubRunRecord],
           \A s \in HubRuns : runs[s] = hmRun[s] \/ runs[s].pc = "fetch",
           hmRun' = HubTooLate(runs), HubRowsOK
    PROVE  HubInv'
<1>1. \A s \in HubRuns : hmRun'[s] = IF runs[s].pc \in {"hunter", "claim", "write"}
                                        /\ runs[s].status = "eligible"
                                     THEN [runs[s] EXCEPT !.late = TRUE] ELSE runs[s]
  BY DEF HubTooLate
<1>2. hmRun' \in [HubRuns -> HubRunRecord]
  <2>1. \A s \in HubRuns : [runs[s] EXCEPT !.late = TRUE] \in HubRunRecord
    BY DEF HubRunRecord
  <2> QED
    BY <2>1 DEF HubTooLate
<1>3. HubTypeOK'
  BY <1>2 DEF HubTypeOK, HubRowsOK
<1>4. ASSUME NEW s \in HubRuns
      PROVE  HubRunSound(hmRun[s])'
  <2>1. runs[s] \in HubRunRecord /\ (runs[s] = hmRun[s] \/ runs[s].pc = "fetch")
    OBVIOUS
  <2>2. /\ hmRun'[s].pc = runs[s].pc /\ hmRun'[s].read = runs[s].read
        /\ hmRun'[s].status = runs[s].status
        /\ runs[s].pc \in {"hunter", "claim", "write"} /\ runs[s].status = "eligible"
             => hmRun'[s].late
    BY <1>1, <2>1 DEF HubRunRecord
  <2>3. /\ runs[s].pc = "write" => ~ KeepsClaim(runs[s].read, runs[s].status)
        /\ runs[s].pc \in {"hunter", "claim", "write"} => runs[s].status # "deny"
    BY <2>1 DEF HubInv, HubRunSound
  <2> QED
    BY <2>2, <2>3 DEF HubRunSound, KeepsClaim
<1> QED
  BY <1>3, <1>4 DEF HubInv

LEMMA HubConnectInv ==
    ASSUME HubInv, NEW r \in HubRuns, NEW u \in HubUsers, NEW d \in HubIds, HubConnect(u, r, d)
    PROVE  HubInv'
<1> DEFINE new == [HubRunIdle EXCEPT !.pc = "fetch", !.id = d]
<1>1. new \in HubRunRecord /\ new.pc = "fetch"
  BY HubRunIdleOK DEF HubRunRecord
<1>2. HubRowsOK /\ hmRun \in [HubRuns -> HubRunRecord]
  BY DEF HubConnect, HubInv, HubTypeOK, HubRowsOK
<1>3. CASE HubRetry(hmDelivery[d])
  <2>1. hmRun' = HubTooLate([hmRun EXCEPT ![r] = new])
    BY <1>3 DEF HubConnect
  <2> HIDE DEF new
  <2>2. /\ [hmRun EXCEPT ![r] = new] \in [HubRuns -> HubRunRecord]
        /\ \A s \in HubRuns : \/ [hmRun EXCEPT ![r] = new][s] = hmRun[s]
                              \/ [hmRun EXCEPT ![r] = new][s].pc = "fetch"
    BY <1>1, <1>2
  <2> QED
    BY <1>2, <2>1, <2>2, HubLateSound
<1>4. CASE ~ HubRetry(hmDelivery[d])
  BY <1>2, <1>4, HubLateSound DEF HubConnect
<1> QED
  BY <1>3, <1>4

LEMMA HubStepInv ==
    ASSUME HubInv, NEW r \in HubRuns, HubStep(r)
    PROVE  HubInv'
<1> DEFINE q == hmRun[r]
<1>1. /\ q \in HubRunRecord /\ HubRunSound(q)
      /\ hmRun \in [HubRuns -> HubRunRecord]
      /\ hmClaim \in HubClaims /\ hmLink \in {"none"} \cup HubUsers
      /\ "done" \in HubRows /\ "waits" \in HubRows
  BY DEF HubInv, HubTypeOK, HubRows
<1>2. \A outcome \in HubRows : /\ HubDone(q, outcome) \in HubRunRecord
                               /\ HubRunSound(HubDone(q, outcome))
  BY <1>1, HubDoneOK, HubFarSound
<1> HIDE DEF q
<1>3. CASE HubWebhook(r) \/ HubPoll(r)
  BY <1>3, HubBeginsInv DEF HubWebhook, HubPoll
<1>4. CASE \E u \in HubUsers, d \in HubIds : HubConnect(u, r, d)
  BY <1>4, HubConnectInv
<1>5. CASE \E says \in HubReadings : HubFetch(r, says)
  <2>1. PICK says \in HubReadings : HubFetch(r, says)
    BY <1>5
  <2> DEFINE new == [q EXCEPT !.pc = "targets", !.merged = hmMerged, !.status = says]
  <2>2. new \in HubRunRecord /\ new.pc = "targets"
    BY <1>1 DEF HubRunRecord, HubInv, HubTypeOK
  <2>3. hmRun' = [hmRun EXCEPT ![r] = new] /\ HubRunOnly
    BY <1>1, <2>1 DEF HubFetch, q
  <2> HIDE DEF new
  <2> QED
    BY <2>2, <2>3, HubFarSound, OnlyTheRun, HubRunUpdate
<1>6. CASE HubFetchGone(r)
  BY <1>1, <1>2, <1>6, OnlyTheRun, HubRunUpdate DEF HubFetchGone, q
<1>7. CASE HubTargets(r)
  <2> DEFINE new == [q EXCEPT !.pc = "people", !.merged = FALSE]
  <2>1. new \in HubRunRecord /\ new.pc = "people"
    BY <1>1 DEF HubRunRecord
  <2>2. HubRunOnly /\ hmRun' = [hmRun EXCEPT ![r] = hmRun'[r]]
        /\ hmRun'[r] \in {new, HubDone(q, "done")}
    BY <1>1, <1>7 DEF HubTargets, q
  <2> HIDE DEF new
  <2> QED
    BY <1>1, <1>2, <2>1, <2>2, HubFarSound, OnlyTheRun, HubRunUpdate
<1>8. CASE \E passes \in BOOLEAN : HubPeople(r, passes)
  <2>1. PICK passes \in BOOLEAN : HubPeople(r, passes)
    BY <1>8
  <2>2. CASE HubDenies(q, passes)
    BY <1>1, <1>2, <2>1, <2>2, OnlyTheRun, HubRunUpdate DEF HubPeople, q
  <2>3. CASE ~ HubDenies(q, passes)
    <3> DEFINE new == [q EXCEPT !.pc = "hunter"]
    <3>1. new \in HubRunRecord /\ new.pc = "hunter"
      BY <1>1 DEF HubRunRecord
    <3>2. hmRun' = [hmRun EXCEPT ![r] = new] /\ HubRunOnly
      BY <1>1, <2>1, <2>3 DEF HubPeople, q
    <3>3. hmLink \notin hmBackers /\ new.status # "deny"
      BY <1>1, <2>3 DEF HubRunRecord, HubDenies, HubBlocked
    <3> HIDE DEF new
    <3>4. HubRunSound(new)
      BY <3>1, <3>3 DEF HubRunSound
    <3> QED
      BY <3>1, <3>2, <3>4, OnlyTheRun, HubRunUpdate
  <2> QED
    BY <2>2, <2>3
<1>9. CASE HubFindHunter(r)
  <2>1. CASE hmLink = "none"
    BY <1>1, <1>2, <1>9, <2>1, OnlyTheRun, HubRunUpdate DEF HubFindHunter, q
  <2>2. CASE hmLink # "none"
    <3> DEFINE new == [q EXCEPT !.pc = "claim", !.hunter = hmLink]
    <3>1. /\ new \in HubRunRecord /\ new.pc = "claim" /\ new.hunter = hmLink
          /\ new.status = q.status /\ new.late = q.late /\ q.pc = "hunter"
      BY <1>1, <1>9, <2>2 DEF HubRunRecord, HubFindHunter, q
    <3>2. hmRun' = [hmRun EXCEPT ![r] = new] /\ HubRunOnly
      BY <1>1, <1>9, <2>2 DEF HubFindHunter, q
    <3> HIDE DEF new
    <3>3. HubRunSound(new)
      BY <1>1, <3>1 DEF HubRunSound
    <3> QED
      BY <3>1, <3>2, <3>3, OnlyTheRun, HubRunUpdate
  <2> QED
    BY <2>1, <2>2
<1>10. CASE HubFindClaim(r)
  <2>1. CASE KeepsClaim(hmClaim, q.status)
    BY <1>1, <1>2, <1>10, <2>1, OnlyTheRun, HubRunUpdate DEF HubFindClaim, q
  <2>2. CASE ~ KeepsClaim(hmClaim, q.status)
    <3> DEFINE new == [q EXCEPT !.pc = "write", !.read = hmClaim]
    <3>1. /\ new \in HubRunRecord /\ new.pc = "write" /\ new.read = hmClaim
          /\ new.status = q.status /\ new.late = q.late /\ new.hunter = q.hunter
          /\ q.pc = "claim"
      BY <1>1, <1>10 DEF HubRunRecord, HubFindClaim, q
    <3>2. hmRun' = [hmRun EXCEPT ![r] = new] /\ HubRunOnly
      BY <1>1, <1>10, <2>2 DEF HubFindClaim, q
    <3> HIDE DEF new
    <3>3. HubRunSound(new)
      BY <1>1, <2>2, <3>1 DEF HubRunSound
    <3> QED
      BY <3>1, <3>2, <3>3, OnlyTheRun, HubRunUpdate
  <2> QED
    BY <2>1, <2>2
<1>11. CASE HubWriteClaim(r)
  <2>1. hmRun' = [hmRun EXCEPT ![r] = HubDone(q, "done")]
        /\ UNCHANGED <<hmBounty, hmMerged, hmLink, hmBackers, hmSubmission, hmDelivery>>
    BY <1>11 DEF HubWriteClaim, q
  <2>2. hmClaim' \in HubClaims
    <3>1. q.status \in HubClaims
      BY <1>1, <1>11 DEF HubRunRecord, HubReadings, HubClaims, HubRunSound, HubWriteClaim, q
    <3>2. hmClaim' \in {hmClaim, q.status}
      BY <1>11 DEF HubWriteClaim, q
    <3> QED
      BY <1>1, <3>1, <3>2
  <2>3. hmHunter' \in {"none"} \cup HubUsers
    BY <1>1, <1>11 DEF HubWriteClaim, HubInv, HubTypeOK, HubRunRecord, q
  <2> QED
    BY <1>1, <1>2, <2>1, <2>2, <2>3, HubRunUpdate DEF HubRowsOK, HubInv, HubTypeOK
<1>12. CASE HubFinish(r)
  <2>1. hmDelivery' \in [HubIds -> HubRows]
    BY <1>1, <1>12 DEF HubFinish, HubInv, HubTypeOK, HubRunRecord, q
  <2>2. hmRun' = [hmRun EXCEPT ![r] = HubRunIdle]
        /\ UNCHANGED <<hmBounty, hmMerged, hmLink, hmBackers, hmSubmission, hmClaim, hmHunter>>
    BY <1>12 DEF HubFinish, HubRunEnds
  <2> QED
    BY <2>1, <2>2, HubRunIdleOK, HubFarSound, HubRunUpdate DEF HubRowsOK, HubInv, HubTypeOK
<1>13. CASE HubRunDies(r)
  BY <1>13, HubRunIdleOK, HubFarSound, OnlyTheRun, HubRunUpdate DEF HubRunDies, HubRunEnds
<1> QED
  BY <1>3, <1>4, <1>5, <1>6, <1>7, <1>8, <1>9, <1>10, <1>11, <1>12, <1>13 DEF HubStep

LEMMA HubNextInv == HubInv /\ [HubNext]_hmVars => HubInv'
<1> SUFFICES ASSUME HubInv, [HubNext]_hmVars
             PROVE  HubInv'
  OBVIOUS
<1>1. CASE \E r \in HubRuns : HubStep(r)
  BY <1>1, HubStepInv
<1>2. CASE HubBacks
  <2>1. HubRowsOK /\ hmRun \in [HubRuns -> HubRunRecord]
    BY <1>2 DEF HubBacks, HubRest, HubInv, HubTypeOK, HubRowsOK
  <2> QED
    BY <1>2, <2>1, HubLateSound DEF HubBacks
<1>3. CASE Submit \/ Withdraw \/ HubUnlink \/ HubMergesPr \/ HubPaid \/ UNCHANGED hmVars
  <2>1. /\ hmRun' = hmRun /\ hmBackers' = hmBackers /\ hmLink' \in {hmLink, "none"}
        /\ HubTypeOK'
    BY <1>3 DEF Submit, Withdraw, HubUnlink, HubMergesPr, HubPaid, HubRest, hmVars, HubInv,
                HubTypeOK, HubClaims
  <2>2. "none" \notin hmBackers
    BY DEF HubInv, HubTypeOK, HubUsers
  <2>3. \A r \in HubRuns : HubRunSound(hmRun[r])'
    BY <2>1, <2>2 DEF HubInv, HubRunSound, KeepsClaim
  <2> QED
    BY <2>1, <2>3 DEF HubInv
<1> QED
  BY <1>1, <1>2, <1>3 DEF HubNext

\* Rows and evaluations of a Hugging Face bounty keep their types.
THEOREM HubTypeCorrect == HubSpec => []HubTypeOK
<1>1. HubInv => HubTypeOK
  BY DEF HubInv
<1> QED
  BY <1>1, HubInitInv, HubNextInv, PTL DEF HubSpec

\* No claim becomes eligible for a backer of the bounty, unless the backing or the
\* link came after the evaluation had read them (blockedIdentities, findHunter); and
\* an eligible claim becomes disputed, and a paid one open, only through an
\* evaluation that had read the claim before (writeClaim).
THEOREM HubClaimsStay == HubSpec => HubClaimStays
<1> DEFINE Won == hmClaim' = "eligible" /\ <<hmClaim, hmHunter>> # <<hmClaim, hmHunter>>'
           Lost == hmClaim \in {"eligible", "paid"} /\ hmClaim' \notin {hmClaim, "paid"}
           Outsider == hmHunter' \notin hmBackers
                       \/ \E r \in HubRuns : hmRun[r].pc = "write" /\ hmRun[r].late
           Reread == \E r \in HubRuns : /\ hmRun[r].pc = "write"
                                        /\ hmRun[r].read \notin {"none", hmClaim}
<1>1. ASSUME HubInv, [HubNext]_hmVars, Won \/ Lost
      PROVE  \E r \in HubRuns : HubWriteClaim(r)
  BY <1>1 DEF HubNext, HubStep, HubWebhook, HubPoll, HubConnect, HubFetch, HubFetchGone,
       HubTargets, HubPeople, HubFindHunter, HubFindClaim, HubFinish, HubRunDies, HubRunOnly,
       Submit, Withdraw, HubUnlink, HubBacks, HubMergesPr, HubPaid, HubRest, hmVars
<1>2. ASSUME HubInv, NEW r \in HubRuns, HubWriteClaim(r)
      PROVE  /\ Won => Outsider
             /\ Lost => Reread
  <2>1. /\ hmRun[r].pc = "write" /\ HubRunSound(hmRun[r])
        /\ hmRun[r].status \in {"disputed", "eligible"} /\ hmRun[r].late \in BOOLEAN
    BY <1>2 DEF HubInv, HubTypeOK, HubRunRecord, HubReadings, HubRunSound, HubWriteClaim
  <2>2. Won => hmRun[r].status = "eligible" /\ hmHunter' = hmRun[r].hunter
    BY <1>2 DEF HubWriteClaim
  <2>3. Won => hmHunter' \notin hmBackers \/ hmRun[r].late
    BY <2>1, <2>2 DEF HubRunSound
  <2>4. Lost => hmRun[r].read # "none" /\ hmRun[r].status # hmClaim
    BY <1>2, <2>1 DEF HubWriteClaim
  <2>5. Lost => hmRun[r].read # hmClaim
    BY <2>1, <2>4 DEF KeepsClaim, HubRunSound
  <2> QED
    BY <2>1, <2>3, <2>4, <2>5
<1>3. HubInv /\ [HubNext]_hmVars => (Won => Outsider) /\ (Lost => Reread)
  BY <1>1, <1>2
<1>4. HubInv /\ [HubNext]_hmVars => [(Won => Outsider) /\ (Lost => Reread)]_hmVars
  BY <1>3
<1> QED
  BY <1>4, HubInitInv, HubNextInv, PTL DEF HubSpec, HubClaimStays
-----------------------------------------------------------------------------
(* The pool (PoolFreeze): the rows a delivery may change, and the set that one  *)
(* freeze leaves.  The invariant says what a delivery about to write has read, *)
(* never a row that was frozen already; and OneSet, that what an undisturbed  *)
(* freeze has written and has still to write is one plan.                    *)

RowSets == UNION {[S -> ParticipantRow] : S \in SUBSET Authors}

PoolRunRecord ==
    [pc: PoolPCs, merger: Authors \cup {NoAuthor}, rows: RowSets,
     author: Authors \cup {NoAuthor}, read: {"none", "candidate", "frozen"}]

\* What a delivery in the middle of its work knows.
RunKnows(q) ==
    /\ q.pc \in {"upsert", "live_check", "live_read", "live_write"} => q.author \in Authors
    /\ q.pc = "upsert" => q.author \in DOMAIN q.rows
    /\ q.pc \in {"upsert", "live_write"} => q.read # "frozen"

RestOfPool ==
    /\ pfPrs \in Seq(Authors)
    /\ Opened \in SUBSET Authors /\ Cardinality(Opened) = Len(pfPrs)
    /\ pfMerge \in [Mergers -> 0 .. Cardinality(Authors)]
    /\ pfRow \in [Authors -> ParticipantRow]
    /\ pfDisturbed \in BOOLEAN

PoolInv ==
    /\ RestOfPool
    /\ pfRun \in [PoolRuns -> PoolRunRecord]
    /\ \A r \in PoolRuns : RunKnows(pfRun[r])

LEMMA RowSetMember ==
    ASSUME NEW S \in SUBSET Authors, NEW f \in [S -> ParticipantRow]
    PROVE  f \in RowSets
  BY DEF RowSets

LEMMA RowSetElement ==
    ASSUME NEW f \in RowSets
    PROVE  DOMAIN f \in SUBSET Authors /\ f \in [DOMAIN f -> ParticipantRow]
  BY DEF RowSets

LEMMA PoolTypeFollows == PoolInv => PoolTypeOK
<1> SUFFICES ASSUME PoolInv
             PROVE  PoolTypeOK
  OBVIOUS
<1>1. ASSUME NEW r \in PoolRuns
      PROVE  /\ pfRun[r].pc \in PoolPCs
             /\ {pfRun[r].merger, pfRun[r].author} \subseteq Authors \cup {NoAuthor}
             /\ DOMAIN pfRun[r].rows \subseteq Authors
             /\ pfRun[r].rows \in [DOMAIN pfRun[r].rows -> ParticipantRow]
             /\ pfRun[r].read \in {"none", "candidate", "frozen"}
  <2>1. pfRun[r] \in PoolRunRecord
    BY DEF PoolInv
  <2>2. pfRun[r].rows \in RowSets
    BY <2>1 DEF PoolRunRecord
  <2> QED
    BY <2>1, <2>2, RowSetElement DEF PoolRunRecord
<1> QED
  BY <1>1 DEF PoolInv, RestOfPool, PoolTypeOK

LEMMA RunIdleOK == PoolRunIdle \in PoolRunRecord /\ RunKnows(PoolRunIdle)
<1>1. << >> \in RowSets
  <2>1. << >> \in [{} -> ParticipantRow]
    OBVIOUS
  <2> QED
    BY <2>1, RowSetMember
<1> QED
  BY <1>1 DEF PoolRunIdle, PoolRunRecord, RunKnows, PoolPCs

LEMMA PoolRunUpdate ==
    ASSUME PoolInv, NEW r \in PoolRuns, NEW q \in PoolRunRecord, RunKnows(q),
           pfRun' = [pfRun EXCEPT ![r] = q], RestOfPool'
    PROVE  PoolInv'
<1>1. pfRun' \in [PoolRuns -> PoolRunRecord] /\ \A s \in PoolRuns : pfRun'[s] \in {q, pfRun[s]}
  BY DEF PoolInv
<1>2. \A s \in PoolRuns : RunKnows(pfRun'[s])
  BY <1>1 DEF PoolInv
<1> QED
  BY <1>1, <1>2 DEF PoolInv

LEMMA OnlyRuns ==
    ASSUME PoolInv, UNCHANGED <<pfPrs, pfMerge>>,
           pfRow' \in [Authors -> ParticipantRow], pfDisturbed' \in BOOLEAN
    PROVE  RestOfPool'
  BY DEF PoolInv, RestOfPool, Opened

LEMMA RunsOnlyInv ==
    ASSUME PoolInv, RunsOnly
    PROVE  RestOfPool'
  BY DEF PoolInv, RestOfPool, Opened, RunsOnly

LEMMA PoolInitInv == PoolInit => PoolInv
<1> SUFFICES ASSUME PoolInit
             PROVE  PoolInv
  OBVIOUS
<1>1. NoParticipant \in ParticipantRow
  BY DEF NoParticipant, ParticipantRow, Roles
<1>2. Cardinality(Authors) \in Nat
  BY PoolAssumption, FS_CardinalityType
<1>3. Opened = {} /\ Cardinality({}) = 0
  BY FS_EmptySet DEF PoolInit, Opened, Range
<1>4. pfPrs \in Seq(Authors) /\ Cardinality(Opened) = Len(pfPrs) /\ Opened \in SUBSET Authors
  BY <1>3 DEF PoolInit
<1>5. pfMerge \in [Mergers -> 0 .. Cardinality(Authors)]
  BY <1>2 DEF PoolInit
<1>6. pfRow \in [Authors -> ParticipantRow] /\ pfDisturbed \in BOOLEAN
  BY <1>1 DEF PoolInit
<1>7. RestOfPool
  BY <1>4, <1>5, <1>6 DEF RestOfPool
<1> QED
  BY <1>7, RunIdleOK DEF PoolInit, PoolInv

-----------------------------------------------------------------------------
(* The rows a freeze writes                                                 *)

LEMMA FrozenRowsTyped ==
    ASSUME PoolInv, NEW m, NEW found \in SUBSET Opened, m \in found
    PROVE  FrozenRows(m, found) \in RowSets
<1> DEFINE E == EligibleAuthors(m, found)
           n == Cardinality(E)
           each == ShareAtomic(PoolFace, n, PoolFeeBps, PoolBps, PoolMaxPaid)
           wins == WinnerAtomic(PoolFace, n, PoolFeeBps, PoolBps, PoolMaxPaid)
           D == {m} \cup E \cup ExcludedAuthors(found)
<1>1. found \in SUBSET Authors /\ E \in SUBSET Authors /\ D \in SUBSET Authors
  BY DEF PoolInv, RestOfPool, EligibleAuthors, ExcludedAuthors
<1>2. n \in Nat
  BY <1>1, PoolAssumption, FS_Subset, FS_CardinalityType
<1>3. each \in Nat /\ wins \in Nat
  BY <1>2, PoolAssumption, ShareBounds, SplitConserves
<1>4. \A a : /\ FrozenRow("winner", wins) \in ParticipantRow
             /\ FrozenRow("pool", each) \in ParticipantRow
             /\ FrozenRow("overflow", 0) \in ParticipantRow
             /\ FrozenRow("excluded_poster", 0) \in ParticipantRow
  BY <1>3 DEF FrozenRow, ParticipantRow, Roles
<1> DEFINE row(a) == CASE a = m -> FrozenRow("winner", wins)
                       [] a \in PaidAuthors(E)     -> FrozenRow("pool", each)
                       [] a \in E \ PaidAuthors(E) -> FrozenRow("overflow", 0)
                       [] OTHER                    -> FrozenRow("excluded_poster", 0)
<1>5. \A a : row(a) \in ParticipantRow
  BY <1>4
<1>6. FrozenRows(m, found) = [a \in D |-> row(a)]
  BY DEF FrozenRows
<1> HIDE DEF row, D
<1>7. FrozenRows(m, found) \in [D -> ParticipantRow]
  BY <1>5, <1>6
<1> QED
  BY <1>1, <1>7, RowSetMember

\* RowDone leaves the run idle, or at work on the other rows.
LEMMA RowDoneInv ==
    ASSUME PoolInv, NEW r \in PoolRuns, NEW a, RowDone(r, a), RestOfPool'
    PROVE  PoolInv'
<1> DEFINE q == pfRun[r]
           rest == DOMAIN q.rows \ {a}
           less == [b \in rest |-> q.rows[b]]
           new == [q EXCEPT !.pc = "rows", !.author = NoAuthor, !.read = "none",
                            !.rows = less]
<1>1. q \in PoolRunRecord /\ pfRun \in [PoolRuns -> PoolRunRecord]
  BY DEF PoolInv
<1>2. q.rows \in RowSets
  BY <1>1 DEF PoolRunRecord
<1>3. rest \in SUBSET Authors /\ less \in [rest -> ParticipantRow]
  BY <1>2, RowSetElement
<1>4. less \in RowSets
  BY <1>3, RowSetMember
<1> HIDE DEF less
<1>5. new \in PoolRunRecord /\ RunKnows(new)
  BY <1>1, <1>4 DEF PoolRunRecord, RunKnows, PoolPCs
<1>6. pfRun' \in {[pfRun EXCEPT ![r] = PoolRunIdle], [pfRun EXCEPT ![r] = new]}
  BY <1>1 DEF RowDone, less
<1> HIDE DEF new
<1> QED
  BY <1>5, <1>6, RunIdleOK, PoolRunUpdate

\* What UpsertWrites and LiveWrites leave in the table is a row again.
LEMMA UpsertedTyped ==
    ASSUME PoolInv, NEW r \in PoolRuns, NEW row \in ParticipantRow
    PROVE  Upserted(r, row) \in [Authors -> ParticipantRow]
  BY DEF PoolInv, RestOfPool, Upserted

LEMMA PoolStepInv ==
    ASSUME PoolInv, NEW r \in PoolRuns, PoolStep(r)
    PROVE  PoolInv'
<1> DEFINE q == pfRun[r]
<1>1. /\ q \in PoolRunRecord /\ RunKnows(q) /\ pfRun \in [PoolRuns -> PoolRunRecord]
      /\ pfRow \in [Authors -> ParticipantRow] /\ pfDisturbed \in BOOLEAN
      /\ Opened \in SUBSET Authors
  BY DEF PoolInv, RestOfPool
<1>2. q.rows \in RowSets
  BY <1>1 DEF PoolRunRecord
<1>3. CASE \E m \in Mergers : FreezeBegins(r, m)
  <2>1. PICK m \in Mergers : FreezeBegins(r, m)
    BY <1>3
  <2> DEFINE new == [PoolRunIdle EXCEPT !.pc = "check", !.merger = m]
  <2>2. new \in PoolRunRecord /\ RunKnows(new)
    BY RunIdleOK, PoolAssumption DEF PoolRunRecord, RunKnows, PoolPCs
  <2>3. pfRun' = [pfRun EXCEPT ![r] = new] /\ RestOfPool'
    BY <2>1, RunsOnlyInv DEF FreezeBegins
  <2> HIDE DEF new
  <2> QED
    BY <2>2, <2>3, PoolRunUpdate
<1>4. CASE FreezeChecks(r)
  <2> DEFINE new == [q EXCEPT !.pc = "snapshot"]
  <2>1. new \in PoolRunRecord /\ RunKnows(new)
    BY <1>1 DEF PoolRunRecord, RunKnows, PoolPCs
  <2>2. pfRun' \in {[pfRun EXCEPT ![r] = PoolRunIdle], [pfRun EXCEPT ![r] = new]}
    BY <1>1, <1>4 DEF FreezeChecks, PoolRunEnds, PoolRunGoto
  <2>3. pfDisturbed' \in BOOLEAN /\ UNCHANGED <<pfPrs, pfMerge, pfRow>>
    BY <1>1, <1>4 DEF FreezeChecks
  <2>4. RestOfPool'
    BY <1>1, <2>3, OnlyRuns
  <2> HIDE DEF new
  <2> QED
    BY <2>1, <2>2, <2>4, RunIdleOK, PoolRunUpdate
<1>5. CASE \E found \in SUBSET Authors : FreezeSnapshot(r, found)
  <2>1. PICK found : FreezeSnapshot(r, found)
    BY <1>5
  <2> DEFINE rows == FrozenRows(q.merger, found)
             new == [q EXCEPT !.pc = "rows", !.rows = rows]
  <2>2. rows \in RowSets
    BY <2>1, FrozenRowsTyped DEF FreezeSnapshot
  <2>3. pfRun' = [pfRun EXCEPT ![r] = new] /\ RestOfPool'
    BY <1>1, <2>1, RunsOnlyInv DEF FreezeSnapshot
  <2> HIDE DEF rows
  <2>4. new \in PoolRunRecord /\ RunKnows(new)
    BY <1>1, <2>2 DEF PoolRunRecord, RunKnows, PoolPCs
  <2> HIDE DEF new
  <2> QED
    BY <2>3, <2>4, PoolRunUpdate
<1>6. CASE SnapshotUnavailable(r)
  BY <1>6, RunIdleOK, RunsOnlyInv, PoolRunUpdate DEF SnapshotUnavailable, PoolRunEnds
<1>7. CASE \E a \in Authors : UpsertReads(r, a)
  <2>1. PICK a \in Authors : UpsertReads(r, a)
    BY <1>7
  <2>2. RestOfPool'
    BY <2>1, RunsOnlyInv DEF UpsertReads
  <2>3. CASE pfRow[a].st = "frozen"
    BY <2>1, <2>2, <2>3, RowDoneInv DEF UpsertReads
  <2>4. CASE pfRow[a].st # "frozen"
    <3> DEFINE new == [q EXCEPT !.pc = "upsert", !.author = a, !.read = pfRow[a].st]
    <3>1. pfRow[a].st \in {"none", "candidate"} /\ a \in DOMAIN q.rows
      BY <1>1, <2>1, <2>4 DEF ParticipantRow, UpsertReads
    <3>2. new \in PoolRunRecord /\ RunKnows(new)
      BY <1>1, <3>1 DEF PoolRunRecord, RunKnows, PoolPCs
    <3>3. pfRun' = [pfRun EXCEPT ![r] = new]
      BY <1>1, <2>1, <2>4 DEF UpsertReads
    <3> HIDE DEF new
    <3> QED
      BY <2>2, <3>2, <3>3, PoolRunUpdate
  <2> QED
    BY <2>3, <2>4
<1>8. CASE UpsertWrites(r)
  <2> DEFINE a == q.author
  <2>1. a \in Authors /\ a \in DOMAIN q.rows
    BY <1>1, <1>8 DEF UpsertWrites, RunKnows
  <2>2. q.rows[a] \in ParticipantRow
    BY <1>2, <2>1, RowSetElement
  <2>3. pfRow' \in [Authors -> ParticipantRow] /\ pfDisturbed' \in BOOLEAN
    BY <1>1, <1>8, <2>2, UpsertedTyped DEF UpsertWrites
  <2>4. RestOfPool' /\ RowDone(r, a)
    BY <1>8, <2>3, OnlyRuns DEF UpsertWrites
  <2> QED
    BY <2>4, RowDoneInv
<1>9. CASE PoolRunDies(r)
  <2>1. pfDisturbed' \in BOOLEAN /\ UNCHANGED <<pfPrs, pfMerge, pfRow>>
    BY <1>1, <1>9 DEF PoolRunDies
  <2>2. RestOfPool'
    BY <1>1, <2>1, OnlyRuns
  <2> QED
    BY <1>9, <2>2, RunIdleOK, PoolRunUpdate DEF PoolRunDies, PoolRunEnds
<1>10. CASE \E a \in Authors : LiveBegins(r, a)
  <2>1. PICK a \in Authors : LiveBegins(r, a)
    BY <1>10
  <2> DEFINE new == [PoolRunIdle EXCEPT !.pc = "live_check", !.author = a]
  <2>2. new \in PoolRunRecord /\ RunKnows(new)
    BY RunIdleOK DEF PoolRunRecord, RunKnows, PoolPCs
  <2>3. pfRun' = [pfRun EXCEPT ![r] = new] /\ RestOfPool'
    BY <2>1, RunsOnlyInv DEF LiveBegins
  <2> HIDE DEF new
  <2> QED
    BY <2>2, <2>3, PoolRunUpdate
<1>11. CASE LiveChecks(r)
  <2> DEFINE new == [q EXCEPT !.pc = "live_read"]
  <2>1. new \in PoolRunRecord /\ RunKnows(new)
    BY <1>1, <1>11 DEF PoolRunRecord, RunKnows, PoolPCs, LiveChecks
  <2>2. pfRun' \in {[pfRun EXCEPT ![r] = PoolRunIdle], [pfRun EXCEPT ![r] = new]}
    BY <1>1, <1>11 DEF LiveChecks, PoolRunEnds, PoolRunGoto
  <2>3. RestOfPool'
    BY <1>11, RunsOnlyInv DEF LiveChecks
  <2> HIDE DEF new
  <2> QED
    BY <2>1, <2>2, <2>3, RunIdleOK, PoolRunUpdate
<1>12. CASE LiveReads(r)
  <2> DEFINE st == pfRow[q.author].st
             new == [q EXCEPT !.pc = "live_write", !.read = st]
  <2>1. RestOfPool' /\ q.author \in Authors
    BY <1>1, <1>12, RunsOnlyInv DEF LiveReads, RunKnows
  <2>2. CASE st = "frozen"
    BY <1>12, <2>1, <2>2, RunIdleOK, PoolRunUpdate DEF LiveReads, KeepsFrozen, PoolRunEnds
  <2>3. CASE st # "frozen"
    <3>1. st \in {"none", "candidate"}
      BY <1>1, <2>1, <2>3 DEF ParticipantRow
    <3>2. pfRun' = [pfRun EXCEPT ![r] = new]
      BY <1>1, <1>12, <2>3 DEF LiveReads, KeepsFrozen
    <3> HIDE DEF st
    <3>3. new \in PoolRunRecord /\ RunKnows(new)
      BY <1>1, <2>1, <3>1 DEF PoolRunRecord, RunKnows, PoolPCs
    <3> HIDE DEF new
    <3> QED
      BY <2>1, <3>2, <3>3, PoolRunUpdate
  <2> QED
    BY <2>2, <2>3
<1>13. CASE LiveWrites(r)
  <2>1. Candidate \in ParticipantRow
    BY DEF Candidate, ParticipantRow, Roles
  <2>2. pfRow' \in [Authors -> ParticipantRow] /\ pfDisturbed' \in BOOLEAN
    BY <1>1, <1>13, <2>1, UpsertedTyped DEF LiveWrites
  <2>3. RestOfPool' /\ PoolRunEnds(r)
    BY <1>13, <2>2, OnlyRuns DEF LiveWrites
  <2> QED
    BY <2>3, RunIdleOK, PoolRunUpdate DEF PoolRunEnds
<1> QED
  BY <1>3, <1>4, <1>5, <1>6, <1>7, <1>8, <1>9, <1>10, <1>11, <1>12, <1>13 DEF PoolStep

-----------------------------------------------------------------------------
(* GitHub                                                                   *)

LEMMA OpenPrInv ==
    ASSUME PoolInv, NEW a \in Authors, OpenPr(a)
    PROVE  RestOfPool'
<1>1. /\ pfPrs \in Seq(Authors) /\ a \notin Opened
      /\ Opened \in SUBSET Authors /\ Cardinality(Opened) = Len(pfPrs)
  BY DEF PoolInv, RestOfPool, OpenPr
<1>2. pfPrs' = Append(pfPrs, a)
  BY DEF OpenPr
<1>3. pfPrs' \in Seq(Authors) /\ Len(pfPrs') = Len(pfPrs) + 1
  BY <1>1, <1>2
<1>4. Opened' = Opened \cup {a}
  <2>1. DOMAIN pfPrs' = DOMAIN pfPrs \cup {Len(pfPrs) + 1}
    BY <1>1, <1>3
  <2>2. \A n \in DOMAIN pfPrs : pfPrs'[n] = pfPrs[n]
    BY <1>1, <1>2
  <2>3. pfPrs'[Len(pfPrs) + 1] = a
    BY <1>1, <1>2
  <2> QED
    BY <2>1, <2>2, <2>3 DEF Opened, Range
<1>5. Cardinality(Opened') = Cardinality(Opened) + 1
  BY <1>1, <1>4, PoolAssumption, FS_Subset, FS_AddElement
<1>6. UNCHANGED <<pfMerge, pfRow, pfDisturbed>>
  BY DEF OpenPr
<1> QED
  BY <1>1, <1>3, <1>4, <1>5, <1>6 DEF PoolInv, RestOfPool

LEMMA MergePrInv ==
    ASSUME PoolInv, NEW m \in Mergers, MergePr(m)
    PROVE  RestOfPool'
<1>1. /\ Opened \in SUBSET Authors /\ Cardinality(Opened) = Len(pfPrs)
      /\ pfMerge \in [Mergers -> 0 .. Cardinality(Authors)]
  BY DEF PoolInv, RestOfPool
<1>2. Len(pfPrs) \in 0 .. Cardinality(Authors)
  BY <1>1, PoolAssumption, FS_Subset, FS_CardinalityType
<1>3. pfMerge' \in [Mergers -> 0 .. Cardinality(Authors)]
  BY <1>1, <1>2 DEF MergePr
<1> QED
  BY <1>3 DEF MergePr, PoolInv, RestOfPool, Opened

LEMMA PoolNextInv == PoolInv /\ [PoolNext]_pfVars => PoolInv'
<1> SUFFICES ASSUME PoolInv, [PoolNext]_pfVars
             PROVE  PoolInv'
  OBVIOUS
<1>1. CASE \E r \in PoolRuns : PoolStep(r)
  BY <1>1, PoolStepInv
<1>2. CASE (\E a \in Authors : OpenPr(a)) \/ (\E m \in Mergers : MergePr(m))
  <2>1. RestOfPool' /\ UNCHANGED pfRun
    BY <1>2, OpenPrInv, MergePrInv DEF OpenPr, MergePr
  <2> QED
    BY <2>1 DEF PoolInv
<1>3. CASE UNCHANGED pfVars
  BY <1>3 DEF PoolInv, RestOfPool, Opened, pfVars
<1> QED
  BY <1>1, <1>2, <1>3 DEF PoolNext

-----------------------------------------------------------------------------
(* The cap on the pool                                                      *)

\* The elements of S with fewer than k others before them.
FirstAmong(f, S, k) == {x \in S : Cardinality({y \in S : f[y] < f[x]}) < k}

LEMMA FiniteMax ==
    ASSUME NEW S, IsFiniteSet(S), S # {}, NEW f, \A x \in S : f[x] \in Nat
    PROVE  \E z \in S : \A x \in S : f[x] <= f[z]
<1> DEFINE Good == {s \in SUBSET S : s # {} => \E z \in s : \A x \in s : f[x] <= f[z]}
<1>1. ASSUME NEW s \in SUBSET S, \A t \in SUBSET s : t # s => t \in Good
      PROVE  s \in Good
  <2>1. SUFFICES ASSUME s # {}
                 PROVE  \E z \in s : \A x \in s : f[x] <= f[z]
    OBVIOUS
  <2>2. PICK y \in s : TRUE
    BY <2>1
  <2>3. s \ {y} \in Good
    BY <1>1
  <2>4. CASE s \ {y} = {}
    BY <2>2, <2>4
  <2>5. CASE s \ {y} # {}
    <3>1. PICK z \in s \ {y} : \A x \in s \ {y} : f[x] <= f[z]
      BY <2>3, <2>5
    <3>2. f[y] \in Nat /\ f[z] \in Nat /\ \A x \in s : f[x] \in Nat
      BY <3>1
    <3>3. CASE f[y] <= f[z]
      BY <3>1, <3>3
    <3>4. CASE f[z] < f[y]
      <4>1. \A x \in s : f[x] <= f[y]
        BY <3>1, <3>2, <3>4
      <4> QED
        BY <2>2, <4>1
    <3> QED
      BY <3>2, <3>3, <3>4
  <2> QED
    BY <2>4, <2>5
<1> HIDE DEF Good
<1>2. S \in Good
  BY <1>1, SubsetInduction
<1> QED
  BY <1>2 DEF Good

\* As many members are paid as there are, or as the cap lets (capPaidPool).
LEMMA CapCount ==
    ASSUME NEW S, IsFiniteSet(S), NEW f, \A x \in S : f[x] \in Nat,
           \A x, y \in S : f[x] = f[y] => x = y, NEW k \in Nat
    PROVE  Cardinality(FirstAmong(f, S, k)) = PaidCount(Cardinality(S), k)
<1> DEFINE Good == {s \in SUBSET S : Cardinality(FirstAmong(f, s, k)) = PaidCount(Cardinality(s), k)}
<1>1. ASSUME NEW s \in SUBSET S, \A t \in SUBSET s : t # s => t \in Good
      PROVE  s \in Good
  <2>0. IsFiniteSet(s)
    BY FS_Subset
  <2>1. CASE s = {}
    <3>1. FirstAmong(f, s, k) = {}
      BY <2>1 DEF FirstAmong
    <3> QED
      BY <2>1, <3>1, FS_EmptySet DEF PaidCount
  <2>2. CASE s # {}
    <3>1. PICK z \in s : \A x \in s : f[x] <= f[z]
      BY <2>0, <2>2, FiniteMax
    <3> DEFINE R == s \ {z}
               before(x, t) == {y \in t : f[y] < f[x]}
    <3>2. R \in Good /\ IsFiniteSet(R) /\ z \notin R /\ s = R \cup {z}
      BY <1>1, <2>0, FS_RemoveElement
    <3>3. Cardinality(R) \in Nat /\ Cardinality(s) = Cardinality(R) + 1
      BY <3>2, FS_CardinalityType, FS_AddElement
    <3>4. \A x \in R : before(x, s) = before(x, R)
      BY <3>1
    <3>5. before(z, s) = R
      BY <3>1
    <3>6. FirstAmong(f, s, k) = FirstAmong(f, R, k) \cup (IF Cardinality(R) < k THEN {z} ELSE {})
      <4>1. \A x \in R : x \in FirstAmong(f, s, k) <=> x \in FirstAmong(f, R, k)
        BY <3>4 DEF FirstAmong
      <4>2. z \in FirstAmong(f, s, k) <=> Cardinality(R) < k
        BY <3>5 DEF FirstAmong
      <4>3. FirstAmong(f, s, k) \subseteq R \cup {z} /\ FirstAmong(f, R, k) \subseteq R
        BY DEF FirstAmong
      <4> QED
        BY <4>1, <4>2, <4>3
    <3>7. IsFiniteSet(FirstAmong(f, R, k)) /\ z \notin FirstAmong(f, R, k)
      BY <3>2, FS_Subset DEF FirstAmong
    <3>8. Cardinality(FirstAmong(f, R, k)) = PaidCount(Cardinality(R), k)
      BY <3>2
    <3>9. Cardinality(FirstAmong(f, s, k)) =
            PaidCount(Cardinality(R), k) + (IF Cardinality(R) < k THEN 1 ELSE 0)
      <4>1. PaidCount(Cardinality(R), k) \in Nat
        BY <3>3 DEF PaidCount
      <4> HIDE DEF R
      <4>2. CASE Cardinality(R) < k
        BY <3>6, <3>7, <3>8, <4>2, FS_AddElement
      <4>3. CASE ~ (Cardinality(R) < k)
        <5>1. FirstAmong(f, s, k) = FirstAmong(f, R, k)
          BY <3>6, <4>3
        <5> QED
          BY <3>8, <4>1, <4>3, <5>1
      <4> QED
        BY <4>2, <4>3
    <3> HIDE DEF R
    <3> QED
      BY <3>3, <3>9 DEF PaidCount
  <2> QED
    BY <2>1, <2>2
<1> HIDE DEF Good
<1>2. S \in Good
  BY <1>1, SubsetInduction
<1> QED
  BY <1>2 DEF Good
-----------------------------------------------------------------------------
(* One set of frozen rows                                                   *)

\* The rows of one freeze: those still to write, and the frozen ones in the table.
FrozenIn(row) == {a \in Authors : row[a].st = "frozen"}

PlanOf(row, rows) ==
    [a \in FrozenIn(row) \cup DOMAIN rows |-> IF a \in DOMAIN rows THEN rows[a] ELSE row[a]]

InRole(plan, role) == {a \in DOMAIN plan : plan[a].role = role}

\* One winner, the shares of one split, and as many of them as the cap lets.
GoodPlan(plan) ==
    LET n == Cardinality(InRole(plan, "pool") \cup InRole(plan, "overflow"))
    IN  /\ \A a \in DOMAIN plan : plan[a].st = "frozen"
        /\ \E w \in Authors :
             /\ InRole(plan, "winner") = {w}
             /\ plan[w].share = WinnerAtomic(PoolFace, n, PoolFeeBps, PoolBps, PoolMaxPaid)
        /\ \A a \in InRole(plan, "pool") :
             plan[a].share = ShareAtomic(PoolFace, n, PoolFeeBps, PoolBps, PoolMaxPaid)
        /\ Cardinality(InRole(plan, "pool")) = PaidCount(n, PoolMaxPaid)

\* While no freeze has been disturbed there is at most one at work, and what it
\* has written and has to write is the plan it began with.
OneSet ==
    ~ pfDisturbed =>
        /\ \A r, s \in PoolRuns : r # s => ~ (Freezing(r) /\ Freezing(s))
        /\ \A r \in PoolRuns :
             /\ pfRun[r].pc = "snapshot" => ~ BountyIsFrozen
             /\ pfRun[r].pc \in {"rows", "upsert"} =>
                  /\ DOMAIN pfRun[r].rows \cap FrozenIn(pfRow) = {}
                  /\ GoodPlan(PlanOf(pfRow, pfRun[r].rows))
        /\ (\A r \in PoolRuns : ~ Freezing(r)) /\ BountyIsFrozen => GoodPlan(PlanOf(pfRow, << >>))

\* A snapshot gives one set of rows whose shares are those of one split.
LEMMA SnapshotGood ==
    ASSUME PoolInv, NEW m, NEW found \in SUBSET Opened, m \in found
    PROVE  /\ GoodPlan(FrozenRows(m, found))
           /\ FrozenRows(m, found) = [a \in DOMAIN FrozenRows(m, found) |-> FrozenRows(m, found)[a]]
<1> DEFINE E == EligibleAuthors(m, found)
           n == Cardinality(E)
           each == ShareAtomic(PoolFace, n, PoolFeeBps, PoolBps, PoolMaxPaid)
           wins == WinnerAtomic(PoolFace, n, PoolFeeBps, PoolBps, PoolMaxPaid)
           D == {m} \cup E \cup ExcludedAuthors(found)
           row(a) == CASE a = m -> FrozenRow("winner", wins)
                       [] a \in PaidAuthors(E)     -> FrozenRow("pool", each)
                       [] a \in E \ PaidAuthors(E) -> FrozenRow("overflow", 0)
                       [] OTHER                    -> FrozenRow("excluded_poster", 0)
           plan == FrozenRows(m, found)
<1>1. plan = [a \in D |-> row(a)]
  BY DEF FrozenRows
<1>2. m \notin E /\ PaidAuthors(E) \subseteq E /\ m \in Authors
  BY DEF EligibleAuthors, PaidAuthors, PoolInv, RestOfPool
<1>3. E \in SUBSET Opened /\ IsFiniteSet(E) /\ E \in SUBSET Authors
  BY PoolAssumption, FS_Subset DEF EligibleAuthors, PoolInv, RestOfPool
<1>4. n \in Nat
  BY <1>3, FS_CardinalityType
<1>5. /\ plan[m] = FrozenRow("winner", wins)
      /\ \A a \in PaidAuthors(E) : plan[a] = FrozenRow("pool", each)
      /\ \A a \in E \ PaidAuthors(E) : plan[a] = FrozenRow("overflow", 0)
      /\ \A a \in D \ ({m} \cup E) : plan[a] = FrozenRow("excluded_poster", 0)
  <2> HIDE DEF E, n, each, wins, plan
  <2>1. \A a \in D : plan[a] = row(a)
    BY <1>1
  <2>2. m \in D /\ E \subseteq D
    OBVIOUS
  <2> HIDE DEF D
  <2>3. plan[m] = FrozenRow("winner", wins)
    <3>1. row(m) = FrozenRow("winner", wins)
      BY <1>2
    <3> QED
      BY <2>1, <2>2, <3>1
  <2>4. ASSUME NEW a \in PaidAuthors(E)
        PROVE  plan[a] = FrozenRow("pool", each)
    BY <1>2, <2>1, <2>2
  <2>5. ASSUME NEW a \in E \ PaidAuthors(E)
        PROVE  plan[a] = FrozenRow("overflow", 0)
    BY <1>2, <2>1, <2>2
  <2>6. ASSUME NEW a \in D \ ({m} \cup E)
        PROVE  plan[a] = FrozenRow("excluded_poster", 0)
    BY <1>2, <2>1
  <2> QED
    BY <2>3, <2>4, <2>5, <2>6
<1>6. /\ DOMAIN plan = D /\ {m} \cup E \subseteq D
  BY <1>1
<1>7. plan = [a \in DOMAIN plan |-> plan[a]]
  BY <1>1
<1> HIDE DEF plan, row, D
<1>8. /\ InRole(plan, "winner") = {m}
      /\ InRole(plan, "pool") = PaidAuthors(E)
      /\ InRole(plan, "overflow") = E \ PaidAuthors(E)
      /\ \A a \in D : plan[a].st = "frozen"
  <2> HIDE DEF E, n, each, wins
  <2>1. \A a \in D : \/ a = m /\ plan[a].role = "winner"
                     \/ a \in PaidAuthors(E) /\ a # m /\ plan[a].role = "pool"
                     \/ a \in E \ PaidAuthors(E) /\ a # m /\ plan[a].role = "overflow"
                     \/ a \notin {m} \cup E /\ plan[a].role = "excluded_poster"
    BY <1>2, <1>5 DEF FrozenRow
  <2>2. \A a \in D : plan[a].st = "frozen"
    BY <1>2, <1>5 DEF FrozenRow
  <2> QED
    BY <1>2, <1>6, <2>1, <2>2 DEF InRole
<1>9. InRole(plan, "pool") \cup InRole(plan, "overflow") = E
  BY <1>2, <1>8
<1>10. plan[m].share = wins /\ \A a \in InRole(plan, "pool") : plan[a].share = each
  BY <1>5, <1>8 DEF FrozenRow
<1>11. Cardinality(PaidAuthors(E)) = PaidCount(n, PoolMaxPaid)
  <2> DEFINE f == [a \in E |-> Position(a)]
  <2>1. \A a \in E : f[a] \in Nat /\ pfPrs[f[a]] = a
    <3>1. \A a \in E : \E i \in DOMAIN pfPrs : pfPrs[i] = a
      BY <1>3 DEF Opened, Range
    <3>2. DOMAIN pfPrs = 1 .. Len(pfPrs) /\ Len(pfPrs) \in Nat
      BY DEF PoolInv, RestOfPool
    <3> QED
      BY <3>1, <3>2 DEF Position
  <2>2. \A a, b \in E : f[a] = f[b] => a = b
    BY <2>1
  <2>3. PaidAuthors(E) = FirstAmong(f, E, PoolMaxPaid)
    <3>1. \A a \in E : {b \in E : Position(b) < Position(a)} = {b \in E : f[b] < f[a]}
      OBVIOUS
    <3> QED
      BY <3>1 DEF PaidAuthors, FirstAmong
  <2> HIDE DEF f, E
  <2> QED
    BY <1>3, <2>1, <2>2, <2>3, PoolAssumption, CapCount
<1> HIDE DEF E, each, wins
<1>12. GoodPlan(plan)
  BY <1>2, <1>6, <1>8, <1>9, <1>10, <1>11 DEF GoodPlan, each, wins
<1> QED
  BY <1>7, <1>12 DEF plan

\* A delivery that is not freezing when its step is done, and leaves the frozen
\* rows alone.
LEMMA OneSetLeaves ==
    ASSUME PoolInv, OneSet, NEW r \in PoolRuns, NEW q,
           pfRun' = [pfRun EXCEPT ![r] = q], q.pc \notin {"snapshot", "rows", "upsert"},
           pfDisturbed => pfDisturbed',
           Freezing(r) /\ BountyIsFrozen => pfDisturbed',
           ~ pfDisturbed' => /\ FrozenIn(pfRow') = FrozenIn(pfRow)
                             /\ \A a \in FrozenIn(pfRow) : pfRow'[a] = pfRow[a]
    PROVE  OneSet'
<1> SUFFICES ASSUME ~ pfDisturbed'
             PROVE  OneSet'
  BY DEF OneSet
<1>1. /\ ~ pfDisturbed
      /\ FrozenIn(pfRow') = FrozenIn(pfRow)
      /\ \A a \in FrozenIn(pfRow) : pfRow'[a] = pfRow[a]
      /\ ~ (Freezing(r) /\ BountyIsFrozen)
  OBVIOUS
<1>2. \A rows : PlanOf(pfRow', rows) = PlanOf(pfRow, rows)
  BY <1>1 DEF PlanOf
<1>3. BountyIsFrozen' <=> BountyIsFrozen
  BY <1>1 DEF BountyIsFrozen, FrozenIn
<1>4. /\ \A s \in PoolRuns : s # r => pfRun'[s] = pfRun[s]
      /\ pfRun'[r] = q
  BY DEF PoolInv
<1>5. \A s \in PoolRuns : Freezing(s)' => s # r /\ Freezing(s)
  BY <1>4 DEF Freezing
<1>6. \A s, t \in PoolRuns : s # t => ~ (Freezing(s)' /\ Freezing(t)')
  BY <1>1, <1>5 DEF OneSet
<1>7. ASSUME NEW s \in PoolRuns
      PROVE  /\ pfRun'[s].pc = "snapshot" => ~ BountyIsFrozen'
             /\ pfRun'[s].pc \in {"rows", "upsert"} =>
                  /\ DOMAIN pfRun'[s].rows \cap FrozenIn(pfRow') = {}
                  /\ GoodPlan(PlanOf(pfRow', pfRun'[s].rows))
  BY <1>1, <1>2, <1>3, <1>4 DEF OneSet
<1>8. (\A s \in PoolRuns : ~ Freezing(s)') /\ BountyIsFrozen' => GoodPlan(PlanOf(pfRow', << >>))
  <2> SUFFICES ASSUME \A s \in PoolRuns : ~ Freezing(s)', BountyIsFrozen
               PROVE  GoodPlan(PlanOf(pfRow, << >>))
    BY <1>2, <1>3
  <2>1. \A s \in PoolRuns : ~ Freezing(s)
    BY <1>1, <1>4 DEF Freezing
  <2> QED
    BY <1>1, <2>1 DEF OneSet
<1> QED
  BY <1>6, <1>7, <1>8 DEF OneSet

LEMMA OneSetStep ==
    ASSUME PoolInv, OneSet, NEW r \in PoolRuns, PoolStep(r)
    PROVE  OneSet'
<1> DEFINE q == pfRun[r]
<1>1. /\ q \in PoolRunRecord /\ RunKnows(q) /\ pfRun \in [PoolRuns -> PoolRunRecord]
      /\ pfRow \in [Authors -> ParticipantRow] /\ pfDisturbed \in BOOLEAN
      /\ Opened \in SUBSET Authors
  BY DEF PoolInv, RestOfPool
<1>2. q.rows \in RowSets
  BY <1>1 DEF PoolRunRecord
<1>3. PoolRunIdle.pc = "idle"
  BY DEF PoolRunIdle
<1>4. CASE \E m \in Mergers : FreezeBegins(r, m)
  <2>1. PICK m \in Mergers : FreezeBegins(r, m)
    BY <1>4
  <2> DEFINE new == [PoolRunIdle EXCEPT !.pc = "check", !.merger = m]
  <2>2. new.pc = "check"
    BY DEF PoolRunIdle
  <2>3. /\ pfRun' = [pfRun EXCEPT ![r] = new] /\ UNCHANGED <<pfRow, pfDisturbed>>
        /\ ~ Freezing(r)
    BY <2>1 DEF FreezeBegins, RunsOnly, Freezing
  <2> HIDE DEF new
  <2> QED
    BY <2>2, <2>3, OneSetLeaves
<1>5. CASE FreezeChecks(r)
  <2>0. /\ UNCHANGED pfRow /\ ~ Freezing(r) /\ (pfDisturbed => pfDisturbed')
        /\ ~ BountyIsFrozen /\ (\E s \in PoolRuns \ {r} : Freezing(s)) => pfDisturbed'
    BY <1>5 DEF FreezeChecks, Freezing, AlreadyFrozen
  <2>1. CASE BountyIsFrozen
    BY <1>3, <1>5, <2>0, <2>1, OneSetLeaves DEF FreezeChecks, AlreadyFrozen, PoolRunEnds
  <2>2. CASE ~ BountyIsFrozen
    <3> SUFFICES ASSUME ~ pfDisturbed'
                 PROVE  OneSet'
      BY DEF OneSet
    <3>1. \A s \in PoolRuns : ~ Freezing(s)
      BY <2>0, <2>2
    <3>2. pfRun' = [pfRun EXCEPT ![r].pc = "snapshot"]
      BY <1>5, <2>2 DEF FreezeChecks, AlreadyFrozen, PoolRunGoto
    <3>3. pfRun'[r].pc = "snapshot" /\ \A s \in PoolRuns : s # r => pfRun'[s] = pfRun[s]
      BY <1>1, <3>2 DEF PoolRunRecord
    <3>4. ~ BountyIsFrozen'
      BY <2>0, <2>2 DEF BountyIsFrozen
    <3>5. \A s \in PoolRuns : Freezing(s)' <=> s = r
      BY <3>1, <3>3 DEF Freezing
    <3>6. \A s \in PoolRuns : pfRun'[s].pc \notin {"rows", "upsert"}
      BY <3>1, <3>3 DEF Freezing
    <3> QED
      BY <3>4, <3>5, <3>6 DEF OneSet
  <2> QED
    BY <2>1, <2>2
<1>6. CASE \E found \in SUBSET Authors : FreezeSnapshot(r, found)
  <2>1. PICK found : FreezeSnapshot(r, found)
    BY <1>6
  <2> DEFINE rows == FrozenRows(q.merger, found)
  <2>2. /\ q.pc = "snapshot" /\ UNCHANGED <<pfRow, pfDisturbed>>
        /\ pfRun' = [pfRun EXCEPT ![r].pc = "rows", ![r].rows = rows]
    BY <2>1 DEF FreezeSnapshot, RunsOnly
  <2>3. GoodPlan(rows) /\ rows = [a \in DOMAIN rows |-> rows[a]]
    BY <2>1, SnapshotGood DEF FreezeSnapshot
  <2> HIDE DEF rows
  <2> SUFFICES ASSUME ~ pfDisturbed
               PROVE  OneSet'
    BY <2>2 DEF OneSet
  <2>4. /\ pfRun'[r].pc = "rows" /\ pfRun'[r].rows = rows
        /\ \A s \in PoolRuns : s # r => pfRun'[s] = pfRun[s]
    BY <1>1, <2>2 DEF PoolRunRecord
  <2>5. /\ Freezing(r) /\ ~ BountyIsFrozen
        /\ \A s \in PoolRuns : s # r => ~ Freezing(s)
    BY <2>2 DEF OneSet, Freezing
  <2>6. FrozenIn(pfRow) = {} /\ PlanOf(pfRow, rows) = rows
    BY <2>3, <2>5 DEF BountyIsFrozen, FrozenIn, PlanOf
  <2>7. \A s \in PoolRuns : Freezing(s)' <=> s = r
    BY <2>4, <2>5 DEF Freezing
  <2>8. \A s \in PoolRuns : s # r => pfRun'[s].pc \notin {"snapshot", "rows", "upsert"}
    BY <2>4, <2>5 DEF Freezing
  <2> QED
    BY <2>2, <2>3, <2>4, <2>6, <2>7, <2>8 DEF OneSet
<1>7. CASE SnapshotUnavailable(r)
  <2>1. Freezing(r) /\ BountyIsFrozen => pfDisturbed
    BY <1>7 DEF OneSet, SnapshotUnavailable
  <2> QED
    BY <1>3, <1>7, <2>1, OneSetLeaves DEF SnapshotUnavailable, PoolRunEnds, RunsOnly
<1>8. CASE \E a \in Authors : UpsertReads(r, a)
  <2> SUFFICES ASSUME ~ pfDisturbed
               PROVE  OneSet'
    BY <1>8 DEF OneSet, UpsertReads, RunsOnly
  <2>1. PICK a \in Authors : UpsertReads(r, a)
    BY <1>8
  <2>2. a \notin FrozenIn(pfRow) /\ q.pc = "rows" /\ UNCHANGED <<pfRow, pfDisturbed>>
    BY <2>1 DEF OneSet, UpsertReads, RunsOnly
  <2>3. pfRun' = [pfRun EXCEPT ![r].pc = "upsert", ![r].author = a, ![r].read = pfRow[a].st]
    BY <2>1, <2>2 DEF UpsertReads, FrozenIn
  <2>4. /\ pfRun'[r].pc = "upsert" /\ pfRun'[r].rows = q.rows
        /\ \A s \in PoolRuns : s # r => pfRun'[s] = pfRun[s]
    BY <1>1, <2>3 DEF PoolRunRecord
  <2>5. \A s \in PoolRuns : Freezing(s)' <=> Freezing(s)
    BY <2>2, <2>4 DEF Freezing
  <2>6. BountyIsFrozen' <=> BountyIsFrozen
    BY <2>2 DEF BountyIsFrozen
  <2>7. ASSUME NEW s \in PoolRuns
        PROVE  /\ pfRun'[s].pc = "snapshot" => ~ BountyIsFrozen
               /\ pfRun'[s].pc \in {"rows", "upsert"} =>
                    /\ DOMAIN pfRun'[s].rows \cap FrozenIn(pfRow) = {}
                    /\ GoodPlan(PlanOf(pfRow, pfRun'[s].rows))
    <3>1. CASE s = r
      BY <2>2, <2>4, <3>1 DEF OneSet
    <3>2. CASE s # r
      BY <2>4, <3>2 DEF OneSet
    <3> QED
      BY <3>1, <3>2
  <2>8. \E s \in PoolRuns : Freezing(s)'
    BY <2>4 DEF Freezing
  <2>9. \A s, t \in PoolRuns : s # t => ~ (Freezing(s)' /\ Freezing(t)')
    BY <2>5 DEF OneSet
  <2> QED
    BY <2>2, <2>6, <2>7, <2>8, <2>9 DEF OneSet
<1>9. CASE UpsertWrites(r)
  <2> SUFFICES ASSUME ~ pfDisturbed'
               PROVE  OneSet'
    BY DEF OneSet
  <2> DEFINE a == q.author
             rows == q.rows
             rest == DOMAIN rows \ {a}
             less == [b \in rest |-> rows[b]]
  <2>1. a \in Authors /\ a \in DOMAIN rows /\ q.pc = "upsert"
    BY <1>1, <1>9 DEF UpsertWrites, RunKnows
  <2>2. ~ pfDisturbed /\ pfRow'[a] = rows[a] /\ pfRow' \in {pfRow, [pfRow EXCEPT ![a] = rows[a]]}
    BY <1>9 DEF UpsertWrites, Upserted
  <2>3. /\ DOMAIN rows \cap FrozenIn(pfRow) = {} /\ GoodPlan(PlanOf(pfRow, rows))
        /\ \A s \in PoolRuns : s # r => ~ Freezing(s)
    BY <2>1, <2>2 DEF OneSet, Freezing
  <2>4. rows[a].st = "frozen"
    BY <2>1, <2>3 DEF GoodPlan, PlanOf
  <2>5. \A b \in Authors : pfRow'[b] = IF b = a THEN rows[a] ELSE pfRow[b]
    BY <1>1, <2>1, <2>2
  <2>6. FrozenIn(pfRow') = FrozenIn(pfRow) \cup {a}
    BY <2>1, <2>4, <2>5 DEF FrozenIn
  <2>7. \/ pfRun' = [pfRun EXCEPT ![r] = PoolRunIdle] /\ rest = {}
        \/ pfRun' = [pfRun EXCEPT ![r] = [q EXCEPT !.pc = "rows", !.author = NoAuthor,
                                             !.read = "none", !.rows = less]]
    BY <1>1, <1>9 DEF UpsertWrites, RowDone
  <2>8. \A t : t = less \/ (rest = {} /\ t = << >>) => PlanOf(pfRow', t) = PlanOf(pfRow, rows)
    <3>1. FrozenIn(pfRow) \subseteq Authors /\ a \notin FrozenIn(pfRow)
      BY <2>1, <2>3 DEF FrozenIn
    <3>2. FrozenIn(pfRow') \cup rest = FrozenIn(pfRow) \cup DOMAIN rows
      BY <2>1, <2>6
    <3>3. \A b \in FrozenIn(pfRow') \ rest : pfRow'[b] = IF b \in DOMAIN rows THEN rows[b] ELSE pfRow[b]
      BY <2>1, <2>3, <2>5, <2>6, <3>1
    <3>4. \A b \in rest : less[b] = rows[b] /\ b \in DOMAIN rows
      OBVIOUS
    <3>5. DOMAIN less = rest
      OBVIOUS
    <3> HIDE DEF a, rows, less
    <3>6. PlanOf(pfRow', less) = PlanOf(pfRow, rows)
      <4> HIDE DEF rest
      <4>1. \A b \in FrozenIn(pfRow') \cup rest :
              (IF b \in rest THEN less[b] ELSE pfRow'[b])
                = (IF b \in DOMAIN rows THEN rows[b] ELSE pfRow[b])
        BY <3>3, <3>4
      <4> QED
        BY <3>2, <3>5, <4>1 DEF PlanOf
    <3>7. rest = {} => PlanOf(pfRow', << >>) = PlanOf(pfRow, rows)
      <4> SUFFICES ASSUME rest = {}
                   PROVE  PlanOf(pfRow', << >>) = PlanOf(pfRow, rows)
        OBVIOUS
      <4> HIDE DEF rest
      <4>1. DOMAIN << >> = {}
        OBVIOUS
      <4> QED
        BY <3>2, <3>3, <4>1 DEF PlanOf
    <3> QED
      BY <3>6, <3>7
  <2>9. CASE pfRun' = [pfRun EXCEPT ![r] = PoolRunIdle] /\ rest = {}
    <3>1. \A s \in PoolRuns : ~ Freezing(s)'
      BY <1>1, <1>3, <2>3, <2>9 DEF Freezing
    <3> HIDE DEF rest
    <3>2. GoodPlan(PlanOf(pfRow', << >>))
      BY <2>3, <2>8, <2>9
    <3>3. \A s \in PoolRuns : pfRun'[s].pc \notin {"snapshot", "rows", "upsert"}
      BY <3>1 DEF Freezing
    <3> QED
      BY <3>1, <3>2, <3>3 DEF OneSet
  <2>10. CASE pfRun' = [pfRun EXCEPT ![r] = [q EXCEPT !.pc = "rows", !.author = NoAuthor,
                                                !.read = "none", !.rows = less]]
    <3> HIDE DEF less
    <3>1. /\ pfRun'[r].pc = "rows" /\ pfRun'[r].rows = less
          /\ \A s \in PoolRuns : s # r => pfRun'[s] = pfRun[s]
      BY <1>1, <2>10 DEF PoolRunRecord
    <3>2. \A s \in PoolRuns : Freezing(s)' <=> s = r
      BY <2>3, <3>1 DEF Freezing
    <3>3. DOMAIN less \cap FrozenIn(pfRow') = {}
      BY <2>3, <2>6 DEF less
    <3>4. GoodPlan(PlanOf(pfRow', less))
      BY <2>3, <2>8
    <3>5. \A s \in PoolRuns : s # r => pfRun'[s].pc \notin {"snapshot", "rows", "upsert"}
      BY <3>1, <2>3 DEF Freezing
    <3> QED
      BY <3>1, <3>2, <3>3, <3>4, <3>5 DEF OneSet
  <2> QED
    BY <2>7, <2>9, <2>10
<1>10. CASE PoolRunDies(r)
  BY <1>3, <1>10, OneSetLeaves DEF PoolRunDies, PoolRunEnds
<1>11. CASE \E a \in Authors : LiveBegins(r, a)
  <2>1. PICK a \in Authors : LiveBegins(r, a)
    BY <1>11
  <2> DEFINE new == [PoolRunIdle EXCEPT !.pc = "live_check", !.author = a]
  <2>2. new.pc = "live_check"
    BY DEF PoolRunIdle
  <2>3. /\ pfRun' = [pfRun EXCEPT ![r] = new] /\ UNCHANGED <<pfRow, pfDisturbed>>
        /\ ~ Freezing(r)
    BY <2>1 DEF LiveBegins, RunsOnly, Freezing
  <2> HIDE DEF new
  <2> QED
    BY <2>2, <2>3, OneSetLeaves
<1>12. CASE LiveChecks(r) \/ LiveReads(r)
  <2> DEFINE new1 == [q EXCEPT !.pc = "live_read"]
             new2 == [q EXCEPT !.pc = "live_write", !.read = pfRow[q.author].st]
  <2>1. new1.pc = "live_read" /\ new2.pc = "live_write"
    BY <1>1 DEF PoolRunRecord
  <2>2. UNCHANGED <<pfRow, pfDisturbed>> /\ ~ Freezing(r)
    BY <1>12 DEF LiveChecks, LiveReads, RunsOnly, Freezing
  <2>3. pfRun' \in {[pfRun EXCEPT ![r] = PoolRunIdle], [pfRun EXCEPT ![r] = new1],
                    [pfRun EXCEPT ![r] = new2]}
    BY <1>1, <1>12 DEF LiveChecks, LiveReads, PoolRunEnds, PoolRunGoto
  <2> HIDE DEF new1, new2
  <2> QED
    BY <1>3, <2>1, <2>2, <2>3, OneSetLeaves
<1>13. CASE LiveWrites(r)
  <2> DEFINE a == q.author
  <2>1. /\ a \in Authors /\ ~ Freezing(r) /\ pfRow' \in {pfRow, [pfRow EXCEPT ![a] = Candidate]}
        /\ pfDisturbed' = (pfDisturbed \/ (pfRow[a].st = "frozen" /\ pfRow' # pfRow))
        /\ pfRun' = [pfRun EXCEPT ![r] = PoolRunIdle]
    BY <1>1, <1>13 DEF LiveWrites, RunKnows, Freezing, Upserted, PoolRunEnds
  <2>2. ~ pfDisturbed' => /\ FrozenIn(pfRow') = FrozenIn(pfRow)
                          /\ \A b \in FrozenIn(pfRow) : pfRow'[b] = pfRow[b]
    <3>1. Candidate.st # "frozen"
      BY DEF Candidate
    <3> HIDE DEF a
    <3> QED
      BY <1>1, <2>1, <3>1 DEF FrozenIn
  <2> QED
    BY <1>3, <2>1, <2>2, OneSetLeaves
<1> QED
  BY <1>4, <1>5, <1>6, <1>7, <1>8, <1>9, <1>10, <1>11, <1>12, <1>13 DEF PoolStep

LEMMA OneSetNext == PoolInv /\ OneSet /\ [PoolNext]_pfVars => OneSet'
<1> SUFFICES ASSUME PoolInv, OneSet, [PoolNext]_pfVars
             PROVE  OneSet'
  OBVIOUS
<1>1. CASE \E r \in PoolRuns : PoolStep(r)
  BY <1>1, OneSetStep
<1>2. CASE UNCHANGED <<pfRow, pfRun, pfDisturbed>>
  BY <1>2 DEF OneSet, Freezing, BountyIsFrozen
<1> QED
  BY <1>1, <1>2 DEF PoolNext, OpenPr, MergePr, pfVars

LEMMA OneSetInit == PoolInit => OneSet
  BY DEF PoolInit, OneSet, Freezing, PoolRunIdle, BountyIsFrozen, NoParticipant

\* A table whose frozen rows are one good plan conserves the face.
LEMMA PlanConserves ==
    ASSUME PoolInv, GoodPlan(PlanOf(pfRow, << >>))
    PROVE  LET n == Cardinality(FrozenAs("pool") \cup FrozenAs("overflow"))
           IN  \E w \in Authors :
                 /\ FrozenAs("winner") = {w}
                 /\ pfRow[w].share = WinnerAtomic(PoolFace, n, PoolFeeBps, PoolBps, PoolMaxPaid)
                 /\ FeeAtomic(PoolFace, PoolFeeBps) + pfRow[w].share + PoolShares = PoolFace
<1> DEFINE plan == PlanOf(pfRow, << >>)
           pool == FrozenAs("pool")
           n == Cardinality(pool \cup FrozenAs("overflow"))
           each == ShareAtomic(PoolFace, n, PoolFeeBps, PoolBps, PoolMaxPaid)
           share == [a \in Authors |-> pfRow[a].share]
<1>1. /\ DOMAIN plan = FrozenIn(pfRow) /\ \A a \in FrozenIn(pfRow) : plan[a] = pfRow[a]
      /\ pool \subseteq Authors /\ pfRow \in [Authors -> ParticipantRow]
  <2>1. DOMAIN << >> = {}
    OBVIOUS
  <2> QED
    BY <2>1 DEF PlanOf, PoolInv, RestOfPool, FrozenAs
<1> HIDE DEF plan
<1>2. \A role : InRole(plan, role) = FrozenAs(role)
  BY <1>1 DEF InRole, FrozenAs, FrozenIn
<1>3. n \in Nat /\ IsFiniteSet(pool)
  <2>1. pool \cup FrozenAs("overflow") \subseteq Authors
    BY DEF FrozenAs
  <2> QED
    BY <1>1, <2>1, PoolAssumption, FS_Subset, FS_CardinalityType
<1>4. PICK w \in Authors :
        /\ FrozenAs("winner") = {w}
        /\ plan[w].share = WinnerAtomic(PoolFace, n, PoolFeeBps, PoolBps, PoolMaxPaid)
  BY <1>2 DEF GoodPlan, plan
<1>5. /\ \A a \in pool : plan[a].share = each
      /\ Cardinality(pool) = PaidCount(n, PoolMaxPaid)
  BY <1>2 DEF GoodPlan, plan
<1>6. plan[w] = pfRow[w] /\ \A a \in pool : share[a] = each
  BY <1>1, <1>4, <1>5 DEF FrozenAs, FrozenIn
<1>7. each \in Nat /\ PoolMaxPaid \in Nat /\ PoolFace \in Nat
  BY <1>3, PoolAssumption, ShareBounds
<1>8. PoolShares = PaidCount(n, PoolMaxPaid) * each
  <2>1. PoolShares = SumOf(share, pool)
    BY DEF PoolShares, SumOf
  <2> HIDE DEF share, pool, each
  <2> QED
    BY <1>3, <1>5, <1>6, <1>7, <2>1, SumConstant
<1>9. FeeAtomic(PoolFace, PoolFeeBps)
        + WinnerAtomic(PoolFace, n, PoolFeeBps, PoolBps, PoolMaxPaid)
        + each * PaidCount(n, PoolMaxPaid) = PoolFace
  BY <1>3, <1>7, PoolAssumption, SplitConserves
<1>10. PaidCount(n, PoolMaxPaid) * each = each * PaidCount(n, PoolMaxPaid)
  <2>1. PaidCount(n, PoolMaxPaid) \in Nat
    BY <1>3, <1>7, PaidCountBounds
  <2> HIDE DEF n, each
  <2> QED
    BY <1>7, <2>1
<1> HIDE DEF n, each
<1>11. /\ pfRow[w].share = WinnerAtomic(PoolFace, n, PoolFeeBps, PoolBps, PoolMaxPaid)
       /\ FeeAtomic(PoolFace, PoolFeeBps) + pfRow[w].share + PoolShares = PoolFace
  BY <1>4, <1>6, <1>8, <1>9, <1>10
<1> QED
  BY <1>4, <1>11 DEF n
-----------------------------------------------------------------------------
(* Theorems                                                                 *)

\* The rows of a pool keep their types, and every share in them is a whole
\* number of atomic units that is not negative.
THEOREM PoolTypeCorrect == PoolSpec => []PoolTypeOK
  BY PoolInitInv, PoolNextInv, PoolTypeFollows, PTL DEF PoolSpec

\* A frozen row is changed only by a delivery that had read it as a candidate
\* before it was frozen (upsertCandidate, upsertFrozenParticipant).
THEOREM FrozenRowsKept == PoolSpec => FrozenRowsStay
<1>1. ASSUME PoolInv, [PoolNext]_pfVars, NEW a \in Authors,
             pfRow[a].st = "frozen", pfRow'[a] # pfRow[a]
      PROVE  \E r \in PoolRuns : /\ pfRun[r].pc \in {"upsert", "live_write"}
                                 /\ pfRun[r].author = a
                                 /\ pfRun[r].read = "candidate"
  <2>1. PICK r \in PoolRuns : UpsertWrites(r) \/ LiveWrites(r)
    BY <1>1 DEF PoolNext, PoolStep, FreezeBegins, FreezeSnapshot, UpsertReads, LiveBegins,
         FreezeChecks, SnapshotUnavailable, LiveChecks, LiveReads, PoolRunDies, OpenPr,
         MergePr, RunsOnly, pfVars
  <2>2. PICK row : pfRow' = Upserted(r, row)
    BY <2>1 DEF UpsertWrites, LiveWrites
  <2>3. pfRow \in [Authors -> ParticipantRow] /\ pfRun[r] \in PoolRunRecord
    BY <1>1 DEF PoolInv, RestOfPool
  <2>4. pfRun[r].author = a
    BY <1>1, <2>2, <2>3 DEF Upserted
  <2>5. pfRun[r].read # "none"
    BY <1>1, <2>2, <2>4 DEF Upserted
  <2>6. pfRun[r].pc \in {"upsert", "live_write"} /\ pfRun[r].read # "frozen"
    BY <1>1, <2>1 DEF PoolInv, RunKnows, UpsertWrites, LiveWrites
  <2> QED
    BY <2>3, <2>4, <2>5, <2>6 DEF PoolRunRecord
<1>2. PoolInv /\ [PoolNext]_pfVars =>
        [\A a \in Authors : pfRow[a].st = "frozen" /\ pfRow'[a] # pfRow[a] =>
          \E r \in PoolRuns : /\ pfRun[r].pc \in {"upsert", "live_write"}
                              /\ pfRun[r].author = a
                              /\ pfRun[r].read = "candidate"]_pfVars
  BY <1>1
<1> QED
  BY <1>2, PoolInitInv, PoolNextInv, PTL DEF PoolSpec, FrozenRowsStay

\* frozenSetConservesFace holds of the table: a pool frozen without being
\* disturbed has one winner, and fee, winner and shares make up the face, for
\* any authors, rates and cap (frozenParticipantsFromEligibility, capPaidPool).
THEOREM FrozenConserves == PoolSpec => []FrozenSetConserves
<1>1. PoolInv /\ OneSet => FrozenSetConserves
  BY PlanConserves DEF OneSet, FrozenSetConserves
<1> QED
  BY <1>1, PoolInitInv, OneSetInit, PoolNextInv, OneSetNext, PTL DEF PoolSpec

-----------------------------------------------------------------------------
(* The lists of numbers that PullRead keeps *)

\* An enumeration of a finite set without repetition.
LEMMA Enumeration ==
    ASSUME NEW S, IsFiniteSet(S), NEW s \in [1..Cardinality(S) -> S], IsInjective(s)
    PROVE  /\ s \in Seq(S) /\ Len(s) = Cardinality(S) /\ DOMAIN s = 1..Cardinality(S)
           /\ ToSet(s) = S
<1> DEFINE n == Cardinality(S)
<1>1. n \in Nat
  BY FS_CardinalityType
<1>2. s \in Seq(S) /\ Len(s) = n /\ DOMAIN s = 1..n
  BY <1>1
<1>3. IsFiniteSet(1..n) /\ Cardinality(1..n) = n
  <2>1. IsFiniteSet(1..n) /\ Cardinality(1..n) = IF 1 > n THEN 0 ELSE n - 1 + 1
    BY <1>1, FS_Interval
  <2> QED
    BY <1>1, <2>1
<1>4. s \in Injection(1..n, S)
  BY DEF Injection
<1>5. s \in Surjection(1..n, S)
  BY <1>3, <1>4, FS_Injection
<1> QED
  BY <1>2, <1>5 DEF Surjection, ToSet

LEMMA ListSize ==
    ASSUME NEW T, NEW s \in Seq(T), IsInjective(s)
    PROVE  IsFiniteSet(ToSet(s)) /\ Cardinality(ToSet(s)) = Len(s) /\ Len(s) \in Nat
<1> DEFINE n == Len(s)
           R == ToSet(s)
<1>1. n \in Nat /\ DOMAIN s = 1..n /\ s \in [1..n -> T]
  BY LenProperties
<1>2. s \in [1..n -> R] /\ \A x \in R : \E i \in 1..n : s[i] = x
  BY <1>1 DEF ToSet
<1>3. s \in Surjection(1..n, R) /\ s \in Injection(1..n, R)
  BY <1>2 DEF Surjection, Injection
<1>4. IsFiniteSet(1..n) /\ Cardinality(1..n) = n
  <2>1. IsFiniteSet(1..n) /\ Cardinality(1..n) = IF 1 > n THEN 0 ELSE n - 1 + 1
    BY <1>1, FS_Interval
  <2> QED
    BY <1>1, <2>1
<1> HIDE DEF n, R
<1>5. IsFiniteSet(R) /\ Cardinality(R) = n
  BY <1>3, <1>4, FS_Surjection
<1> QED
  BY <1>1, <1>5 DEF n, R

\* A finite set of numbers can be put in order: the place of a number is how
\* many of the set do not exceed it.
LEMMA OrderExists ==
    ASSUME NEW S \in SUBSET Nat, IsFiniteSet(S)
    PROVE  \E s \in SetToSeqs(S) : \A i, j \in DOMAIN s : i < j => s[i] < s[j]
<1> DEFINE n == Cardinality(S)
           upTo(p) == {q \in S : q <= p}
           rank == [p \in S |-> Cardinality(upTo(p))]
<1>1. n \in Nat
  BY FS_CardinalityType
<1>2. \A x, y \in S : x \in Nat /\ y \in Nat /\ (x < y \/ x = y \/ y < x)
  OBVIOUS
<1>3. ASSUME NEW p \in S
      PROVE  /\ IsFiniteSet(upTo(p)) /\ Cardinality(upTo(p)) \in Nat
             /\ Cardinality(upTo(p)) <= n /\ Cardinality(upTo(p)) # 0
  <2>1. upTo(p) \in SUBSET S
    OBVIOUS
  <2>2. p \in upTo(p)
    OBVIOUS
  <2> HIDE DEF upTo
  <2>3. IsFiniteSet(upTo(p)) /\ Cardinality(upTo(p)) <= n
    BY <2>1, FS_Subset
  <2> QED
    BY <2>2, <2>3, FS_EmptySet, FS_CardinalityType
<1>4. rank \in [S -> 1..n]
  <2> HIDE DEF upTo
  <2>1. \A p \in S : Cardinality(upTo(p)) \in 1..n
    BY <1>1, <1>3
  <2> QED
    BY <2>1
<1>5. ASSUME NEW p \in S, NEW q \in S, p < q
      PROVE  rank[p] < rank[q]
  <2>1. upTo(p) \in SUBSET upTo(q) /\ q \in upTo(q) /\ q \notin upTo(p)
    <3>1. \A x \in S : x <= p => x <= q
      BY <1>5, <1>2
    <3>2. q <= q /\ ~ q <= p
      BY <1>5, <1>2
    <3> QED
      BY <3>1, <3>2
  <2>2. rank[p] = Cardinality(upTo(p)) /\ rank[q] = Cardinality(upTo(q))
    OBVIOUS
  <2> HIDE DEF upTo, rank
  <2>3. /\ Cardinality(upTo(p)) <= Cardinality(upTo(q))
        /\ Cardinality(upTo(p)) # Cardinality(upTo(q))
    BY <1>3, <2>1, FS_Subset
  <2> QED
    BY <1>3, <2>2, <2>3
<1>6. \A p, q \in S : rank[p] = rank[q] => p = q
  <2> HIDE DEF rank
  <2>1. \A p, q \in S : p = q \/ p < q \/ q < p
    OBVIOUS
  <2>2. \A p \in S : rank[p] \in Nat
    BY <1>1, <1>4
  <2> QED
    BY <1>5, <2>1, <2>2
<1> HIDE DEF rank
<1>7. rank \in Surjection(S, 1..n)
  <2>1. rank \in Injection(S, 1..n)
    BY <1>4, <1>6 DEF Injection, IsInjective
  <2>2. IsFiniteSet(1..n) /\ Cardinality(1..n) = n
    <3>1. IsFiniteSet(1..n) /\ Cardinality(1..n) = IF 1 > n THEN 0 ELSE n - 1 + 1
      BY <1>1, FS_Interval
    <3> QED
      BY <1>1, <3>1
  <2> QED
    BY <2>1, <2>2, FS_Injection
<1> DEFINE s == [k \in 1..n |-> CHOOSE p \in S : rank[p] = k]
<1>8. ASSUME NEW k \in 1..n
      PROVE  s[k] \in S /\ rank[s[k]] = k
  BY <1>7 DEF Surjection
<1>9. s \in [1..n -> S] /\ DOMAIN s = 1..n
  BY <1>8
<1> HIDE DEF s
<1>10. ASSUME NEW i \in 1..n, NEW j \in 1..n, i < j
      PROVE  s[i] < s[j]
  <2>1. s[i] \in S /\ s[j] \in S /\ rank[s[i]] = i /\ rank[s[j]] = j
    BY <1>8
  <2>2. s[i] < s[j] \/ s[i] = s[j] \/ s[j] < s[i]
    BY <1>2, <2>1
  <2>3. s[j] < s[i] => j < i
    BY <1>5, <2>1
  <2> QED
    BY <1>1, <1>10, <2>1, <2>2, <2>3
<1>11. \A i, j \in 1..n : i # j => s[i] # s[j]
  BY <1>8
<1>12. s \in SetToSeqs(S)
  BY <1>9, <1>11 DEF SetToSeqs
<1> QED
  BY <1>9, <1>10, <1>12

LEMMA AscendingFacts ==
    ASSUME NEW S \in SUBSET Nat, IsFiniteSet(S)
    PROVE  /\ Ascending(S) \in Seq(S) /\ IsInjective(Ascending(S))
           /\ Len(Ascending(S)) = Cardinality(S) /\ ToSet(Ascending(S)) = S
           /\ DOMAIN Ascending(S) = 1..Cardinality(S)
<1>1. Ascending(S) \in SetToSeqs(S)
  BY OrderExists DEF Ascending
<1>2. Ascending(S) \in [1..Cardinality(S) -> S] /\ IsInjective(Ascending(S))
  BY <1>1 DEF SetToSeqs, IsInjective
<1> QED
  BY <1>2, Enumeration

LEMMA AmongFacts ==
    ASSUME NEW T, NEW s \in Seq(T), NEW P
    PROVE  /\ Among(s, P) \in Seq(T) /\ ToSet(Among(s, P)) = ToSet(s) \cap P
           /\ IsInjective(s) => IsInjective(Among(s, P))
<1> DEFINE I == {i \in DOMAIN s : s[i] \in P}
           at == Ascending(I)
           n == Cardinality(I)
<1>1. Len(s) \in Nat /\ DOMAIN s = 1..Len(s) /\ s \in [1..Len(s) -> T]
  BY LenProperties
<1>2. I \in SUBSET Nat /\ IsFiniteSet(I)
  <2>1. IsFiniteSet(1..Len(s)) /\ I \in SUBSET (1..Len(s)) /\ 1..Len(s) \subseteq Nat
    BY <1>1, FS_Interval
  <2> QED
    BY <2>1, FS_Subset
<1>3. Among(s, P) = [k \in DOMAIN at |-> s[at[k]]]
  BY DEF Among
<1>4. \A x : x \in ToSet(s) \cap P <=> \E i \in I : s[i] = x
  BY DEF ToSet
<1>5. \A i \in I : s[i] \in T /\ i \in DOMAIN s
  BY <1>1
<1> HIDE DEF I
<1>6. /\ at \in Seq(I) /\ IsInjective(at) /\ ToSet(at) = I /\ DOMAIN at = 1..n /\ n \in Nat
  BY <1>2, AscendingFacts, FS_CardinalityType
<1>7. \A k \in 1..n : at[k] \in I
  BY <1>6 DEF ToSet
<1> HIDE DEF at, n
<1>8. Among(s, P) \in [1..n -> T] /\ DOMAIN Among(s, P) = 1..n
  BY <1>3, <1>5, <1>6, <1>7
<1>9. Among(s, P) \in Seq(T)
  BY <1>6, <1>8
<1>10. ToSet(Among(s, P)) = ToSet(s) \cap P
  <2>1. \A x : x \in ToSet(Among(s, P)) <=> \E k \in 1..n : s[at[k]] = x
    BY <1>3, <1>6, <1>8 DEF ToSet
  <2>2. \A i \in I : \E k \in 1..n : at[k] = i
    BY <1>6 DEF ToSet
  <2>3. \A x : x \in ToSet(Among(s, P)) <=> x \in ToSet(s) \cap P
    BY <1>4, <1>7, <2>1, <2>2
  <2> QED
    BY <2>3
<1>11. ASSUME IsInjective(s)
       PROVE  IsInjective(Among(s, P))
  BY <1>3, <1>5, <1>6, <1>7, <1>11 DEF IsInjective
<1> QED
  BY <1>9, <1>10, <1>11

LEMMA JoinFacts ==
    ASSUME NEW T, NEW s \in Seq(T), NEW t \in Seq(T)
    PROVE  /\ s \o t \in Seq(T) /\ ToSet(s \o t) = ToSet(s) \cup ToSet(t)
           /\ IsInjective(s) /\ IsInjective(t) /\ ToSet(s) \cap ToSet(t) = {} =>
                 IsInjective(s \o t)
           /\ s # <<>> => s \o t # <<>>
<1> DEFINE m == Len(s)
           n == Len(t)
           u == s \o t
<1>1. /\ m \in Nat /\ n \in Nat /\ DOMAIN s = 1..m /\ DOMAIN t = 1..n
  BY LenProperties
<1>2. /\ u \in Seq(T) /\ Len(u) = m + n
      /\ \A i \in 1..m + n : u[i] = IF i <= m THEN s[i] ELSE t[i - m]
  BY ConcatProperties
<1>3. DOMAIN u = 1..m + n
  BY <1>2, LenProperties
<1> HIDE DEF u
<1>4. \A i \in 1..m : i \in 1..m + n /\ u[i] = s[i]
  BY <1>1, <1>2
<1>5. \A j \in 1..n : m + j \in 1..m + n /\ u[m + j] = t[j]
  <2> SUFFICES ASSUME NEW j \in 1..n
               PROVE  m + j \in 1..m + n /\ u[m + j] = t[j]
    OBVIOUS
  <2>1. m + j \in 1..m + n /\ ~ m + j <= m /\ (m + j) - m = j
    BY <1>1
  <2> QED
    BY <1>2, <2>1
<1>6. \A i \in 1..m + n : i \in 1..m \/ \E j \in 1..n : i = m + j
  <2> SUFFICES ASSUME NEW i \in 1..m + n, i \notin 1..m
               PROVE  \E j \in 1..n : i = m + j
    OBVIOUS
  <2>1. i - m \in 1..n /\ i = m + (i - m)
    BY <1>1
  <2> QED
    BY <2>1
<1>7. ToSet(u) = ToSet(s) \cup ToSet(t)
  <2>1. \A x : /\ x \in ToSet(u) <=> \E i \in 1..m + n : u[i] = x
               /\ x \in ToSet(s) <=> \E i \in 1..m : s[i] = x
               /\ x \in ToSet(t) <=> \E j \in 1..n : t[j] = x
    BY <1>1, <1>3 DEF ToSet
  <2>2. \A x : x \in ToSet(u) <=> x \in ToSet(s) \cup ToSet(t)
    <3> HIDE DEF m, n
    <3> QED
      BY <1>4, <1>5, <1>6, <2>1
  <2> QED
    BY <2>2
<1>8. ASSUME IsInjective(s), IsInjective(t), ToSet(s) \cap ToSet(t) = {}
      PROVE  IsInjective(u)
  <2>1. \A i \in 1..m, j \in 1..n : s[i] # t[j]
    BY <1>1, <1>8 DEF ToSet
  <2>2. \A i, j \in 1..m : s[i] = s[j] => i = j
    BY <1>1, <1>8 DEF IsInjective
  <2>3. \A i, j \in 1..n : t[i] = t[j] => i = j
    BY <1>1, <1>8 DEF IsInjective
  <2> SUFFICES ASSUME NEW i \in 1..m + n, NEW j \in 1..m + n, u[i] = u[j]
               PROVE  i = j
    BY <1>3 DEF IsInjective
  <2> HIDE DEF m, n
  <2>4. CASE i \in 1..m /\ j \in 1..m
    BY <1>4, <2>2, <2>4
  <2>5. CASE i \in 1..m /\ j \notin 1..m
    BY <1>4, <1>5, <1>6, <2>1, <2>5
  <2>6. CASE i \notin 1..m /\ j \in 1..m
    BY <1>4, <1>5, <1>6, <2>1, <2>6
  <2>7. CASE i \notin 1..m /\ j \notin 1..m
    BY <1>5, <1>6, <2>3, <2>7
  <2> QED
    BY <2>4, <2>5, <2>6, <2>7
<1>9. s # <<>> => u # <<>>
  BY ConcatEqualIffEmpty DEF u
<1> QED
  BY <1>2, <1>7, <1>8, <1>9 DEF u

\* The first k places of a list.
Prefix(s, k) == SubSeq(s, 1, IF Len(s) < k THEN Len(s) ELSE k)

LEMMA CutAt ==
    ASSUME NEW n \in Nat, NEW k \in Nat
    PROVE  \E m \in Nat : /\ m = (IF n < k THEN n ELSE k)
                          /\ \A i : i \in 1..m <=> i \in 1..n /\ i <= k
                          /\ n <= k => m = n
<1>1. CASE n < k
  BY <1>1
<1>2. CASE ~ n < k
  <2>1. k = (IF n < k THEN n ELSE k) /\ (n <= k => k = n)
    BY <1>2
  <2>2. \A i : i \in 1..k <=> i \in 1..n /\ i <= k
    BY <1>2
  <2> QED
    BY <2>1, <2>2
<1> QED
  BY <1>1, <1>2

LEMMA PartFacts ==
    ASSUME NEW T, NEW s \in Seq(T), NEW m \in Nat, 1..m \subseteq 1..Len(s)
    PROVE  /\ SubSeq(s, 1, m) \in Seq(T) /\ DOMAIN SubSeq(s, 1, m) = 1..m
           /\ \A i \in 1..m : SubSeq(s, 1, m)[i] = s[i]
<1>1. Len(s) \in Nat /\ DOMAIN s = 1..Len(s) /\ s \in [1..Len(s) -> T]
  BY LenProperties
<1>2. 1 \in Int /\ m \in Int /\ \A i \in 1..m : s[i] \in T
  BY <1>1
<1> DEFINE t == SubSeq(s, 1, m)
<1>3. /\ t \in Seq(T) /\ Len(t) = IF 1 <= m THEN m - 1 + 1 ELSE 0
      /\ \A i \in 1..m - 1 + 1 : t[i] = s[1 + i - 1]
  BY <1>2, SubSeqProperties
<1> HIDE DEF t
<1>4. m - 1 + 1 = m /\ \A i \in 1..m : 1 + i - 1 = i
  OBVIOUS
<1>5. Len(t) = m
  BY <1>3, <1>4
<1>6. DOMAIN t = 1..m
  BY <1>3, <1>5, LenProperties
<1>7. \A i \in 1..m : t[i] = s[i]
  BY <1>3, <1>4
<1> QED
  BY <1>3, <1>6, <1>7 DEF t

LEMMA FirstFacts ==
    ASSUME NEW T, NEW s \in Seq(T), NEW k \in Nat
    PROVE  /\ Prefix(s, k) \in Seq(T) /\ (IsInjective(s) => IsInjective(Prefix(s, k)))
           /\ \A x : x \in ToSet(Prefix(s, k)) <=> \E i \in DOMAIN s : i <= k /\ s[i] = x
           /\ ToSet(Prefix(s, k)) \subseteq ToSet(s) /\ (Len(s) <= k => Prefix(s, k) = s)
<1>1. Len(s) \in Nat /\ DOMAIN s = 1..Len(s)
  BY LenProperties
<1>2. PICK m \in Nat : /\ m = (IF Len(s) < k THEN Len(s) ELSE k)
                       /\ \A i : i \in 1..m <=> i \in 1..Len(s) /\ i <= k
                       /\ Len(s) <= k => m = Len(s)
  BY <1>1, CutAt
<1> DEFINE t == SubSeq(s, 1, m)
<1>3. Prefix(s, k) = t
  BY <1>2 DEF Prefix
<1>4. t \in Seq(T) /\ DOMAIN t = 1..m /\ \A i \in 1..m : t[i] = s[i]
  BY <1>2, PartFacts
<1>5. Len(s) <= k => t = s
  BY <1>2, SubSeqFull
<1> HIDE DEF t
<1>6. \A x : x \in ToSet(t) <=> \E i \in DOMAIN s : i <= k /\ s[i] = x
  <2>1. \A x : x \in ToSet(t) <=> \E i \in 1..m : s[i] = x
    BY <1>4 DEF ToSet
  <2> QED
    BY <1>1, <1>2, <2>1
<1>7. IsInjective(s) => IsInjective(t)
  <2>1. SUFFICES ASSUME \A a, b \in 1..Len(s) : s[a] = s[b] => a = b
                 PROVE  \A a, b \in 1..m : t[a] = t[b] => a = b
    BY <1>1, <1>4 DEF IsInjective
  <2> QED
    BY <1>2, <1>4, <2>1
<1>8. ToSet(t) \subseteq ToSet(s)
  BY <1>6 DEF ToSet
<1> QED
  BY <1>3, <1>4, <1>5, <1>6, <1>7, <1>8

LEMMA NextOfList ==
    ASSUME NEW T, NEW s \in Seq(T), s # <<>>
    PROVE  /\ Head(s) \in T /\ Tail(s) \in Seq(T)
           /\ ToSet(s) = {Head(s)} \cup ToSet(Tail(s))
<1>1. Len(s) \in Nat \ {0} /\ DOMAIN s = 1..Len(s)
  BY LenProperties, EmptySeq
<1>2. /\ Head(s) \in T /\ Tail(s) \in Seq(T) /\ Len(Tail(s)) = Len(s) - 1
      /\ \A i \in 1..Len(Tail(s)) : Tail(s)[i] = s[i + 1]
  BY HeadTailProperties
<1>3. DOMAIN Tail(s) = 1..Len(s) - 1
  BY <1>2, LenProperties
<1>4. Head(s) = s[1]
  BY <1>1
<1> DEFINE n == Len(s)
           u == Tail(s)
<1>5. n \in Nat \ {0} /\ \A i \in 1..n - 1 : u[i] = s[i + 1] /\ i + 1 \in 1..n
  BY <1>1, <1>2
<1>6. \A i \in 1..n : i = 1 \/ (i - 1 \in 1..n - 1 /\ (i - 1) + 1 = i)
  BY <1>1
<1>7. \A x : /\ x \in ToSet(s) <=> \E i \in 1..n : s[i] = x
             /\ x \in ToSet(u) <=> \E i \in 1..n - 1 : u[i] = x
  BY <1>1, <1>3 DEF ToSet
<1>8. 1 \in 1..n
  BY <1>5
<1> HIDE DEF n, u
<1>9. \A x : x \in ToSet(s) <=> x = s[1] \/ x \in ToSet(u)
  <2>1. ASSUME NEW x \in ToSet(s)
        PROVE  x = s[1] \/ x \in ToSet(u)
    <3>1. PICK i \in 1..n : s[i] = x
      BY <1>7
    <3>2. CASE i # 1
      <4>1. i - 1 \in 1..n - 1 /\ u[i - 1] = s[(i - 1) + 1] /\ (i - 1) + 1 = i
        BY <1>5, <1>6, <3>2
      <4> QED
        BY <1>7, <3>1, <4>1
    <3> QED
      BY <3>1, <3>2
  <2>2. ASSUME NEW x \in ToSet(u)
        PROVE  x \in ToSet(s)
    BY <1>5, <1>7
  <2> QED
    BY <1>7, <1>8, <2>1, <2>2
<1> QED
  BY <1>2, <1>4, <1>9 DEF u

LEMMA OneOfList ==
    ASSUME NEW T, NEW x \in T
    PROVE  /\ <<x>> \in Seq(T) /\ IsInjective(<<x>>) /\ ToSet(<<x>>) = {x}
           /\ <<x>> # <<>> /\ <<>> \in Seq(T) /\ IsInjective(<<>>) /\ ToSet(<<>>) = {}
  BY DEF IsInjective, ToSet

LEMMA EmptyList == <<>> \in Seq(PrPulls) /\ IsInjective(<<>>) /\ ToSet(<<>>) = {}
  BY DEF IsInjective, ToSet

LEMMA PagesFacts ==
    ASSUME PullTypeOK, NEW n \in Nat
    PROVE  /\ FirstPages(n) \in Seq(PrPulls) /\ IsInjective(FirstPages(n))
           /\ \A x : x \in ToSet(FirstPages(n)) <=>
                 \E i \in DOMAIN prTimeline : i <= n * PrPage /\ prTimeline[i] = x
<1>1. n * PrPage \in Nat /\ prTimeline \in Seq(PrPulls) /\ IsInjective(prTimeline)
  BY PullReadAssumption DEF PullTypeOK
<1>2. FirstPages(n) = Prefix(prTimeline, n * PrPage)
  BY Zenon DEF FirstPages, Prefix
<1> DEFINE k == n * PrPage
<1> HIDE DEF k
<1>3. /\ Prefix(prTimeline, k) \in Seq(PrPulls) /\ IsInjective(Prefix(prTimeline, k))
      /\ \A x : x \in ToSet(Prefix(prTimeline, k)) <=>
            \E i \in DOMAIN prTimeline : i <= k /\ prTimeline[i] = x
  BY <1>1, FirstFacts DEF k
<1> QED
  BY <1>2, <1>3 DEF k

\* A page shows what it showed, and perhaps more.
LEMMA PagesGrow ==
    ASSUME PullTypeOK, PullTypeOK', NEW n \in Nat, NEW p \in PrPulls,
           prTimeline' = prTimeline \/ prTimeline' = Append(prTimeline, p)
    PROVE  ToSet(FirstPages(n)) \subseteq ToSet(FirstPages(n)')
<1> DEFINE t == prTimeline
           k == n * PrPage
<1>1. \A i \in DOMAIN t : i \in DOMAIN t' /\ t'[i] = t[i]
  <2>1. t \in Seq(PrPulls) /\ DOMAIN t = 1..Len(t) /\ Len(t) \in Nat
    BY LenProperties DEF PullTypeOK
  <2>2. ASSUME t' = Append(t, p)
        PROVE  /\ t' \in Seq(PrPulls) /\ Len(t') = Len(t) + 1 /\ DOMAIN t' = 1..Len(t')
               /\ \A i \in 1..Len(t) : t'[i] = t[i]
    BY <2>1, <2>2, AppendProperties, LenProperties
  <2>3. CASE t' = Append(t, p)
    BY <2>1, <2>2, <2>3
  <2> QED
    BY <2>3
<1> DEFINE g == FirstPages(n)'
           u == prTimeline'
<1>2. k \in Nat /\ u \in Seq(PrPulls)
  BY PullReadAssumption DEF PullTypeOK
<1>3. g = Prefix(u, k)
  BY Zenon DEF FirstPages, Prefix
<1>4. \A x : x \in ToSet(FirstPages(n)) => \E i \in DOMAIN t : i <= k /\ t[i] = x
  BY PagesFacts
<1> HIDE DEF k, t, g, u
<1>5. \A x : x \in ToSet(g) <=> \E i \in DOMAIN u : i <= k /\ u[i] = x
  BY <1>2, <1>3, FirstFacts
<1>6. \A x : (\E i \in DOMAIN t : i <= k /\ t[i] = x) => \E i \in DOMAIN u : i <= k /\ u[i] = x
  BY <1>1 DEF t, u
<1> QED
  BY <1>4, <1>5, <1>6 DEF g

LEMMA NumbersFacts ==
    ASSUME NEW nums \in Seq(PrPulls), NEW more \in Seq(PrPulls),
           IsInjective(nums), IsInjective(more)
    PROVE  /\ WithNumbers(nums, more) \in Seq(PrPulls) /\ IsInjective(WithNumbers(nums, more))
           /\ ToSet(WithNumbers(nums, more)) = ToSet(nums) \cup ToSet(more)
           /\ nums # <<>> => WithNumbers(nums, more) # <<>>
<1> DEFINE new == Among(more, PrPulls \ ToSet(nums))
<1>1. /\ new \in Seq(PrPulls) /\ ToSet(new) = ToSet(more) \cap (PrPulls \ ToSet(nums))
      /\ IsInjective(new)
  BY AmongFacts
<1>2. ToSet(more) \subseteq PrPulls
  BY LenProperties DEF ToSet
<1>3. WithNumbers(nums, more) = nums \o new
  BY DEF WithNumbers
<1> HIDE DEF new
<1>4. ToSet(nums) \cap ToSet(new) = {} /\ ToSet(nums) \cup ToSet(new) = ToSet(nums) \cup ToSet(more)
  BY <1>1, <1>2
<1> QED
  BY <1>1, <1>3, <1>4, JoinFacts

-----------------------------------------------------------------------------
(* PullRead: a read of GitHub misses nothing it was due                     *)

\* What the closing reader has lost sight of is beyond MAX_PULLS.
Cut(r) == Cardinality(ToSet(r.nums) \ r.graph) > PrMax

\* listPublicClosingPulls on its way: what is due is still in one of the lists it
\* has read or will read, and what GraphQL gave is merged and listed.
ClosingKept(r) ==
    /\ r.pc = "graph" => /\ r.nums = <<>> /\ r.graph = {} /\ r.found = {}
                         /\ r.due \subseteq DueClosing
    /\ r.pc = "timeline" =>
          \A p \in r.due : p \in r.graph \/ (prKind[p] # "sidebar" /\ p \in ToSet(FirstPages(1)))
    /\ r.pc \in {"timeline", "search", "list"} => r.found = r.graph
    /\ r.pc \in {"timeline", "search", "list", "pulls"} =>
          r.graph \subseteq r.found /\ r.found \subseteq prMerged \cap ToSet(r.nums)
    /\ r.pc \in {"search", "list"} => r.due \subseteq ToSet(r.nums)
    /\ r.pc \in {"search", "list", "pulls"} =>
          \A p \in r.due : p \in r.graph \/ prKind[p] # "sidebar"
    /\ r.pc = "pulls" => /\ ToSet(r.todo) \subseteq ToSet(r.nums)
                         /\ r.due \subseteq r.found \cup ToSet(r.todo) \/ Cut(r)

\* fetchPoolPullRequests on its way.
PoolKept(r) ==
    /\ r.nums # <<>>
    /\ r.pc \in {"search", "timeline"} =>
          r.due \subseteq ToSet(r.nums) \cup (ToSet(FirstPages(PrPages)) \cap Here)
    /\ r.pc = "list" => r.due \subseteq ToSet(r.nums)
    /\ r.pc = "pulls" => r.due \subseteq r.found \cup ToSet(r.todo)

\* Any reader's answer, ReadsMissNothing of it.
AnswerKept(r) ==
    LET pool == r.asks = "pool"
        evident == IF pool THEN r.found
                   ELSE {p \in r.found : p \in r.graph \/ prKind[p] \in {"body", "commit"}}
        full == \/ Cardinality(ToSet(r.nums) \ r.graph) > PrMax
                \/ Cardinality(ToSet(r.nums) \cap prMerged) > PrMax
    IN  r.pc = "done" => /\ r.due \subseteq evident \/ (~ pool /\ full)
                         /\ pool \/ r.found \subseteq prMerged

ReadKept(r) ==
    /\ IsInjective(r.nums)
    /\ r.asks # "pool" => r.due \subseteq prMerged \cap Closing
    /\ r.pc = "graph" => r.asks = "closing"
    /\ r.pc = "surfaces" => /\ r.asks = "delivery" /\ r.due \subseteq r.found
                            /\ r.found \subseteq prMerged
    /\ r.pc \in {"timeline", "search", "list", "pulls"} => r.asks # "delivery"
    /\ r.asks = "closing" => ClosingKept(r)
    /\ r.asks = "pool" => PoolKept(r)
    /\ AnswerKept(r)

PullInv == prMerged \subseteq Here /\ ReadKept(prRead)

\* The step of a reader: GitHub's state is another's.
GoesOn == \E x \in PullReader : ReadKept(x) /\ PrGoto(x)

LEMMA SameHub ==
    ASSUME UNCHANGED prHub
    PROVE  /\ Here' = Here /\ Closing' = Closing /\ Linked' = Linked /\ DueClosing' = DueClosing
           /\ \A n : FirstPages(n)' = FirstPages(n)
<1>1. \A n : FirstPages(n)' = FirstPages(n)
  BY Zenon DEF FirstPages, prHub
<1>2. /\ prKind' = prKind /\ prToken' = prToken /\ prTimeline' = prTimeline /\ prMerged' = prMerged
  BY DEF prHub
<1>3. Here' = Here
  BY <1>2 DEF Here
<1>4. Closing' = Closing /\ Linked' = Linked
  BY <1>2, <1>3 DEF Closing, Linked
<1>5. DueClosing' = DueClosing
  BY Zenon, <1>1, <1>2, <1>4 DEF DueClosing
<1> QED
  BY <1>1, <1>3, <1>4, <1>5

LEMMA ReaderStep ==
    ASSUME PullTypeOK, PullInv, GoesOn
    PROVE  PullTypeOK' /\ PullInv'
<1>1. PICK x \in PullReader : ReadKept(x) /\ PrGoto(x)
  BY DEF GoesOn
<1>2. /\ prRead' = x /\ UNCHANGED prHub
      /\ prKind' = prKind /\ prToken' = prToken /\ prTimeline' = prTimeline /\ prMerged' = prMerged
  BY <1>1 DEF PrGoto, prHub
<1>3. PullTypeOK'
  BY <1>1, <1>2 DEF PullTypeOK
<1>4. /\ Here' = Here /\ Closing' = Closing /\ DueClosing' = DueClosing
      /\ FirstPages(1)' = FirstPages(1) /\ FirstPages(PrPages)' = FirstPages(PrPages)
  BY <1>2, SameHub
<1>5. ClosingKept(x)' = ClosingKept(x) /\ PoolKept(x)' = PoolKept(x) /\ AnswerKept(x)' = AnswerKept(x)
  BY <1>2, <1>4 DEF ClosingKept, PoolKept, AnswerKept, Cut
<1>6. ReadKept(x)
  BY <1>1
<1>7. PullInv'
  BY <1>2, <1>4, <1>5, <1>6 DEF PullInv, ReadKept
<1> QED
  BY <1>3, <1>7

LEMMA AtRest ==
    ASSUME PullReadAssumption
    PROVE  NoReader \in PullReader /\ ReadKept(NoReader)
<1>1. NoReader \in PullReader
  BY DEF NoReader, PullReader
<1>2. /\ NoReader.pc = "idle" /\ NoReader.asks = "closing" /\ NoReader.nums = <<>>
      /\ NoReader.due = {}
  BY DEF NoReader
<1>3. IsInjective(NoReader.nums)
  BY <1>2, EmptyList
<1> HIDE DEF NoReader
<1>4. ClosingKept(NoReader)
  BY <1>2 DEF ClosingKept
<1> QED
  BY <1>1, <1>2, <1>3, <1>4 DEF ReadKept, AnswerKept

LEMMA EndKeeps ==
    ASSUME PullTypeOK, PullInv, EndRead
    PROVE  GoesOn
  BY AtRest, PullReadAssumption DEF EndRead, GoesOn

LEMMA BeginClosingKeeps ==
    ASSUME PullTypeOK, PullInv, BeginClosing
    PROVE  GoesOn
<1> DEFINE x == [NoReader EXCEPT !.pc = IF prToken THEN "graph" ELSE "timeline",
                                 !.due = DueClosing]
<1>1. DueClosing \subseteq PrPulls \cap prMerged \cap Closing
  BY DEF DueClosing, Closing, Here
<1>2. x \in PullReader
  <2> DEFINE pc == IF prToken THEN "graph" ELSE "timeline"
  <2>1. pc \in {"graph", "timeline"} /\ NoReader \in PullReader
    BY AtRest, PullReadAssumption
  <2> HIDE DEF pc
  <2> QED
    BY <1>1, <2>1 DEF PullReader
<1>3. /\ x.pc = (IF prToken THEN "graph" ELSE "timeline") /\ x.asks = "closing"
      /\ x.nums = <<>> /\ x.graph = {} /\ x.found = {} /\ x.due = DueClosing
  BY DEF NoReader
<1>4. PrGoto(x)
  BY DEF BeginClosing
<1> HIDE DEF x
<1>5. \A p \in DueClosing : ~ prToken => prKind[p] # "sidebar" /\ p \in ToSet(FirstPages(1))
  BY DEF DueClosing
<1>6. ClosingKept(x)
  BY <1>3, <1>5, EmptyList DEF ClosingKept
<1>7. ReadKept(x)
  BY <1>1, <1>3, <1>6, EmptyList DEF ReadKept, AnswerKept
<1> QED
  BY <1>2, <1>4, <1>7 DEF GoesOn

LEMMA BeginSnapshotKeeps ==
    ASSUME PullTypeOK, PullInv, NEW p \in PrPulls, BeginSnapshot(p)
    PROVE  GoesOn
<1> DEFINE due == {p} \cup (ToSet(FirstPages(PrPages)) \cap Here)
           x == [NoReader EXCEPT !.pc = "search", !.asks = "pool", !.nums = <<p>>, !.due = due]
<1>1. due \subseteq PrPulls
  BY DEF Here
<1>2. x \in PullReader
  BY <1>1, AtRest, OneOfList, PullReadAssumption DEF PullReader
<1>3. x.pc = "search" /\ x.asks = "pool" /\ x.nums = <<p>> /\ x.due = due
  BY DEF NoReader
<1>4. PrGoto(x)
  BY DEF BeginSnapshot
<1>5. <<p>> # <<>> /\ ToSet(<<p>>) = {p} /\ IsInjective(<<p>>)
  BY OneOfList
<1> HIDE DEF x
<1>6. PoolKept(x)
  BY <1>3, <1>5 DEF PoolKept
<1>7. ReadKept(x)
  BY <1>3, <1>5, <1>6 DEF ReadKept, AnswerKept
<1> QED
  BY <1>2, <1>4, <1>7 DEF GoesOn

LEMMA BeginDeliveryKeeps ==
    ASSUME PullTypeOK, PullInv, NEW p \in PrPulls, BeginDelivery(p)
    PROVE  GoesOn
<1> DEFINE x == [NoReader EXCEPT !.pc = "surfaces", !.asks = "delivery", !.nums = <<p>>,
                                 !.found = {p}, !.due = {p} \cap Closing]
<1>1. x \in PullReader
  BY AtRest, OneOfList, PullReadAssumption DEF PullReader
<1>2. /\ x.pc = "surfaces" /\ x.asks = "delivery" /\ x.nums = <<p>>
      /\ x.found = {p} /\ x.due = {p} \cap Closing
  BY DEF NoReader
<1>3. PrGoto(x) /\ p \in prMerged
  BY DEF BeginDelivery
<1>4. IsInjective(<<p>>)
  BY OneOfList
<1> HIDE DEF x
<1>5. ReadKept(x)
  BY <1>2, <1>3, <1>4 DEF ReadKept, AnswerKept
<1> QED
  BY <1>1, <1>3, <1>5 DEF GoesOn

\* The evidence that a merged pull request closes the issue.
LEMMA Kinds ==
    ASSUME PullTypeOK, NEW p \in Closing
    PROVE  /\ p \in PrPulls /\ prKind[p] \in {"body", "commit", "sidebar"}
           /\ prKind[p] \in {"body", "sidebar"} => p \in Linked
  BY PullReadAssumption DEF PullTypeOK, Closing, Here, Linked, PrKinds

LEMMA ReadSurfacesKeeps ==
    ASSUME PullTypeOK, PullInv, ReadSurfaces
    PROVE  GoesOn
<1> DEFINE r == prRead
           told == [r EXCEPT !.pc = "done", !.graph = r.found \cap Linked]
           failed == [r EXCEPT !.pc = "done", !.due = {p \in r.due : prKind[p] = "body"}]
<1>1. r \in PullReader /\ ReadKept(r) /\ r.pc = "surfaces"
  BY DEF PullTypeOK, PullInv, ReadSurfaces
<1>2. /\ r.asks = "delivery" /\ r.due \subseteq prMerged \cap Closing /\ r.due \subseteq r.found
      /\ r.found \subseteq prMerged /\ IsInjective(r.nums)
  BY <1>1 DEF ReadKept
<1>3. told \in PullReader /\ failed \in PullReader
  BY <1>1 DEF PullReader
<1>4. /\ told.pc = "done" /\ told.asks = "delivery" /\ told.graph = r.found \cap Linked
      /\ told.found = r.found /\ told.nums = r.nums /\ told.due = r.due
  BY <1>1, <1>2 DEF PullReader
<1>5. /\ failed.pc = "done" /\ failed.asks = "delivery" /\ failed.found = r.found
      /\ failed.nums = r.nums /\ failed.due = {p \in r.due : prKind[p] = "body"}
  BY <1>1, <1>2 DEF PullReader
<1>6. PrGoto(told) \/ PrGoto(failed)
  BY DEF ReadSurfaces
<1> HIDE DEF told, failed, r
<1>7. \A p \in r.due : p \in r.found /\ (p \in r.found \cap Linked \/ prKind[p] \in {"body", "commit"})
  BY <1>2, Kinds
<1>8. AnswerKept(told)
  BY <1>2, <1>4, <1>7 DEF AnswerKept
<1>9. AnswerKept(failed)
  BY <1>2, <1>5 DEF AnswerKept
<1>10. ReadKept(told) /\ ReadKept(failed)
  BY <1>2, <1>4, <1>5, <1>8, <1>9 DEF ReadKept
<1> QED
  BY <1>3, <1>6, <1>10 DEF GoesOn

\* The numbers of a finite set in some order, and those of one page of the index.
LEMMA ListOfSet ==
    ASSUME NEW S \in SUBSET PrPulls
    PROVE  /\ SetToSeq(S) \in Seq(PrPulls) /\ IsInjective(SetToSeq(S)) /\ ToSet(SetToSeq(S)) = S
           /\ \A s \in SetToSeqs(S) : s \in Seq(PrPulls) /\ IsInjective(s) /\ ToSet(s) = S
<1>1. IsFiniteSet(S) /\ S \subseteq Nat
  BY PullReadAssumption, FS_Subset
<1>2. \A s \in [1..Cardinality(S) -> S] : IsInjective(s) => s \in Seq(S) /\ ToSet(s) = S
  BY <1>1, Enumeration
<1>3. \A s \in SetToSeqs(S) : s \in [1..Cardinality(S) -> S] /\ IsInjective(s)
  BY DEF SetToSeqs, IsInjective
<1>4. Ascending(S) \in SetToSeqs(S)
  BY <1>1, OrderExists DEF Ascending
<1>5. SetToSeq(S) \in [1..Cardinality(S) -> S] /\ IsInjective(SetToSeq(S))
  BY <1>3, <1>4 DEF SetToSeq
<1>6. Seq(S) \subseteq Seq(PrPulls)
  OBVIOUS
<1> QED
  BY <1>2, <1>3, <1>5, <1>6

LEMMA ReadGraphKeeps ==
    ASSUME PullTypeOK, PullInv, ReadGraph
    PROVE  GoesOn
<1> DEFINE r == prRead
<1>1. r \in PullReader /\ ReadKept(r) /\ r.pc = "graph"
  BY DEF PullTypeOK, PullInv, ReadGraph
<1>2. /\ r.asks = "closing" /\ r.nums = <<>> /\ r.graph = {} /\ r.found = {}
      /\ r.due \subseteq DueClosing /\ r.due \subseteq prMerged \cap Closing
  BY <1>1 DEF ReadKept, ClosingKept
<1>3. CASE \E page \in SUBSET Linked :
              LET merged == page \cap prMerged
              IN  /\ page = Linked \/ Cardinality(page) = PrMax
                  /\ Cardinality(page) <= PrMax
                  /\ PrGoto([prRead EXCEPT !.pc = "timeline", !.graph = merged, !.found = merged,
                                           !.nums = SetToSeq(merged)])
  <2>1. PICK page \in SUBSET Linked :
           /\ page = Linked \/ Cardinality(page) = PrMax
           /\ PrGoto([r EXCEPT !.pc = "timeline", !.graph = page \cap prMerged,
                        !.found = page \cap prMerged, !.nums = SetToSeq(page \cap prMerged)])
    BY <1>3
  <2> DEFINE merged == page \cap prMerged
             nums == SetToSeq(merged)
             x == [r EXCEPT !.pc = "timeline", !.graph = merged, !.found = merged, !.nums = nums]
  <2>2. merged \subseteq PrPulls /\ nums \in Seq(PrPulls) /\ IsInjective(nums) /\ ToSet(nums) = merged
    BY ListOfSet DEF Linked, Here
  <2>3. PrGoto(x) /\ merged \subseteq prMerged
    BY <2>1
  <2>4. Cardinality(Linked) <= PrMax => page = Linked
    <3>1. IsFiniteSet(Linked)
      BY PullReadAssumption, FS_Subset DEF Linked, Here
    <3>2. /\ Cardinality(page) \in Nat /\ Cardinality(Linked) \in Nat /\ PrMax \in Nat
          /\ Cardinality(page) <= Cardinality(Linked)
          /\ Cardinality(page) = Cardinality(Linked) => page = Linked
      BY <3>1, FS_Subset, FS_CardinalityType, PullReadAssumption
    <3> QED
      BY <2>1, <3>2
  <2>5. \A p \in DueClosing : p \in merged \/ (prKind[p] # "sidebar" /\ p \in ToSet(FirstPages(1)))
    BY <2>4 DEF DueClosing
  <2> HIDE DEF merged, nums, r
  <2>6. x \in PullReader
    BY <1>1, <2>2 DEF PullReader
  <2>7. /\ x.pc = "timeline" /\ x.asks = "closing" /\ x.graph = merged /\ x.found = merged
        /\ x.nums = nums /\ x.due = r.due
    BY <1>1, <1>2 DEF PullReader
  <2> HIDE DEF x
  <2>8. ClosingKept(x)
    BY <1>2, <2>2, <2>3, <2>5, <2>7 DEF ClosingKept
  <2>9. ReadKept(x)
    BY <1>2, <2>2, <2>7, <2>8 DEF ReadKept, AnswerKept
  <2> QED
    BY <2>3, <2>6, <2>9 DEF GoesOn
<1>4. CASE PrGoto([prRead EXCEPT !.pc = "timeline",
             !.due = @ \ {p \in Linked : prKind[p] = "sidebar" \/ p \notin ToSet(FirstPages(1))}])
  <2> DEFINE left == r.due \ {p \in Linked : prKind[p] = "sidebar" \/ p \notin ToSet(FirstPages(1))}
             x == [r EXCEPT !.pc = "timeline", !.due = left]
  <2>1. left \subseteq r.due /\ r.due \subseteq PrPulls
    BY <1>1 DEF PullReader
  <2>2. PrGoto(x)
    BY <1>4
  <2>3. \A p \in left : prKind[p] # "sidebar" /\ p \in ToSet(FirstPages(1))
    BY <1>2 DEF DueClosing
  <2> HIDE DEF left, r
  <2>4. x \in PullReader
    BY <1>1, <2>1 DEF PullReader
  <2>5. /\ x.pc = "timeline" /\ x.asks = "closing" /\ x.graph = {} /\ x.found = {}
        /\ x.nums = <<>> /\ x.due = left
    BY <1>1, <1>2 DEF PullReader
  <2> HIDE DEF x
  <2>6. ClosingKept(x)
    BY <2>3, <2>5 DEF ClosingKept
  <2>7. ReadKept(x)
    BY <1>2, <2>1, <2>5, <2>6, EmptyList DEF ReadKept, AnswerKept
  <2> QED
    BY <2>2, <2>4, <2>7 DEF GoesOn
<1> QED
  BY <1>3, <1>4 DEF ReadGraph

\* What a reader asks about is of its own kind, and a delivery's asks for no list.
LEMMA AskedFor ==
    ASSUME PullTypeOK, PullInv, prRead.pc \in {"timeline", "search", "list", "pulls"}
    PROVE  /\ prRead \in PullReader /\ ReadKept(prRead) /\ IsInjective(prRead.nums)
           /\ \/ prRead.asks = "closing" /\ ClosingKept(prRead)
                    /\ prRead.due \subseteq prMerged \cap Closing
              \/ prRead.asks = "pool" /\ PoolKept(prRead)
<1>1. prRead \in PullReader /\ ReadKept(prRead)
  BY DEF PullTypeOK, PullInv
<1>2. prRead.asks \in {"closing", "pool"}
  BY <1>1 DEF ReadKept, PullReader
<1> QED
  BY <1>1, <1>2 DEF ReadKept

LEMMA ReadTimelineKeeps ==
    ASSUME PullTypeOK, PullInv, ReadTimeline
    PROVE  GoesOn
<1> DEFINE r == prRead
           pool == r.asks = "pool"
           pages == IF pool THEN PrPages ELSE 1
<1>1. /\ r \in PullReader /\ r.pc = "timeline" /\ IsInjective(r.nums)
      /\ \/ r.asks = "closing" /\ ClosingKept(r) /\ r.due \subseteq prMerged \cap Closing
         \/ r.asks = "pool" /\ PoolKept(r)
  BY AskedFor DEF ReadTimeline
<1>2. PICK n \in 0..pages, limited \in BOOLEAN :
         PrGoto([r EXCEPT
                  !.pc = IF pool THEN "list" ELSE "search",
                  !.limited = limited,
                  !.due = @ \ (ToSet(FirstPages(pages)) \ (ToSet(FirstPages(n)) \cup ToSet(r.nums))),
                  !.nums = WithNumbers(@, Among(FirstPages(n), Here))])
  BY DEF ReadTimeline
<1> DEFINE pc == IF pool THEN "list" ELSE "search"
           due == r.due \ (ToSet(FirstPages(pages)) \ (ToSet(FirstPages(n)) \cup ToSet(r.nums)))
           nums == WithNumbers(r.nums, Among(FirstPages(n), Here))
           x == [r EXCEPT !.pc = pc, !.limited = limited, !.due = due, !.nums = nums]
<1>3. PrGoto(x)
  BY <1>2
<1>4. n \in Nat /\ pages \in {1, PrPages}
  BY PullReadAssumption
<1>5. /\ FirstPages(n) \in Seq(PrPulls) /\ IsInjective(FirstPages(n))
      /\ r.nums \in Seq(PrPulls)
  BY <1>1, <1>4, PagesFacts DEF PullReader
<1>6. /\ Among(FirstPages(n), Here) \in Seq(PrPulls) /\ IsInjective(Among(FirstPages(n), Here))
      /\ ToSet(Among(FirstPages(n), Here)) = ToSet(FirstPages(n)) \cap Here
  BY <1>5, AmongFacts
<1>7. /\ nums \in Seq(PrPulls) /\ IsInjective(nums) /\ (r.nums # <<>> => nums # <<>>)
      /\ ToSet(nums) = ToSet(r.nums) \cup (ToSet(FirstPages(n)) \cap Here)
  BY <1>1, <1>5, <1>6, NumbersFacts
<1>8. due \subseteq r.due /\ due \subseteq PrPulls
  BY <1>1 DEF PullReader
<1>9. \A p \in due : p \in ToSet(FirstPages(pages)) => p \in ToSet(FirstPages(n)) \cup ToSet(r.nums)
  OBVIOUS
<1>10. pc = (IF pool THEN "list" ELSE "search") /\ pc \in {"list", "search"}
  OBVIOUS
<1> HIDE DEF pc, due, nums, r
<1>11. x \in PullReader
  BY <1>1, <1>7, <1>8, <1>10 DEF PullReader
<1>12. /\ x.pc = pc /\ x.asks = r.asks /\ x.graph = r.graph /\ x.found = r.found
       /\ x.nums = nums /\ x.due = due
  BY <1>1 DEF PullReader
<1> HIDE DEF x
<1>13. CASE ~ pool
  <2>1. /\ r.asks = "closing" /\ ClosingKept(r) /\ r.due \subseteq prMerged \cap Closing
        /\ pages = 1 /\ pc = "search"
    BY <1>1, <1>10, <1>13
  <2>2. /\ r.found = r.graph /\ r.found \subseteq prMerged \cap ToSet(r.nums)
        /\ \A p \in r.due : p \in r.graph \/ (prKind[p] # "sidebar" /\ p \in ToSet(FirstPages(1)))
    BY <1>1, <2>1 DEF ClosingKept
  <2>3. due \subseteq ToSet(nums)
    <3>1. Closing \subseteq Here
      BY DEF Closing
    <3> QED
      BY <1>7, <1>8, <1>9, <2>1, <2>2, <3>1
  <2>4. ClosingKept(x)
    BY <1>7, <1>8, <1>12, <2>1, <2>2, <2>3 DEF ClosingKept
  <2>5. ReadKept(x)
    BY <1>7, <1>8, <1>12, <2>1, <2>4 DEF ReadKept, AnswerKept
  <2> QED
    BY <1>3, <1>11, <2>5 DEF GoesOn
<1>14. CASE pool
  <2>1. /\ r.asks = "pool" /\ PoolKept(r) /\ pages = PrPages /\ pc = "list"
    BY <1>1, <1>10, <1>14
  <2>2. /\ r.nums # <<>>
        /\ r.due \subseteq ToSet(r.nums) \cup (ToSet(FirstPages(PrPages)) \cap Here)
    BY <1>1, <2>1 DEF PoolKept
  <2>3. due \subseteq ToSet(nums)
    BY <1>7, <1>8, <1>9, <2>1, <2>2
  <2>4. PoolKept(x)
    BY <1>7, <1>12, <2>1, <2>2, <2>3 DEF PoolKept
  <2>5. ReadKept(x)
    BY <1>7, <1>12, <2>1, <2>4 DEF ReadKept, AnswerKept
  <2> QED
    BY <1>3, <1>11, <2>5 DEF GoesOn
<1> QED
  BY <1>13, <1>14

LEMMA ReadSearchKeeps ==
    ASSUME PullTypeOK, PullInv, ReadSearch
    PROVE  GoesOn
<1> DEFINE r == prRead
           pool == r.asks = "pool"
           indexed == IF pool THEN Here ELSE Here \cap prMerged
<1>1. /\ r \in PullReader /\ r.pc = "search" /\ IsInjective(r.nums)
      /\ \/ r.asks = "closing" /\ ClosingKept(r) /\ r.due \subseteq prMerged \cap Closing
         \/ r.asks = "pool" /\ PoolKept(r)
  BY AskedFor DEF ReadSearch
<1>2. PICK page \in SUBSET indexed, lim \in BOOLEAN : \E items \in SetToSeqs(page) :
         PrGoto([r EXCEPT !.pc = IF pool THEN "timeline" ELSE "list",
                          !.limited = @ \/ lim, !.nums = WithNumbers(@, items)])
  BY DEF ReadSearch
<1>3. PICK items \in SetToSeqs(page) :
         PrGoto([r EXCEPT !.pc = IF pool THEN "timeline" ELSE "list",
                          !.limited = @ \/ lim, !.nums = WithNumbers(@, items)])
  BY <1>2
<1> DEFINE pc == IF pool THEN "timeline" ELSE "list"
           limited == r.limited \/ lim
           nums == WithNumbers(r.nums, items)
           x == [r EXCEPT !.pc = pc, !.limited = limited, !.nums = nums]
<1>4. PrGoto(x)
  BY <1>3
<1>5. page \subseteq PrPulls
  BY DEF Here
<1>6. items \in Seq(PrPulls) /\ IsInjective(items) /\ r.nums \in Seq(PrPulls)
  BY <1>1, <1>5, ListOfSet DEF PullReader
<1>7. /\ nums \in Seq(PrPulls) /\ IsInjective(nums) /\ (r.nums # <<>> => nums # <<>>)
      /\ ToSet(r.nums) \subseteq ToSet(nums)
  BY <1>1, <1>6, NumbersFacts
<1>8. /\ pc = (IF pool THEN "timeline" ELSE "list") /\ pc \in {"list", "timeline"}
      /\ limited \in BOOLEAN
  OBVIOUS
<1> HIDE DEF pc, limited, nums, r
<1>9. x \in PullReader
  BY <1>1, <1>7, <1>8 DEF PullReader
<1>10. /\ x.pc = pc /\ x.asks = r.asks /\ x.graph = r.graph /\ x.found = r.found
       /\ x.nums = nums /\ x.due = r.due
  BY <1>1 DEF PullReader
<1> HIDE DEF x
<1>11. CASE ~ pool
  <2>1. /\ r.asks = "closing" /\ ClosingKept(r) /\ r.due \subseteq prMerged \cap Closing
        /\ pc = "list"
    BY <1>1, <1>8, <1>11
  <2>2. /\ r.found = r.graph /\ r.found \subseteq prMerged \cap ToSet(r.nums)
        /\ r.due \subseteq ToSet(r.nums)
        /\ \A p \in r.due : p \in r.graph \/ prKind[p] # "sidebar"
    BY <1>1, <2>1 DEF ClosingKept
  <2>3. ClosingKept(x)
    BY <1>7, <1>10, <2>1, <2>2 DEF ClosingKept
  <2>4. ReadKept(x)
    BY <1>7, <1>10, <2>1, <2>3 DEF ReadKept, AnswerKept
  <2> QED
    BY <1>4, <1>9, <2>4 DEF GoesOn
<1>12. CASE pool
  <2>1. r.asks = "pool" /\ PoolKept(r) /\ pc = "timeline"
    BY <1>1, <1>8, <1>12
  <2>2. /\ r.nums # <<>>
        /\ r.due \subseteq ToSet(r.nums) \cup (ToSet(FirstPages(PrPages)) \cap Here)
    BY <1>1, <2>1 DEF PoolKept
  <2>3. PoolKept(x)
    BY <1>7, <1>10, <2>1, <2>2 DEF PoolKept
  <2>4. ReadKept(x)
    BY <1>7, <1>10, <2>1, <2>3 DEF ReadKept, AnswerKept
  <2> QED
    BY <1>4, <1>9, <2>4 DEF GoesOn
<1> QED
  BY <1>11, <1>12

\* readPull goes over the list of what GraphQL did not give: all of it, unless that
\* is more than MAX_PULLS.
LEMMA MissingFacts ==
    ASSUME NEW nums \in Seq(PrPulls), IsInjective(nums), NEW graph \in SUBSET PrPulls
    PROVE  /\ Missing(nums, graph) \in Seq(PrPulls)
           /\ ToSet(Missing(nums, graph)) \subseteq ToSet(nums)
           /\ \/ ToSet(Missing(nums, graph)) = ToSet(nums) \ graph
              \/ Cardinality(ToSet(nums) \ graph) > PrMax
<1> DEFINE all == Among(nums, PrPulls \ graph)
<1>1. /\ all \in Seq(PrPulls) /\ ToSet(all) = ToSet(nums) \cap (PrPulls \ graph)
      /\ IsInjective(all)
  BY AmongFacts
<1>2. ToSet(nums) \subseteq PrPulls
  BY LenProperties DEF ToSet
<1>3. Missing(nums, graph) = Prefix(all, PrMax)
  BY Zenon DEF Missing, FirstOf, Prefix
<1>4. PrMax \in Nat
  BY PullReadAssumption
<1> HIDE DEF all
<1>5. /\ Prefix(all, PrMax) \in Seq(PrPulls) /\ ToSet(Prefix(all, PrMax)) \subseteq ToSet(all)
      /\ Len(all) <= PrMax => Prefix(all, PrMax) = all
  BY <1>1, <1>4, FirstFacts
<1>6. Cardinality(ToSet(all)) = Len(all) /\ Len(all) \in Nat
  BY <1>1, ListSize
<1>7. ToSet(all) = ToSet(nums) \ graph
  BY <1>1, <1>2
<1>8. Len(all) <= PrMax \/ Len(all) > PrMax
  BY <1>4, <1>6
<1> QED
  BY <1>3, <1>5, <1>6, <1>7, <1>8

LEMMA ListPullsKeeps ==
    ASSUME PullTypeOK, PullInv, ListPulls
    PROVE  GoesOn
<1> DEFINE r == prRead
           pool == r.asks = "pool"
<1>1. /\ r \in PullReader /\ r.pc = "list" /\ IsInjective(r.nums)
      /\ \/ r.asks = "closing" /\ ClosingKept(r) /\ r.due \subseteq prMerged \cap Closing
         \/ r.asks = "pool" /\ PoolKept(r)
  BY AskedFor DEF ListPulls
<1>2. CASE PrGoto(NoReader)
  BY <1>2, AtRest, PullReadAssumption DEF GoesOn
<1>3. CASE PrGoto([r EXCEPT !.pc = "pulls",
                     !.todo = IF r.asks = "pool" THEN Ascending(ToSet(r.nums))
                              ELSE Missing(r.nums, r.graph)])
  <2> DEFINE todo == IF pool THEN Ascending(ToSet(r.nums)) ELSE Missing(r.nums, r.graph)
             x == [r EXCEPT !.pc = "pulls", !.todo = todo]
  <2>1. PrGoto(x)
    BY <1>3
  <2>2. r.nums \in Seq(PrPulls) /\ r.graph \subseteq PrPulls
    BY <1>1 DEF PullReader
  <2>3. ToSet(r.nums) \subseteq PrPulls /\ ToSet(r.nums) \subseteq Nat /\ IsFiniteSet(ToSet(r.nums))
    <3>1. ToSet(r.nums) \subseteq PrPulls
      BY <2>2, LenProperties DEF ToSet
    <3>2. IsFiniteSet(ToSet(r.nums))
      BY <1>1, <2>2, ListSize
    <3> QED
      BY <3>1, <3>2, PullReadAssumption
  <2>4. /\ Ascending(ToSet(r.nums)) \in Seq(PrPulls)
        /\ ToSet(Ascending(ToSet(r.nums))) = ToSet(r.nums)
    <3>1. /\ Ascending(ToSet(r.nums)) \in Seq(ToSet(r.nums))
          /\ ToSet(Ascending(ToSet(r.nums))) = ToSet(r.nums)
      BY <2>3, AscendingFacts
    <3> QED
      BY <2>3, <3>1
  <2>5. /\ Missing(r.nums, r.graph) \in Seq(PrPulls)
        /\ ToSet(Missing(r.nums, r.graph)) \subseteq ToSet(r.nums)
        /\ ToSet(Missing(r.nums, r.graph)) = ToSet(r.nums) \ r.graph \/ Cut(r)
    BY <1>1, <2>2, MissingFacts DEF Cut
  <2>6. /\ todo \in Seq(PrPulls) /\ ToSet(todo) \subseteq ToSet(r.nums)
        /\ pool => ToSet(todo) = ToSet(r.nums)
        /\ ToSet(r.nums) \subseteq r.graph \cup ToSet(todo) \/ (~ pool /\ Cut(r))
    <3>1. CASE pool
      BY <2>4, <3>1
    <3>2. CASE ~ pool
      BY <2>5, <3>2
    <3> QED
      BY <3>1, <3>2
  <2> HIDE DEF todo, r
  <2>7. x \in PullReader
    BY <1>1, <2>6 DEF PullReader
  <2>8. /\ x.pc = "pulls" /\ x.asks = r.asks /\ x.graph = r.graph /\ x.found = r.found
        /\ x.nums = r.nums /\ x.todo = todo /\ x.due = r.due
    BY <1>1 DEF PullReader
  <2> HIDE DEF x
  <2>9. CASE ~ pool
    <3>1. r.asks = "closing" /\ ClosingKept(r) /\ r.due \subseteq prMerged \cap Closing
      BY <1>1, <2>9
    <3>2. /\ r.found = r.graph /\ r.found \subseteq prMerged \cap ToSet(r.nums)
          /\ r.due \subseteq ToSet(r.nums)
          /\ \A p \in r.due : p \in r.graph \/ prKind[p] # "sidebar"
      BY <1>1, <3>1 DEF ClosingKept
    <3>3. ClosingKept(x)
      BY <2>6, <2>8, <3>1, <3>2 DEF ClosingKept, Cut
    <3>4. ReadKept(x)
      BY <1>1, <2>8, <3>1, <3>3 DEF ReadKept, AnswerKept
    <3> QED
      BY <2>1, <2>7, <3>4 DEF GoesOn
  <2>10. CASE pool
    <3>1. r.asks = "pool" /\ r.nums # <<>> /\ r.due \subseteq ToSet(r.nums)
      BY <1>1, <2>10 DEF PoolKept
    <3>2. PoolKept(x)
      BY <2>6, <2>8, <2>10, <3>1 DEF PoolKept
    <3>3. ReadKept(x)
      BY <1>1, <2>8, <3>1, <3>2 DEF ReadKept, AnswerKept
    <3> QED
      BY <2>1, <2>7, <3>3 DEF GoesOn
  <2> QED
    BY <2>9, <2>10
<1> QED
  BY <1>2, <1>3 DEF ListPulls

LEMMA ReadPullKeeps ==
    ASSUME PullTypeOK, PullInv, ReadPull
    PROVE  GoesOn
<1> DEFINE r == prRead
           p == Head(r.todo)
           wanted == r.asks = "pool" \/ p \in prMerged
<1>1. /\ r \in PullReader /\ r.pc = "pulls" /\ IsInjective(r.nums)
      /\ \/ r.asks = "closing" /\ ClosingKept(r) /\ r.due \subseteq prMerged \cap Closing
         \/ r.asks = "pool" /\ PoolKept(r)
  BY AskedFor DEF ReadPull
<1>2. r.todo # <<>> /\ r.todo \in Seq(PrPulls)
  BY <1>1 DEF ReadPull, PullReader
<1>3. p \in PrPulls /\ Tail(r.todo) \in Seq(PrPulls) /\ ToSet(r.todo) = {p} \cup ToSet(Tail(r.todo))
  BY <1>2, NextOfList
\* Whatever the request brings: the pull request is shown, or no longer due.
<1>4. PICK found \in SUBSET PrPulls, due \in SUBSET PrPulls :
        /\ PrGoto([r EXCEPT !.todo = Tail(@), !.found = found, !.due = due])
        /\ r.found \subseteq found /\ found \subseteq r.found \cup {p} /\ (~ wanted => found = r.found)
        /\ due \subseteq r.due /\ (p \in due => p \in found \/ ~ wanted)
  <2>1. r.found \subseteq PrPulls /\ r.due \subseteq PrPulls
    BY <1>1 DEF PullReader
  <2> DEFINE To(found, due) == [r EXCEPT !.todo = Tail(@), !.found = found, !.due = due]
             passed == [r EXCEPT !.todo = Tail(@)]
  <2>2. /\ [passed EXCEPT !.due = @ \ {p}] = To(r.found, r.due \ {p})
        /\ passed = To(r.found, r.due)
        /\ [passed EXCEPT !.found = @ \cup {p}] = To(r.found \cup {p}, r.due)
        /\ [passed EXCEPT !.found = @ \cup {p}, !.due = @ \ {p}] = To(r.found \cup {p}, r.due \ {p})
    BY <1>1 DEF PullReader
  <2>3. \/ PrGoto([passed EXCEPT !.due = @ \ {p}])
        \/ ~ wanted /\ PrGoto(passed)
        \/ wanted /\ PrGoto([passed EXCEPT !.found = @ \cup {p}])
        \/ wanted /\ PrGoto([passed EXCEPT !.found = @ \cup {p}, !.due = @ \ {p}])
    BY DEF ReadPull
  <2> HIDE DEF wanted, p, passed, To, r
  <2>4. \/ PrGoto(To(r.found, r.due \ {p}))
        \/ ~ wanted /\ PrGoto(To(r.found, r.due))
        \/ wanted /\ PrGoto(To(r.found \cup {p}, r.due))
        \/ wanted /\ PrGoto(To(r.found \cup {p}, r.due \ {p}))
    BY <2>2, <2>3
  <2>5. \E found \in SUBSET PrPulls, due \in SUBSET PrPulls :
          /\ PrGoto(To(found, due))
          /\ r.found \subseteq found /\ found \subseteq r.found \cup {p} /\ (~ wanted => found = r.found)
          /\ due \subseteq r.due /\ (p \in due => p \in found \/ ~ wanted)
    <3>1. CASE PrGoto(To(r.found, r.due \ {p}))
      BY <2>1, <3>1
    <3>2. CASE ~ wanted /\ PrGoto(To(r.found, r.due))
      BY <2>1, <3>2
    <3>3. r.found \cup {p} \in SUBSET PrPulls
      BY <1>3, <2>1
    <3>4. CASE wanted /\ PrGoto(To(r.found \cup {p}, r.due))
      <4> DEFINE more == r.found \cup {p}
      <4>1. more \in SUBSET PrPulls /\ r.found \subseteq more /\ more \subseteq r.found \cup {p} /\ p \in more
        BY <3>3
      <4>2. PrGoto(To(more, r.due)) /\ wanted
        BY <3>4
      <4> HIDE DEF more
      <4> QED
        BY <2>1, <4>1, <4>2
    <3>5. CASE wanted /\ PrGoto(To(r.found \cup {p}, r.due \ {p}))
      <4> DEFINE more == r.found \cup {p}
                 less == r.due \ {p}
      <4>1. more \in SUBSET PrPulls /\ r.found \subseteq more /\ more \subseteq r.found \cup {p} /\ p \in more
        BY <3>3
      <4>2. less \in SUBSET PrPulls /\ less \subseteq r.due
        BY <2>1
      <4>3. PrGoto(To(more, less)) /\ wanted
        BY <3>5
      <4> HIDE DEF more, less
      <4> QED
        BY <4>1, <4>2, <4>3
    <3> QED
      BY <2>4, <3>1, <3>2, <3>4, <3>5
  <2> QED
    BY <2>5 DEF To
<1> DEFINE x == [r EXCEPT !.todo = Tail(@), !.found = found, !.due = due]
           rest == Tail(r.todo)
<1>5. x \in PullReader
  BY <1>1, <1>3 DEF PullReader
<1>6. /\ x.pc = "pulls" /\ x.asks = r.asks /\ x.graph = r.graph /\ x.found = found
      /\ x.nums = r.nums /\ x.todo = rest /\ x.due = due
  BY <1>1 DEF PullReader
<1>7. PrGoto(x)
  BY <1>4
<1> HIDE DEF x, rest
<1>8. ToSet(r.todo) = {p} \cup ToSet(rest)
  BY <1>3 DEF rest
<1>9. CASE r.asks # "pool"
  <2>1. /\ r.asks = "closing" /\ ClosingKept(r) /\ r.due \subseteq prMerged \cap Closing
        /\ wanted <=> p \in prMerged
    BY <1>1, <1>9
  <2>2. /\ r.graph \subseteq r.found /\ r.found \subseteq prMerged \cap ToSet(r.nums)
        /\ ToSet(r.todo) \subseteq ToSet(r.nums)
        /\ r.due \subseteq r.found \cup ToSet(r.todo) \/ Cut(r)
        /\ \A q \in r.due : q \in r.graph \/ prKind[q] # "sidebar"
    BY <1>1, <2>1 DEF ClosingKept
  <2>3. due \subseteq prMerged \cap Closing /\ due \subseteq r.due
    BY <1>4, <2>1
  <2> HIDE DEF wanted, p, r
  <2>4. found \subseteq prMerged \cap ToSet(r.nums) /\ r.graph \subseteq found
    BY <1>4, <1>8, <2>1, <2>2
  <2>5. due \subseteq found \cup ToSet(rest) \/ Cut(r)
    BY <1>4, <1>8, <2>1, <2>2, <2>3
  <2>6. ClosingKept(x)
    BY <1>6, <1>8, <2>1, <2>2, <2>3, <2>4, <2>5 DEF ClosingKept, Cut
  <2>7. ReadKept(x)
    BY <1>1, <1>6, <2>1, <2>3, <2>6 DEF ReadKept, AnswerKept
  <2> QED
    BY <1>5, <1>7, <2>7 DEF GoesOn
<1>10. CASE r.asks = "pool"
  <2>1. r.nums # <<>> /\ r.due \subseteq r.found \cup ToSet(r.todo) /\ wanted
    BY <1>1, <1>10 DEF PoolKept
  <2> HIDE DEF wanted, p, r
  <2>2. due \subseteq found \cup ToSet(rest)
    BY <1>4, <1>8, <2>1
  <2>3. PoolKept(x)
    BY <1>6, <2>1, <2>2 DEF PoolKept
  <2>4. ReadKept(x)
    BY <1>1, <1>6, <1>10, <2>3 DEF ReadKept, AnswerKept
  <2> QED
    BY <1>5, <1>7, <2>4 DEF GoesOn
<1> QED
  BY <1>9, <1>10

LEMMA AnswerPullsKeeps ==
    ASSUME PullTypeOK, PullInv, AnswerPulls
    PROVE  GoesOn
<1> DEFINE r == prRead
           cut == ToSet(FirstOf(Ascending(r.found)))
           found == IF r.asks = "pool" THEN r.found \cup {Head(r.nums)} ELSE cut
           x == [r EXCEPT !.pc = "done", !.found = found]
<1>1. /\ r \in PullReader /\ r.pc = "pulls" /\ IsInjective(r.nums) /\ r.todo = <<>>
      /\ \/ r.asks = "closing" /\ ClosingKept(r) /\ r.due \subseteq prMerged \cap Closing
         \/ r.asks = "pool" /\ PoolKept(r)
  BY AskedFor DEF AnswerPulls
<1>2. PrGoto(x)
  BY DEF AnswerPulls
<1>3. ToSet(r.todo) = {}
  BY <1>1, EmptyList
<1>4. r.found \subseteq PrPulls /\ r.nums \in Seq(PrPulls) /\ r.due \subseteq PrPulls
  BY <1>1 DEF PullReader
<1>5. /\ cut \subseteq r.found
      /\ cut = r.found \/ Cardinality(r.found) > PrMax
  <2>1. IsFiniteSet(r.found) /\ r.found \subseteq Nat
    BY <1>4, PullReadAssumption, FS_Subset
  <2>2. /\ Ascending(r.found) \in Seq(r.found) /\ ToSet(Ascending(r.found)) = r.found
        /\ Len(Ascending(r.found)) = Cardinality(r.found)
    BY <2>1, AscendingFacts
  <2>3. FirstOf(Ascending(r.found)) = Prefix(Ascending(r.found), PrMax)
    BY Zenon DEF FirstOf, Prefix
  <2>4. PrMax \in Nat /\ Cardinality(r.found) \in Nat
    BY <2>1, FS_CardinalityType, PullReadAssumption
  <2>5. /\ cut \subseteq ToSet(Ascending(r.found))
        /\ Len(Ascending(r.found)) <= PrMax => cut = ToSet(Ascending(r.found))
    BY <2>2, <2>3, <2>4, FirstFacts
  <2> QED
    BY <2>2, <2>4, <2>5
<1>6. /\ r.asks = "pool" => found = r.found \cup {Head(r.nums)}
      /\ r.asks # "pool" => found = cut
  OBVIOUS
<1> HIDE DEF found, cut, r
<1>7. CASE r.asks = "pool"
  <2>1. r.nums # <<>> /\ r.due \subseteq r.found
    BY <1>1, <1>3, <1>7 DEF PoolKept
  <2>2. Head(r.nums) \in PrPulls
    BY <1>4, <2>1, NextOfList
  <2>3. x \in PullReader
    BY <1>1, <1>4, <1>6, <1>7, <2>2 DEF PullReader
  <2>4. /\ x.pc = "done" /\ x.asks = "pool" /\ x.found = found /\ x.nums = r.nums /\ x.due = r.due
    BY <1>1, <1>7 DEF PullReader
  <2> HIDE DEF x
  <2>5. PoolKept(x) /\ AnswerKept(x)
    BY <1>6, <1>7, <2>1, <2>4 DEF PoolKept, AnswerKept
  <2>6. ReadKept(x)
    BY <1>1, <2>4, <2>5 DEF ReadKept
  <2> QED
    BY <1>2, <2>3, <2>6 DEF GoesOn
<1>8. CASE r.asks # "pool"
  <2>1. /\ r.asks = "closing" /\ ClosingKept(r) /\ r.due \subseteq prMerged \cap Closing
        /\ found = cut
    BY <1>1, <1>6, <1>8
  <2>2. /\ r.found \subseteq prMerged \cap ToSet(r.nums) /\ (r.due \subseteq r.found \/ Cut(r))
        /\ \A p \in r.due : p \in r.graph \/ prKind[p] # "sidebar"
    BY <1>1, <1>3, <2>1 DEF ClosingKept
  <2>3. r.found \subseteq prMerged
    BY <1>1, <2>1 DEF ClosingKept
  <2>4. x \in PullReader
    BY <1>1, <1>4, <1>5, <2>1 DEF PullReader
  <2>5. /\ x.pc = "done" /\ x.asks = "closing" /\ x.found = cut /\ x.nums = r.nums
        /\ x.graph = r.graph /\ x.due = r.due
    BY <1>1, <2>1 DEF PullReader
  <2> HIDE DEF x
  <2>6. \A p \in r.due : p \in r.graph \/ prKind[p] \in {"body", "commit"}
    BY <2>1, <2>2, Kinds
  \* More were found than fit: they are listed and merged.
  <2>7. Cardinality(r.found) > PrMax => Cardinality(ToSet(r.nums) \cap prMerged) > PrMax
    <3>1. r.found \subseteq ToSet(r.nums) \cap prMerged
      BY <1>1, <2>1 DEF ClosingKept
    <3>2. IsFiniteSet(ToSet(r.nums) \cap prMerged)
      BY <1>1, <1>4, ListSize, FS_Subset
    <3>3. /\ Cardinality(r.found) <= Cardinality(ToSet(r.nums) \cap prMerged)
          /\ Cardinality(r.found) \in Nat /\ Cardinality(ToSet(r.nums) \cap prMerged) \in Nat
          /\ PrMax \in Nat
      BY <3>1, <3>2, FS_Subset, FS_CardinalityType, PullReadAssumption
    <3> QED
      BY <3>3
  <2>8. AnswerKept(x)
    BY <1>5, <2>2, <2>3, <2>5, <2>6, <2>7 DEF AnswerKept, Cut
  <2>9. ReadKept(x)
    BY <1>1, <2>1, <2>5, <2>8 DEF ReadKept, ClosingKept
  <2> QED
    BY <1>2, <2>4, <2>9 DEF GoesOn
<1> QED
  BY <1>7, <1>8

-----------------------------------------------------------------------------
(* GitHub's own steps: the pages and the merged pull requests only grow.    *)

LEMMA HubKeeps ==
    ASSUME PullTypeOK, PullInv, PullTypeOK', prKind' = prKind, prToken' = prToken,
           prRead' = prRead, prMerged \subseteq prMerged', prMerged' \subseteq Here,
           ToSet(FirstPages(1)) \subseteq ToSet(FirstPages(1)'),
           ToSet(FirstPages(PrPages)) \subseteq ToSet(FirstPages(PrPages)')
    PROVE  PullInv'
<1> DEFINE r == prRead
<1>1. r \in PullReader /\ ReadKept(r) /\ r' = r
  BY DEF PullTypeOK, PullInv
<1>2. Here' = Here
  BY DEF Here
<1>3. Closing' = Closing /\ Linked' = Linked
  BY <1>2 DEF Closing, Linked
<1>4. DueClosing \subseteq DueClosing'
  BY <1>3 DEF DueClosing
<1>5. ASSUME Cardinality(ToSet(r.nums) \cap prMerged) > PrMax
      PROVE  Cardinality(ToSet(r.nums) \cap prMerged') > PrMax
  <2>1. IsFiniteSet(ToSet(r.nums))
    BY <1>1, ListSize DEF PullReader, ReadKept
  <2>2. IsFiniteSet(ToSet(r.nums) \cap prMerged')
    BY <2>1, FS_Subset
  <2>3. /\ Cardinality(ToSet(r.nums) \cap prMerged) <= Cardinality(ToSet(r.nums) \cap prMerged')
        /\ Cardinality(ToSet(r.nums) \cap prMerged) \in Nat
        /\ Cardinality(ToSet(r.nums) \cap prMerged') \in Nat /\ PrMax \in Nat
    BY <2>2, FS_Subset, FS_CardinalityType, PullReadAssumption
  <2> QED
    BY <1>5, <2>3
<1>6. ClosingKept(r) => ClosingKept(r)'
  BY <1>1, <1>4 DEF ClosingKept, Cut
<1>7. PoolKept(r) => PoolKept(r)'
  BY <1>1, <1>2 DEF PoolKept
<1>8. AnswerKept(r) => AnswerKept(r)'
  BY <1>1, <1>5 DEF AnswerKept
<1>9. ReadKept(r)'
  BY <1>1, <1>3, <1>6, <1>7, <1>8 DEF ReadKept
<1> QED
  BY <1>2, <1>9 DEF PullInv

LEMMA MentionKeeps ==
    ASSUME PullTypeOK, PullInv, NEW p \in PrPulls, Mention(p)
    PROVE  PullTypeOK' /\ PullInv'
<1>1. /\ p \notin ToSet(prTimeline) /\ prTimeline' = Append(prTimeline, p)
      /\ prKind' = prKind /\ prToken' = prToken /\ prMerged' = prMerged /\ prRead' = prRead
  BY DEF Mention
<1>2. prTimeline \in Seq(PrPulls) /\ IsInjective(prTimeline)
  BY DEF PullTypeOK
<1>3. /\ <<p>> \in Seq(PrPulls) /\ IsInjective(<<p>>)
      /\ ToSet(prTimeline) \cap ToSet(<<p>>) = {}
  BY <1>1, OneOfList
<1>4. prTimeline' = prTimeline \o <<p>>
  BY <1>1, <1>2
<1>5. prTimeline' \in Seq(PrPulls) /\ IsInjective(prTimeline')
  BY <1>2, <1>3, <1>4, JoinFacts
<1>6. PullTypeOK'
  BY <1>1, <1>5 DEF PullTypeOK
<1>7. /\ ToSet(FirstPages(1)) \subseteq ToSet(FirstPages(1)')
      /\ ToSet(FirstPages(PrPages)) \subseteq ToSet(FirstPages(PrPages)')
  BY <1>1, <1>6, PagesGrow, PullReadAssumption
<1>8. PullInv'
  BY <1>1, <1>6, <1>7, HubKeeps DEF PullInv
<1> QED
  BY <1>6, <1>8

LEMMA MergePullKeeps ==
    ASSUME PullTypeOK, PullInv, NEW p \in PrPulls, MergePull(p)
    PROVE  PullTypeOK' /\ PullInv'
<1>1. /\ prMerged' = prMerged \cup {p} /\ p \in Here
      /\ prKind' = prKind /\ prToken' = prToken /\ prTimeline' = prTimeline /\ prRead' = prRead
  BY DEF MergePull
<1>2. PullTypeOK'
  BY <1>1 DEF PullTypeOK
<1>3. /\ ToSet(FirstPages(1)) \subseteq ToSet(FirstPages(1)')
      /\ ToSet(FirstPages(PrPages)) \subseteq ToSet(FirstPages(PrPages)')
  BY <1>1, <1>2, PagesGrow, PullReadAssumption
<1>4. prMerged \subseteq prMerged' /\ prMerged' \subseteq Here
  BY <1>1 DEF PullInv
<1>5. PullInv'
  BY <1>1, <1>2, <1>3, <1>4, HubKeeps
<1> QED
  BY <1>2, <1>5

LEMMA PullStep ==
    ASSUME PullTypeOK, PullInv, [PullNext]_prVars
    PROVE  PullTypeOK' /\ PullInv'
<1>1. CASE \E p \in PrPulls : Mention(p) \/ MergePull(p)
  BY <1>1, MentionKeeps, MergePullKeeps
<1>2. CASE \E p \in PrPulls : BeginSnapshot(p) \/ BeginDelivery(p)
  BY <1>2, BeginSnapshotKeeps, BeginDeliveryKeeps, ReaderStep
<1>3. CASE BeginClosing \/ ReadGraph \/ ReadTimeline \/ ReadSearch
  BY <1>3, BeginClosingKeeps, ReadGraphKeeps, ReadTimelineKeeps, ReadSearchKeeps, ReaderStep
<1>4. CASE ListPulls \/ ReadPull \/ AnswerPulls
  BY <1>4, ListPullsKeeps, ReadPullKeeps, AnswerPullsKeeps, ReaderStep
<1>5. CASE ReadSurfaces \/ EndRead
  BY <1>5, ReadSurfacesKeeps, EndKeeps, ReaderStep
<1>6. CASE UNCHANGED prVars
  <2>1. UNCHANGED prHub /\ prRead' = prRead
    BY <1>6 DEF prVars, prHub
  <2>2. GoesOn
    BY <2>1 DEF GoesOn, PrGoto, PullTypeOK, PullInv
  <2> QED
    BY <2>2, ReaderStep
<1> QED
  BY <1>1, <1>2, <1>3, <1>4, <1>5, <1>6 DEF PullNext

LEMMA PullStart ==
    ASSUME PullInit
    PROVE  PullTypeOK /\ PullInv
<1>1. PullTypeOK
  BY AtRest, EmptyList, PullReadAssumption DEF PullInit, PullTypeOK
<1>2. PullInv
  BY AtRest, PullReadAssumption DEF PullInit, PullInv
<1> QED
  BY <1>1, <1>2

LEMMA PullSafe == PullSpec => [](PullTypeOK /\ PullInv)
<1>1. PullTypeOK /\ PullInv /\ [PullNext]_prVars => (PullTypeOK /\ PullInv)'
  BY PullStep
<1> QED
  BY <1>1, PullStart, PTL DEF PullSpec

\* The readers' state is always of its kind: a list of numbers has no number twice,
\* whatever GitHub answers (PullReader, public-read.ts and pool-snapshot.ts).
THEOREM PullTypeCorrect == PullSpec => []PullTypeOK
  BY PullSafe, PTL

\* A read that ends shows what was on its pages before it began, with the evidence
\* that it closes the issue, whatever is opened and merged between its requests,
\* for any number of pull requests, any MAX_PULLS and any size of page.
THEOREM ReadsMiss == PullSpec => []ReadsMissNothing
<1>1. PullInv => ReadsMissNothing
  BY DEF PullInv, ReadKept, AnswerKept, ReadsMissNothing
<1> QED
  BY <1>1, PullSafe, PTL

-----------------------------------------------------------------------------
(* The components together, as the run "services" follows them              *)

\* Whichever service a behaviour follows, it is a behaviour of all of them, the
\* others standing still: what is proved of a service holds of the run.
LEMMA ServicesParts ==
    ServicesSpec => /\ [](service \in Services)
                    /\ ApiSpec /\ RateSpec /\ MailSpec /\ MergeSpec /\ HubSpec /\ PoolSpec
                    /\ ContactSpec /\ PostingSpec /\ LinksSpec /\ AccountSpec /\ PullSpec
<1>1. ServicesInit =>
        /\ service \in Services /\ ApiInit /\ RateInit /\ MailInit /\ MergeInit /\ HubInit
        /\ PoolInit /\ ContactInit /\ PostingInit /\ LinksInit /\ AccountInit /\ PullInit
  BY DEF ServicesInit
<1>2. [ServicesNext]_servicesVars =>
        /\ service' = service /\ [ApiNext]_apiVars /\ [RateNext]_rlVars /\ [MailNext]_mailVars
        /\ [MergeNext]_mdVars /\ [HubNext]_hmVars /\ [PoolNext]_pfVars
        /\ [ContactNext]_csVars /\ [PostingNext]_poVars /\ [LinksNext]_alVars
        /\ [AccountNext]_uaVars /\ [PullNext]_prVars
  BY DEF ServicesNext, servicesVars
<1>3. (service \in Services) /\ [ServicesNext]_servicesVars => (service \in Services)'
  BY <1>2
<1> QED
  BY <1>1, <1>2, <1>3, PTL
  DEF ServicesSpec, ApiSpec, RateSpec, MailSpec, MergeSpec, HubSpec, PoolSpec, ContactSpec,
      PostingSpec, LinksSpec, AccountSpec, PullSpec

\* What the run "services" checks of its components' state holds for any number of
\* calls, workers, deliveries, drafts, users and pull requests.
THEOREM ServicesTypeCorrect == ServicesSpec => []ServicesTypeOK
<1>1. service \in Services /\ ApiTypeOK /\ RateTypeOK /\ MailTypeOK /\ HubTypeOK
      /\ MergeTypeOK /\ PoolTypeOK /\ ContactTypeOK /\ LinksTypeOK /\ PostingTypeOK
      /\ AccountTypeOK /\ PullTypeOK
      => ServicesTypeOK
  BY DEF ServicesTypeOK, Services
<1> QED
  BY <1>1, ServicesParts, ApiTypeCorrect, RateTypeCorrect, MailTypeCorrect, HubTypeCorrect,
     MergeTypeCorrect, PoolTypeCorrect, ContactTypeCorrect, LinksTypeCorrect,
     PostingTypeCorrect, AccountTypeCorrect, PullTypeCorrect, PTL
=============================================================================
