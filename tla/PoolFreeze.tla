----------------------------- MODULE PoolFreeze -----------------------------
(***************************************************************************)
(* The participation pool of one bounty until it is frozen                  *)
(* (src/apps/web/src/webhooks/pool.ts, lib/pool-eligibility.ts,             *)
(* lib/pool-freeze-rows.ts).  Deliveries about open pull requests keep a     *)
(* live roster of candidates.  The delivery of a merge looks the pull        *)
(* requests up at GitHub, decides who shares, and writes one frozen row      *)
(* after the other; from the first of them the pool counts as frozen.        *)
(* Deliveries run side by side and no step locks anything.                  *)
(*                                                                         *)
(* Every author has at most one pull request here: of several the code      *)
(* takes the earliest that qualifies.  The user a row is attached to is      *)
(* left out, claims find a member through the GitHub link as well.  The      *)
(* bounty is funded all the time: none of these steps starts otherwise.     *)
(***************************************************************************)
EXTENDS Split, Sequences, FiniteSets, FiniteSetsExt, SequencesExt

CONSTANTS
    Authors,        \* authors of pull requests that mention the issue
    Poster,         \* the one who posted the bounty
    Mergers,        \* authors whose pull request may be merged
    PoolRuns,       \* deliveries in flight
    NoAuthor,       \* stands for no author
    PoolFace,       \* face of the bounty
    PoolFeeBps, PoolBps, PoolMaxPaid

ASSUME PoolAssumption ==
    /\ IsFiniteSet(Authors) /\ NoAuthor \notin Authors /\ Mergers \subseteq Authors
    /\ PoolFace \in Nat \ {0} /\ PoolMaxPaid \in Nat \ {0}
    /\ PoolFeeBps \in 0 .. BpsDenominator /\ PoolBps \in 0 .. BpsDenominator

VARIABLES
    pfPrs,        \* GitHub: authors in the order of their pull requests
    pfMerge,      \* GitHub: pull requests there were at a merge, 0 is none
    pfRow,        \* pool_participants, by github_id
    pfRun,        \* deliveries in flight
    pfDisturbed   \* history: a freeze was cut off or ran into another write

pfVars == <<pfPrs, pfMerge, pfRow, pfRun, pfDisturbed>>
-----------------------------------------------------------------------------
Opened == Range(pfPrs)
Position(a) == CHOOSE n \in DOMAIN pfPrs : pfPrs[n] = a

Roles == {"winner", "pool", "overflow", "excluded_poster"}
ParticipantRow == [st: {"none", "candidate", "frozen"}, role: Roles, share: Nat]
NoParticipant == [st |-> "none", role |-> "pool", share |-> 0]
Candidate == [st |-> "candidate", role |-> "pool", share |-> 0]
FrozenRow(role, share) == [st |-> "frozen", role |-> role, share |-> share]

PoolPCs == {"idle", "check", "snapshot", "rows", "upsert",
            "live_check", "live_read", "live_write"}

\* merger: the winner of the merge; rows: the rows still to write, by author;
\* author, read: the row at hand, and its status as it was read.
PoolRunIdle == [pc |-> "idle", merger |-> NoAuthor, rows |-> << >>,
                author |-> NoAuthor, read |-> "none"]

PoolTypeOK ==
    /\ pfPrs \in Seq(Authors)
    /\ pfMerge \in [Mergers -> 0 .. Cardinality(Authors)]
    /\ pfRow \in [Authors -> ParticipantRow]
    /\ DOMAIN pfRun = PoolRuns
    /\ \A r \in PoolRuns :
         /\ pfRun[r].pc \in PoolPCs
         /\ {pfRun[r].merger, pfRun[r].author} \subseteq Authors \cup {NoAuthor}
         /\ DOMAIN pfRun[r].rows \subseteq Authors
         /\ pfRun[r].rows \in [DOMAIN pfRun[r].rows -> ParticipantRow]
         /\ pfRun[r].read \in {"none", "candidate", "frozen"}
    /\ pfDisturbed \in BOOLEAN

PoolInit ==
    /\ pfPrs = << >>
    /\ pfMerge = [m \in Mergers |-> 0]
    /\ pfRow = [a \in Authors |-> NoParticipant]
    /\ pfRun = [r \in PoolRuns |-> PoolRunIdle]
    /\ pfDisturbed = FALSE

PoolRunEnds(r) == pfRun' = [pfRun EXCEPT ![r] = PoolRunIdle]
PoolRunGoto(r, pc) == pfRun' = [pfRun EXCEPT ![r].pc = pc]
RunsOnly == UNCHANGED <<pfPrs, pfMerge, pfRow, pfDisturbed>>
-----------------------------------------------------------------------------
(* Who shares, and how much: evaluatePoolEligibility and                    *)
(* frozenParticipantsFromEligibility                                        *)

\* skipReasonForPr, for the authors whose pull requests mention the issue and
\* hold a commit of their own when GitHub is asked.  A bot is none of them.
EligibleAuthors(m, found) ==
    {a \in found : a \notin {m, Poster} /\ Position(a) <= pfMerge[m]}

\* comparePoolRank and capPaidPool: the oldest pull requests are paid.
PaidAuthors(E) ==
    {a \in E : Cardinality({b \in E : Position(b) < Position(a)}) < PoolMaxPaid}

\* The poster's own pull request, which gets a row without a share.
ExcludedAuthors_Always(found) == {Poster}
ExcludedAuthors(found) == {Poster} \cap found

FrozenRows(m, found) ==
    LET E == EligibleAuthors(m, found)
        n == Cardinality(E)
        each == ShareAtomic(PoolFace, n, PoolFeeBps, PoolBps, PoolMaxPaid)
    IN  [a \in {m} \cup E \cup ExcludedAuthors(found) |->
           CASE a = m -> FrozenRow("winner",
                            WinnerAtomic(PoolFace, n, PoolFeeBps, PoolBps, PoolMaxPaid))
             [] a \in PaidAuthors(E)     -> FrozenRow("pool", each)
             [] a \in E \ PaidAuthors(E) -> FrozenRow("overflow", 0)
             [] OTHER                    -> FrozenRow("excluded_poster", 0)]
-----------------------------------------------------------------------------
(* freezeAfterWinner                                                        *)

BountyIsFrozen == \E a \in Authors : pfRow[a].st = "frozen"

\* The check of a freeze, and of a live delivery.
AlreadyFrozen_Never == FALSE
AlreadyFrozen == BountyIsFrozen

Freezing(r) == pfRun[r].pc \in {"snapshot", "rows", "upsert"}

\* The delivery of a merge, again and again: also the duplicates get here.
FreezeBegins(r, m) ==
    /\ pfRun[r].pc = "idle"
    /\ pfMerge[m] > 0
    /\ pfRun' = [pfRun EXCEPT ![r] = [PoolRunIdle EXCEPT !.pc = "check", !.merger = m]]
    /\ RunsOnly

FreezeChecks(r) ==
    /\ pfRun[r].pc = "check"
    /\ IF AlreadyFrozen THEN PoolRunEnds(r) ELSE PoolRunGoto(r, "snapshot")
    /\ pfDisturbed' = (pfDisturbed \/
         (~ AlreadyFrozen /\ \E q \in PoolRuns \ {r} : Freezing(q)))
    /\ UNCHANGED <<pfPrs, pfMerge, pfRow>>

\* The pull request of the delivery is in the snapshot in any case.
FreezeSnapshot(r, found) ==
    LET m == pfRun[r].merger
    IN  /\ pfRun[r].pc = "snapshot"
        /\ m \in found /\ found \subseteq Opened
        /\ pfRun' = [pfRun EXCEPT ![r].pc = "rows",
                                  ![r].rows = FrozenRows(m, found)]
        /\ RunsOnly

SnapshotUnavailable(r) ==
    /\ pfRun[r].pc = "snapshot"
    /\ PoolRunEnds(r)
    /\ RunsOnly

\* The row of a is done; the freeze ends with the last one.
RowDone(r, a) ==
    LET rest == DOMAIN pfRun[r].rows \ {a}
    IN  pfRun' = [pfRun EXCEPT ![r] =
          IF rest = {} THEN PoolRunIdle
          ELSE [@ EXCEPT !.pc = "rows", !.author = NoAuthor, !.read = "none",
                         !.rows = [b \in rest |-> pfRun[r].rows[b]]]]

\* upsertFrozenParticipant reads the row, the winner's before the others'.
UpsertReads(r, a) ==
    /\ pfRun[r].pc = "rows" /\ a \in DOMAIN pfRun[r].rows
    /\ pfRun[r].merger \in DOMAIN pfRun[r].rows => a = pfRun[r].merger
    /\ IF pfRow[a].st = "frozen" THEN RowDone(r, a)
       ELSE pfRun' = [pfRun EXCEPT ![r].pc = "upsert", ![r].author = a,
                                   ![r].read = pfRow[a].st]
    /\ RunsOnly

\* What is written to a row read before: an update goes by its id, an insert
\* that meets a row is swallowed.
Upserted(r, row) ==
    IF pfRun[r].read = "none" /\ pfRow[pfRun[r].author].st # "none"
    THEN pfRow ELSE [pfRow EXCEPT ![pfRun[r].author] = row]

UpsertWrites(r) ==
    LET a == pfRun[r].author
    IN  /\ pfRun[r].pc = "upsert"
        /\ pfRow' = Upserted(r, pfRun[r].rows[a])
        /\ pfDisturbed' = (pfDisturbed \/ pfRow'[a] # pfRun[r].rows[a])
        /\ RowDone(r, a)
        /\ UNCHANGED <<pfPrs, pfMerge>>

\* An error, which applyPool swallows, or the end of the process.
PoolRunDies(r) ==
    /\ pfRun[r].pc # "idle"
    /\ PoolRunEnds(r)
    /\ pfDisturbed' = (pfDisturbed \/ (Freezing(r) /\ BountyIsFrozen))
    /\ UNCHANGED <<pfPrs, pfMerge, pfRow>>
-----------------------------------------------------------------------------
(* ingestLiveRoster: a delivery about a pull request that is not merged      *)

Merged(a) == a \in Mergers /\ pfMerge[a] > 0

LiveBegins(r, a) ==
    /\ pfRun[r].pc = "idle"
    /\ a \in Opened /\ ~ Merged(a)
    /\ pfRun' = [pfRun EXCEPT ![r] = [PoolRunIdle EXCEPT !.pc = "live_check", !.author = a]]
    /\ RunsOnly

LiveChecks(r) ==
    /\ pfRun[r].pc = "live_check"
    /\ IF AlreadyFrozen THEN PoolRunEnds(r) ELSE PoolRunGoto(r, "live_read")
    /\ RunsOnly

\* upsertCandidate: a row frozen by now is left alone.
KeepsFrozen_Never(st) == FALSE
KeepsFrozen(st) == st = "frozen"

LiveReads(r) ==
    LET st == pfRow[pfRun[r].author].st
    IN  /\ pfRun[r].pc = "live_read"
        /\ IF KeepsFrozen(st) THEN PoolRunEnds(r)
           ELSE pfRun' = [pfRun EXCEPT ![r].pc = "live_write", ![r].read = st]
        /\ RunsOnly

LiveWrites(r) ==
    LET a == pfRun[r].author
    IN  /\ pfRun[r].pc = "live_write"
        /\ pfRow' = Upserted(r, Candidate)
        /\ pfDisturbed' = (pfDisturbed \/ (pfRow[a].st = "frozen" /\ pfRow' # pfRow))
        /\ PoolRunEnds(r)
        /\ UNCHANGED <<pfPrs, pfMerge>>
-----------------------------------------------------------------------------
(* GitHub                                                                   *)

OpenPr(a) ==
    /\ a \notin Opened
    /\ pfPrs' = Append(pfPrs, a)
    /\ UNCHANGED <<pfMerge, pfRow, pfRun, pfDisturbed>>

MergePr(m) ==
    /\ m \in Opened /\ pfMerge[m] = 0
    /\ pfMerge' = [pfMerge EXCEPT ![m] = Len(pfPrs)]
    /\ UNCHANGED <<pfPrs, pfRow, pfRun, pfDisturbed>>
-----------------------------------------------------------------------------
PoolStep(r) ==
    \/ \E m \in Mergers : FreezeBegins(r, m)
    \/ \E found \in SUBSET Authors : FreezeSnapshot(r, found)
    \/ \E a \in Authors : UpsertReads(r, a) \/ LiveBegins(r, a)
    \/ FreezeChecks(r) \/ SnapshotUnavailable(r) \/ UpsertWrites(r)
    \/ LiveChecks(r) \/ LiveReads(r) \/ LiveWrites(r) \/ PoolRunDies(r)

PoolNext ==
    \/ \E r \in PoolRuns : PoolStep(r)
    \/ \E a \in Authors : OpenPr(a)
    \/ \E m \in Mergers : MergePr(m)

PoolSpec == PoolInit /\ [][PoolNext]_pfVars
-----------------------------------------------------------------------------
(* Properties                                                               *)

FrozenAs(role) == {a \in Authors : pfRow[a].st = "frozen" /\ pfRow[a].role = role}
PoolShares ==
    LET share == [a \in Authors |-> pfRow[a].share]
    IN  MapThenSumSet(LAMBDA a : share[a], FrozenAs("pool"))

\* frozenSetConservesFace (lib/pool-invariants.ts) of the rows in the table:
\* a pool that was frozen without being disturbed has one winner, and fee,
\* winner and shares make up the face, whatever merges and deliveries follow.
FrozenSetConserves ==
    BountyIsFrozen /\ ~ pfDisturbed /\ (\A r \in PoolRuns : ~ Freezing(r)) =>
        LET n == Cardinality(FrozenAs("pool") \cup FrozenAs("overflow"))
        IN  \E w \in Authors :
              /\ FrozenAs("winner") = {w}
              /\ pfRow[w].share = WinnerAtomic(PoolFace, n, PoolFeeBps, PoolBps, PoolMaxPaid)
              /\ FeeAtomic(PoolFace, PoolFeeBps) + pfRow[w].share + PoolShares = PoolFace

\* A frozen share stays what it is: a row is changed only by a delivery that
\* had read it as a candidate before it was frozen (upsertCandidate,
\* upsertFrozenParticipant).
FrozenRowsStay ==
    [][\A a \in Authors : pfRow[a].st = "frozen" /\ pfRow'[a] # pfRow[a] =>
          \E r \in PoolRuns : /\ pfRun[r].pc \in {"upsert", "live_write"}
                              /\ pfRun[r].author = a
                              /\ pfRun[r].read = "candidate"]_pfVars

=============================================================================
