--------------------------- MODULE ServiceProofs ---------------------------
(***************************************************************************)
(* What is around the escrow, for any number of calls, keys, users and rows *)
(* and any limits: the request limit of a key (KeyRateLimit), the spend caps*)
(* and the idempotent calls (ApiAccess), what a user has chosen             *)
(* (UserAccount), whom a merge is credited to (AccountLinks), the posting and*)
(* editing of a draft (Posting), unsubscribes (ContactSync) and the outbox  *)
(* (EmailOutbox).                                                           *)
(***************************************************************************)
EXTENDS KeyRateLimit, ApiAccess, UserAccount, AccountLinks, Posting, ContactSync,
        EmailOutbox, SumProofs

-----------------------------------------------------------------------------
(* KeyRateLimit: the request limit holds for any number of calls, any limit,  *)
(* any window and any clocks                                                *)

\* A call that has been counted has a row, and only such a call is admitted:
\* that is why a count taken by any call sees all those admitted before it.
CountedHaveRows ==
    \A q \in Requests :
        rlCall[q].pc \in {"count", "running", "done"} => q \in rlLog

RateInv == RateTypeOK /\ CountedHaveRows /\ AdmittedWithinLimit

LEMMA FiniteCount ==
    ASSUME NEW S \in SUBSET Requests
    PROVE  IsFiniteSet(S) /\ Cardinality(S) \in Nat
  BY FS_Subset, FS_CardinalityType, RateAssumption

\* Where nothing new is admitted the limit holds as before.
LEMMA NoneAdmitted ==
    ASSUME RateInv, RateTypeOK', Admitted' \subseteq Admitted,
           \A q \in Admitted' : rlCall'[q].at = rlCall[q].at
    PROVE  AdmittedWithinLimit'
<1> SUFFICES ASSUME NEW t \in Ticks
             PROVE  Cardinality(AdmittedIn(t)') <= Limit
  BY DEF AdmittedWithinLimit
<1>1. AdmittedIn(t)' \subseteq AdmittedIn(t)
  BY DEF AdmittedIn
<1>2. AdmittedIn(t) \in SUBSET Requests /\ AdmittedIn(t)' \in SUBSET Requests
  BY DEF AdmittedIn, Admitted
<1>3. Cardinality(AdmittedIn(t)') <= Cardinality(AdmittedIn(t))
  BY <1>1, <1>2, FiniteCount, FS_Subset
<1>4. Cardinality(AdmittedIn(t)) <= Limit
  BY DEF RateInv, AdmittedWithinLimit
<1> QED
  BY <1>2, <1>3, <1>4, FiniteCount, RateAssumption

\* The calls of a window that an admitted call belongs to are among those it
\* has counted.
LEMMA AdmitKeepsLimit ==
    ASSUME RateInv, NEW q \in Requests, Admit(q), RateTypeOK'
    PROVE  AdmittedWithinLimit'
<1>1. /\ rlCall[q].pc = "count" /\ CountRequests(q) <= Limit
      /\ rlCall' = [rlCall EXCEPT ![q] = [rlCall[q] EXCEPT !.pc = "running"]]
      /\ rlCall \in [Requests -> RateCall]
  BY DEF Admit, RateGoto, RateInv, RateTypeOK
<1>2. /\ \A s \in Requests : rlCall'[s].at = rlCall[s].at
      /\ \A s \in Requests \ {q} : rlCall'[s] = rlCall[s]
      /\ \A s \in Requests : rlCall[s].at \in Nat
  BY <1>1, RateAssumption DEF RateCall, Ticks
<1> SUFFICES ASSUME NEW t \in Ticks
             PROVE  Cardinality(AdmittedIn(t)') <= Limit
  BY DEF AdmittedWithinLimit
<1>3. CASE rlCall[q].at \in t .. t + Window
  <2> DEFINE Seen == RowsSince(rlCall[q].at - Window)
  <2>1. ASSUME NEW s \in AdmittedIn(t)'
        PROVE  s \in Seen
    <3>1. s \in Requests /\ rlCall[s].at \in t .. t + Window
      BY <1>2, <2>1 DEF AdmittedIn, Admitted
    <3>2. s \in rlLog
      BY <1>1, <1>2, <2>1 DEF AdmittedIn, Admitted, RateInv, CountedHaveRows
    <3>3. rlCall[s].at >= rlCall[q].at - Window
      BY <1>2, <1>3, <3>1, RateAssumption DEF Ticks
    <3> QED
      BY <3>2, <3>3 DEF RowsSince
  <2>2. Seen \in SUBSET Requests /\ AdmittedIn(t)' \in SUBSET Requests
    BY DEF RowsSince, AdmittedIn, Admitted, RateInv, RateTypeOK
  <2>3. Cardinality(AdmittedIn(t)') <= Cardinality(Seen)
    BY <2>1, <2>2, FiniteCount, FS_Subset
  <2>4. Cardinality(Seen) <= Limit
    BY <1>1 DEF CountRequests
  <2> QED
    BY <2>2, <2>3, <2>4, FiniteCount, RateAssumption
<1>4. CASE rlCall[q].at \notin t .. t + Window
  <2>1. AdmittedIn(t)' = AdmittedIn(t)
    BY <1>1, <1>2, <1>4 DEF AdmittedIn, Admitted
  <2> QED
    BY <2>1 DEF RateInv, AdmittedWithinLimit
<1> QED
  BY <1>3, <1>4

LEMMA RateInitInv == RateInit => RateInv
<1> SUFFICES ASSUME RateInit
             PROVE  RateInv
  OBVIOUS
<1>1. RateTypeOK /\ CountedHaveRows
  BY RateAssumption DEF RateInit, RateTypeOK, RateCall, CountedHaveRows, Ticks
<1>2. ASSUME NEW t \in Ticks
      PROVE  Cardinality(AdmittedIn(t)) <= Limit
  <2>1. AdmittedIn(t) = {}
    BY DEF RateInit, AdmittedIn, Admitted
  <2> QED
    BY <2>1, FS_EmptySet, RateAssumption
<1> QED
  BY <1>1, <1>2 DEF RateInv, AdmittedWithinLimit

LEMMA RateNextInv == RateInv /\ [RateNext]_rlVars => RateInv'
<1> SUFFICES ASSUME RateInv, [RateNext]_rlVars
             PROVE  RateInv'
  OBVIOUS
<1>1. rlCall \in [Requests -> RateCall] /\ rlLog \subseteq Requests
  BY DEF RateInv, RateTypeOK
<1>2. ASSUME NEW q \in Requests, NEW t \in Ticks, ReadClock(q, t)
      PROVE  RateInv'
  <2>1. RateTypeOK' /\ CountedHaveRows'
    BY <1>1, <1>2 DEF ReadClock, RateTypeOK, RateCall, CountedHaveRows, RateInv
  <2>2. Admitted' \subseteq Admitted /\ \A s \in Admitted' : rlCall'[s].at = rlCall[s].at
    BY <1>1, <1>2 DEF ReadClock, Admitted
  <2> QED
    BY <2>1, <2>2, NoneAdmitted DEF RateInv
<1>3. ASSUME NEW q \in Requests, InsertRequest(q) \/ Refuse(q) \/ Finish(q) \/ Lose(q)
      PROVE  RateInv'
  <2>1. \E pc \in {"count", "refused", "done", "lost"} :
           rlCall' = [rlCall EXCEPT ![q] = [rlCall[q] EXCEPT !.pc = pc]]
    BY <1>3 DEF InsertRequest, Refuse, Finish, Lose, RateGoto
  <2>2. RateTypeOK'
    BY <1>1, <1>3, <2>1
       DEF InsertRequest, Refuse, Finish, Lose, RateTypeOK, RateCall
  <2>3. CountedHaveRows'
    BY <1>1, <1>3
       DEF InsertRequest, Refuse, Finish, Lose, RateGoto, RateCall, CountedHaveRows, RateInv
  <2>4. Admitted' \subseteq Admitted /\ \A s \in Admitted' : rlCall'[s].at = rlCall[s].at
    BY <1>1, <1>3
       DEF InsertRequest, Refuse, Finish, Lose, RateGoto, RateCall, Admitted
  <2> QED
    BY <2>2, <2>3, <2>4, NoneAdmitted DEF RateInv
<1>4. ASSUME NEW q \in Requests, Admit(q)
      PROVE  RateInv'
  <2>1. RateTypeOK' /\ CountedHaveRows'
    BY <1>1, <1>4 DEF Admit, RateGoto, RateTypeOK, RateCall, CountedHaveRows, RateInv
  <2> QED
    BY <1>4, <2>1, AdmitKeepsLimit DEF RateInv
<1>5. CASE UNCHANGED rlVars
  BY <1>5 DEF rlVars, RateInv, RateTypeOK, CountedHaveRows, AdmittedWithinLimit,
              AdmittedIn, Admitted
<1> QED
  BY <1>2, <1>3, <1>4, <1>5 DEF RateNext

\* Calls in flight and the log of their times keep their types, for any clocks and
\* any limit (enforceApiRateLimit).
LEMMA RateTypeCorrect == RateSpec => []RateTypeOK
<1>1. RateInv => RateTypeOK
  BY DEF RateInv
<1> QED
  BY <1>1, RateInitInv, RateNextInv, PTL DEF RateSpec

\* However the calls of several processes overlap, however far their clocks
\* are apart and whichever of them die, no window lets more calls of a key
\* through than its limit (runAuthed).
THEOREM LimitHolds == RateSpec => []AdmittedWithinLimit
<1>1. RateInv => AdmittedWithinLimit
  BY DEF RateInv
<1> QED
  BY <1>1, RateInitInv, RateNextInv, PTL DEF RateSpec
-----------------------------------------------------------------------------
(* ApiAccess: the daily cap and the idempotent calls                        *)

Working(q) == q.pc \in {"recheck", "settle", "deliver", "record"}

\* A call that has reserved is the only one with its row.
RowKnown(q) ==
    /\ q.pc # "idle" => q.key \in IdemKeys
    /\ Working(q) =>
         /\ q.row \in SpendRows
         /\ apiSpend[q.row].st = "reserved" /\ apiSpend[q.row].key = q.key
         /\ q.pc \in {"recheck", "settle"} => ~ apiSpend[q.row].moved
         /\ q.pc = "recheck" => ~ apiSpend[q.row].late

RowsKnown ==
    /\ \A c \in ApiCalls : RowKnown(apiCall[c])
    /\ \A c, d \in ApiCalls :
         c # d /\ Working(apiCall[c]) /\ Working(apiCall[d]) => apiCall[c].row # apiCall[d].row
    /\ \A i \in SpendRows : /\ apiSpend[i].day <= apiDay
                            /\ apiSpend[i].st = "none" => ~ apiSpend[i].moved

\* What has passed the second check on the day it is dated, and still counts.
Passed(day) ==
    {i \in SpendRows :
       /\ Counted(apiSpend[i]) /\ apiSpend[i].day = day /\ ~ apiSpend[i].late
       /\ \/ apiSpend[i].moved
          \/ \E c \in ApiCalls : apiCall[c].pc = "settle" /\ apiCall[c].row = i}

PassedWithinCap ==
    /\ apiKey.st = "none" => apiKey.daily = 0
    /\ \A day \in Days : SpendOf(Passed(day)) <= apiKey.daily

\* The stored answer of a key has not run out, and nothing has undone it.
Current(k) == apiIdem[k].used => apiIdem[k].live
Guarded(k) == k \notin apiHoles /\ Current(k)

CallsOf(k) == {c \in ApiCalls : apiCall[c].pc # "idle" /\ apiCall[c].key = k}

\* One call at a time has the key; it leaves a placeholder, which turns others
\* away; and once it has moved money nothing but its answer replaces that.
OneCallAtATime(k) ==
    /\ \A c, d \in CallsOf(k) : c = d
    /\ \A c \in CallsOf(k) :
         apiCall[c].pc # "save" => apiIdem[k].used /\ apiIdem[k].status = 0
    /\ \A i \in SpendRows : apiSpend[i].moved /\ apiSpend[i].key = k =>
         /\ apiIdem[k].used /\ apiIdem[k].status # 402
         /\ \A c \in CallsOf(k) :
              apiCall[c].pc \in {"deliver", "record", "store"} /\ apiCall[c].row = i
         /\ \A j \in SpendRows : apiSpend[j].moved /\ apiSpend[j].key = k => i = j

KeysGuarded ==
    /\ \A c \in ApiCalls : apiCall[c].pc # "idle" => apiCall[c].live = Current(apiCall[c].key)
    /\ \A i \in SpendRows : apiSpend[i].moved => apiSpend[i].key \in IdemKeys
    /\ \A k \in IdemKeys : Guarded(k) => OneCallAtATime(k)

ApiInv == ApiTypeOK /\ RowsKnown /\ PassedWithinCap /\ KeysGuarded
-----------------------------------------------------------------------------
LEMMA SpendIsSum ==
    ASSUME NEW rows
    PROVE  SpendOf(rows) = SumOf([i \in SpendRows |-> apiSpend[i].amount], rows)
  BY DEF SpendOf, SumOf

\* The sum over fewer rows of the same amounts is not greater.
LEMMA SpendLess ==
    ASSUME NEW f \in [SpendRows -> Nat], NEW g \in [SpendRows -> Nat],
           NEW S \in SUBSET SpendRows, NEW T \in SUBSET S, \A i \in T : g[i] = f[i]
    PROVE  SumOf(g, T) <= SumOf(f, S) /\ SumOf(f, S) \in Nat /\ SumOf(g, T) \in Nat
<1>1. IsFiniteSet(S) /\ IsFiniteSet(T)
  BY ApiAssumption, FS_Subset
<1>2. SumOf(g, T) = SumOf(f, T)
  BY <1>1, SumEqual
<1>3. SumOf(f, S) = SumOf(f, T) + SumOf(f, S \ T)
  BY <1>1, SumParts
<1>4. SumOf(f, T) \in Nat /\ SumOf(f, S \ T) \in Nat /\ SumOf(f, S) \in Nat
  <2>1. IsFiniteSet(S \ T)
    BY <1>1, FS_Subset
  <2>2. (\A i \in T : f[i] \in Nat) /\ (\A i \in S : f[i] \in Nat) /\ (\A i \in S \ T : f[i] \in Nat)
    OBVIOUS
  <2> QED
    BY <1>1, <2>1, <2>2, SumNat
<1> QED
  BY <1>2, <1>3, <1>4

Amounted == [i \in SpendRows |-> apiSpend[i].amount]

LEMMA AmountsTyped ==
    ASSUME apiSpend \in [SpendRows -> SpendRow]
    PROVE  Amounted \in [SpendRows -> Nat]
  BY DEF Amounted, SpendRow

\* What is within the cap stays so where nothing is added to it.
LEMMA CapKept ==
    ASSUME ApiTypeOK, ApiTypeOK', apiKey'.daily >= apiKey.daily, NEW S \in SUBSET SpendRows, SpendOf(S) <= apiKey.daily, NEW day,
           \A i \in Passed(day)' : i \in S /\ apiSpend'[i].amount = apiSpend[i].amount
    PROVE  SpendOf(Passed(day))' <= apiKey'.daily
<1>1. /\ Passed(day)' \in SUBSET S
      /\ \A i \in Passed(day)' : Amounted'[i] = Amounted[i]
  BY DEF Passed, Amounted
<1>2. Amounted \in [SpendRows -> Nat] /\ Amounted' \in [SpendRows -> Nat]
  BY DEF Amounted, ApiTypeOK, SpendRow
<1>3. /\ SumOf(Amounted', Passed(day)') <= SumOf(Amounted, S)
      /\ SumOf(Amounted, S) \in Nat /\ SumOf(Amounted', Passed(day)') \in Nat
  BY <1>1, <1>2, SpendLess
<1>4. SpendOf(S) = SumOf(Amounted, S)
  BY SpendIsSum DEF Amounted
<1>5. SpendOf(Passed(day))' = SumOf(Amounted', Passed(day)')
  BY DEF SpendOf, SumOf, MapThenSumSet, MapThenFoldSet, Amounted
<1>6. apiKey.daily \in Nat /\ apiKey'.daily \in Nat
  BY DEF ApiTypeOK
<1> QED
  BY <1>3, <1>4, <1>5, <1>6

\* A call goes on with its key, is answered, or ends; what it has paid with stays.
Advances(q, p) ==
    \/ p = q \/ p.pc = "idle"
    \/ /\ q.pc \notin {"idle", "save"} /\ p.pc # "save"
       /\ p.key = q.key /\ p.live = q.live
       /\ q.pc \in {"deliver", "record", "store"} =>
            p.pc \in {"deliver", "record", "store"} /\ p.row = q.row

LEMMA KeysKept ==
    ASSUME KeysGuarded, UNCHANGED <<apiIdem, apiHoles>>,
           \A c \in ApiCalls : Advances(apiCall[c], apiCall'[c]),
           \A i \in SpendRows : apiSpend'[i].moved =>
             apiSpend[i].moved /\ apiSpend'[i].key = apiSpend[i].key
    PROVE  KeysGuarded'
<1>1. \A c \in ApiCalls : apiCall'[c].pc # "idle" => apiCall'[c].live = Current(apiCall[c].key)'
  BY DEF KeysGuarded, Advances, Current
<1>2. \A i \in SpendRows : apiSpend'[i].moved => apiSpend'[i].key \in IdemKeys
  BY DEF KeysGuarded
<1>3. ASSUME NEW k \in IdemKeys, Guarded(k)'
      PROVE  OneCallAtATime(k)'
  <2>1. OneCallAtATime(k)
    BY <1>3 DEF KeysGuarded, Guarded, Current
  <2>2. \A c \in CallsOf(k)' : c \in CallsOf(k)
    BY DEF CallsOf, Advances
  <2>3. \A c, d \in CallsOf(k)' : c = d
    BY <2>1, <2>2 DEF OneCallAtATime
  <2>4. \A c \in CallsOf(k)' :
          apiCall'[c].pc # "save" => apiIdem'[k].used /\ apiIdem'[k].status = 0
    <3> TAKE c \in CallsOf(k)'
    <3>1. c \in CallsOf(k) /\ c \in ApiCalls /\ apiCall'[c].pc # "idle"
      BY <2>2 DEF CallsOf
    <3>2. apiCall'[c].pc # "save" => apiCall[c].pc # "save"
      BY <3>1 DEF Advances
    <3> QED
      BY <2>1, <3>1, <3>2 DEF OneCallAtATime
  <2>5. ASSUME NEW i \in SpendRows, apiSpend'[i].moved, apiSpend'[i].key = k
        PROVE  /\ apiIdem'[k].used /\ apiIdem'[k].status # 402
               /\ \A c \in CallsOf(k)' :
                    apiCall'[c].pc \in {"deliver", "record", "store"} /\ apiCall'[c].row = i
               /\ \A j \in SpendRows : apiSpend'[j].moved /\ apiSpend'[j].key = k => i = j
    <3>1. apiSpend[i].moved /\ apiSpend[i].key = k
      BY <2>5
    <3>2. \A c \in CallsOf(k)' :
            apiCall'[c].pc \in {"deliver", "record", "store"} /\ apiCall'[c].row = i
      <4> TAKE c \in CallsOf(k)'
      <4>1. c \in CallsOf(k) /\ c \in ApiCalls /\ apiCall'[c].pc # "idle"
        BY <2>2 DEF CallsOf
      <4>2. apiCall[c].pc \in {"deliver", "record", "store"} /\ apiCall[c].row = i
        BY <2>1, <3>1, <4>1 DEF OneCallAtATime
      <4> QED
        BY <4>1, <4>2 DEF Advances
    <3>3. \A j \in SpendRows : apiSpend'[j].moved /\ apiSpend'[j].key = k => i = j
      BY <2>1, <3>1 DEF OneCallAtATime
    <3> QED
      BY <2>1, <3>1, <3>2, <3>3 DEF OneCallAtATime
  <2> QED
    BY <2>3, <2>4, <2>5 DEF OneCallAtATime
<1> QED
  BY <1>1, <1>2, <1>3 DEF KeysGuarded
-----------------------------------------------------------------------------
\* The updates the steps make keep a row and a call in their types.
LEMMA IdemUpdate ==
    ASSUME NEW r \in IdemRow, NEW live \in BOOLEAN
    PROVE  [r EXCEPT !.live = live] \in IdemRow
  BY DEF IdemRow

LEMMA SpendUpdates ==
    ASSUME NEW r \in SpendRow, NEW b \in BOOLEAN
    PROVE  /\ \A st \in {"recorded", "failed"} : [r EXCEPT !.st = st] \in SpendRow
           /\ [r EXCEPT !.moved = b] \in SpendRow /\ [r EXCEPT !.late = b] \in SpendRow
  BY DEF SpendRow

LEMMA PaidUnseenTyped ==
    ASSUME NEW r \in SpendRow
    PROVE  PaidUnseen(r) \in SpendRow
  BY DEF SpendRow, PaidUnseen

LEMMA RowReplaced ==
    ASSUME NEW f \in [SpendRows -> SpendRow], NEW i, NEW r, i \in SpendRows => r \in SpendRow
    PROVE  [f EXCEPT ![i] = r] \in [SpendRows -> SpendRow]
  OBVIOUS

LEMMA CallUpdates ==
    ASSUME NEW q \in ApiCallRecord, NEW pc \in ApiPCs
    PROVE  /\ [q EXCEPT !.pc = pc] \in ApiCallRecord
           /\ \A status \in Statuses : [q EXCEPT !.pc = pc, !.status = status] \in ApiCallRecord
           /\ \A i \in SpendRows : [q EXCEPT !.pc = pc, !.row = i] \in ApiCallRecord
           /\ \A n \in Nat, gone \in BOOLEAN :
                [q EXCEPT !.pc = pc, !.amount = n, !.gone = gone] \in ApiCallRecord
  BY DEF ApiCallRecord

LEMMA LookUpCall ==
    ASSUME NEW q \in ApiCallRecord, NEW op \in PayOps \cup {"cancel"},
           NEW k \in IdemKeys, NEW body \in Nat, NEW pay \in BOOLEAN, NEW live \in BOOLEAN
    PROVE  [q EXCEPT !.pc = "save", !.op = op, !.key = k, !.body = body, !.pay = pay,
                     !.live = live] \in ApiCallRecord
  BY DEF ApiCallRecord, ApiPCs

LEMMA ApiTypeStep ==
    ASSUME ApiTypeOK, RowsKnown, [ApiNext]_apiVars
    PROVE  ApiTypeOK'
<1> USE ApiAssumption DEF Days
<1>0. /\ {"idle", "save", "quote", "reserve", "recheck", "settle", "deliver", "record",
          "store"} \subseteq ApiPCs
      /\ {0, 200, 400, 402} \subseteq Statuses
  BY DEF ApiPCs, Statuses
<1>1. ASSUME NEW c \in ApiCalls, ApiStep(c)
      PROVE  ApiTypeOK'
  <2> DEFINE q == apiCall[c]
  <2>0. q \in ApiCallRecord /\ NoCall \in ApiCallRecord
    BY DEF ApiTypeOK, ApiCallRecord, NoCall, ApiPCs, Statuses, PayOps
  <2>1. ASSUME NEW op \in PayOps \cup {"cancel"}, NEW k \in IdemKeys,
               NEW body \in TopUps \cup {0}, NEW pay \in BOOLEAN, LookUp(c, op, k, body, pay)
        PROVE  ApiTypeOK'
    <3>1. [NoCall EXCEPT !.pc = "save", !.op = op, !.key = k, !.body = body, !.pay = pay,
                         !.live = apiIdem[k].used => apiIdem[k].live] \in ApiCallRecord
      <4> DEFINE live == apiIdem[k].used => apiIdem[k].live
      <4>1. body \in Nat
        BY ApiAssumption
      <4>2. live \in BOOLEAN
        OBVIOUS
      <4> HIDE DEF live
      <4>3. [NoCall EXCEPT !.pc = "save", !.op = op, !.key = k, !.body = body, !.pay = pay,
                           !.live = live] \in ApiCallRecord
        BY <2>0, <4>1, <4>2, LookUpCall, Zenon
      <4> QED
        BY <4>3 DEF live
    <3> QED
      BY <2>1, <3>1 DEF LookUp, ApiTypeOK
  <2>2. ASSUME NEW status \in Statuses, q.key \in IdemKeys, SaveIdempotency(q, status)
        PROVE  apiIdem' \in [IdemKeys -> IdemRow]
    <3>1. [used |-> TRUE, op |-> q.op, amount |-> q.body, status |-> status,
           live |-> q.live] \in IdemRow
      BY <2>0 DEF ApiCallRecord, IdemRow
    <3> QED
      BY <2>2, <3>1 DEF SaveIdempotency, ApiTypeOK
  <2>3. ASSUME NEW pc \in ApiPCs, CallGoto(c, pc)
        PROVE  apiCall' \in [ApiCalls -> ApiCallRecord]
    BY <2>3, CallUpdates DEF CallGoto, ApiTypeOK
  <2>4. ASSUME NEW status \in Statuses, Respond(c, status)
        PROVE  apiCall' \in [ApiCalls -> ApiCallRecord]
    <3>1. [q EXCEPT !.pc = "store", !.status = status] \in ApiCallRecord
      BY <1>0, <2>0, CallUpdates
    <3>2. apiCall' = [apiCall EXCEPT ![c] = [q EXCEPT !.pc = "store", !.status = status]]
      BY <2>4 DEF Respond, ApiTypeOK
    <3> QED
      BY <3>1, <3>2 DEF ApiTypeOK
  <2>5. ASSUME NEW st \in {"recorded", "failed"}, SetSpend(q.row, st)
        PROVE  apiSpend' \in [SpendRows -> SpendRow]
    BY <2>5, SpendUpdates DEF SetSpend, ApiTypeOK
  <2>6. ASSUME Hangup(c)
        PROVE  apiCall' \in [ApiCalls -> ApiCallRecord]
    BY <2>0, <2>6 DEF Hangup, ApiTypeOK
  <2>7. q.pc # "idle" => q.key \in IdemKeys
    BY DEF RowsKnown, RowKnown
  <2>8. CASE SavePlaceholder(c)
    BY <1>0, <2>2, <2>3, <2>7, <2>8 DEF SavePlaceholder, ApiTypeOK
  <2>9. CASE Quote(c)
    <3>1. AmountOf(q) \in Nat
      BY <2>0 DEF AmountOf, ApiCallRecord
    <3>2. \/ Respond(c, 400) \/ Respond(c, 402)
          \/ apiCall' = [apiCall EXCEPT ![c].pc = "reserve", ![c].amount = AmountOf(q),
                                        ![c].gone = apiBounty.gone]
      BY <2>9 DEF Quote
    <3>3. apiBounty.gone \in BOOLEAN
      BY DEF ApiTypeOK
    <3>4. [q EXCEPT !.pc = "reserve", !.amount = AmountOf(q), !.gone = apiBounty.gone]
            \in ApiCallRecord
      <4>1. \A n \in Nat, gone \in BOOLEAN :
               [q EXCEPT !.pc = "reserve", !.amount = n, !.gone = gone] \in ApiCallRecord
        <5>1. "reserve" \in ApiPCs /\ q \in ApiCallRecord
          BY <1>0, <2>0
        <5> HIDE DEF q
        <5> QED
          BY <5>1, CallUpdates, Zenon
      <4> DEFINE amount == AmountOf(q)
                 hold == apiBounty.gone
      <4>2. amount \in Nat /\ hold \in BOOLEAN
        BY <3>1, <3>3
      <4> HIDE DEF q, amount, hold
      <4>3. [q EXCEPT !.pc = "reserve", !.amount = amount, !.gone = hold] \in ApiCallRecord
        BY <4>1, <4>2
      <4> QED
        BY <4>3 DEF amount, hold
    <3>5. apiCall' \in [ApiCalls -> ApiCallRecord]
      <4>1. CASE Respond(c, 400) \/ Respond(c, 402)
        BY <1>0, <2>4, <4>1
      <4>2. CASE apiCall' = [apiCall EXCEPT ![c].pc = "reserve", ![c].amount = AmountOf(q),
                                            ![c].gone = apiBounty.gone]
        <5>1. apiCall' = [apiCall EXCEPT ![c] =
                 [q EXCEPT !.pc = "reserve", !.amount = AmountOf(q), !.gone = apiBounty.gone]]
          BY <4>2 DEF ApiTypeOK
        <5> QED
          BY <3>4, <5>1 DEF ApiTypeOK
      <4> QED
        BY <3>2, <4>1, <4>2
    <3> QED
      BY <2>9, <3>5 DEF Quote, ApiTypeOK
  <2>10. CASE CancelDraft(c)
    BY <1>0, <2>4, <2>10 DEF CancelDraft, ApiTypeOK
  <2>11. ASSUME NEW i \in SpendRows, Reserve(c, i)
         PROVE  ApiTypeOK'
    <3>1. [st |-> "reserved", key |-> q.key, amount |-> q.amount, day |-> apiDay,
           moved |-> FALSE, late |-> FALSE] \in SpendRow
      BY <2>0 DEF ApiCallRecord, SpendRow, ApiTypeOK
    <3> QED
      <4>1. [q EXCEPT !.pc = "recheck", !.row = i] \in ApiCallRecord
        BY <1>0, <2>0, CallUpdates
      <4>2. apiCall' = [apiCall EXCEPT ![c] = [q EXCEPT !.pc = "recheck", !.row = i]]
        BY <2>11 DEF Reserve, ApiTypeOK
      <4>3. apiCall' \in [ApiCalls -> ApiCallRecord]
        BY <4>1, <4>2 DEF ApiTypeOK
      <4>4. apiSpend' \in [SpendRows -> SpendRow]
        BY <2>11, <3>1 DEF Reserve, ApiTypeOK
      <4> QED
        BY <2>11, <4>3, <4>4 DEF Reserve, ApiTypeOK
  <2>12. CASE Recheck(c)
    <3>1. [apiSpend EXCEPT ![q.row].late = apiDay > apiSpend[q.row].day]
            \in [SpendRows -> SpendRow]
      <4>1. (apiDay > apiSpend[q.row].day) \in BOOLEAN
        OBVIOUS
      <4> QED
        BY <4>1, SpendUpdates DEF ApiTypeOK
    <3> QED
      BY <1>0, <2>3, <2>4, <2>5, <2>12, <3>1 DEF Recheck, ApiTypeOK
  <2>13. CASE SettlePayment(c)
    <3>1. [apiSpend EXCEPT ![q.row].moved = TRUE] \in [SpendRows -> SpendRow]
      BY SpendUpdates DEF ApiTypeOK
    <3> QED
      BY <1>0, <2>3, <2>13, <3>1 DEF SettlePayment, ApiTypeOK
  <2>14. CASE DeliverPayment(c)
    BY <1>0, <2>3, <2>14 DEF DeliverPayment, ApiTypeOK
  <2>15. CASE InboundOnly(c) \/ HeldForReview(c)
    <3>1. CASE InboundOnly(c)
      BY <1>0, <2>4, <2>5, <3>1 DEF InboundOnly, ApiTypeOK
    <3>2. CASE HeldForReview(c)
      BY <1>0, <2>4, <2>5, <3>2 DEF HeldForReview, ApiTypeOK
    <3> QED
      BY <2>15, <3>1, <3>2
  <2>16. ASSUME NEW status \in {400, 402}, PaymentRefused(c, status) \/ DeliveryRefused(c, status)
         PROVE  ApiTypeOK'
    BY <1>0, <2>4, <2>5, <2>16 DEF PaymentRefused, DeliveryRefused, ApiTypeOK
  <2>17. CASE RecordSpend(c) \/ RecordSpendFails(c)
    BY <1>0, <2>4, <2>5, <2>17 DEF RecordSpend, RecordSpendFails, ApiTypeOK
  <2>18. CASE StoreResponse(c)
    <3>1. apiIdem' \in [IdemKeys -> IdemRow] /\ apiCall' \in [ApiCalls -> ApiCallRecord]
      BY <2>0, <2>2, <2>6, <2>7, <2>18 DEF StoreResponse, ApiCallRecord, ApiPCs
    <3>2. apiHoles' \subseteq IdemKeys
      BY <2>7, <2>18 DEF StoreResponse, ApiTypeOK
    <3> QED
      BY <2>18, <3>1, <3>2 DEF StoreResponse, ApiTypeOK
  <2>19. CASE CallDies(c)
    BY <2>6, <2>19 DEF CallDies, ApiTypeOK
  <2>20. ASSUME NEW status \in {400, 402}, AnswerLost(c, status)
         PROVE  ApiTypeOK'
    <3>1. /\ apiSpend \in [SpendRows -> SpendRow]
          /\ apiSpend' = [apiSpend EXCEPT ![q.row] = PaidUnseen(apiSpend[q.row])]
      BY <2>20 DEF AnswerLost, ApiTypeOK
    <3>2. ASSUME NEW i \in SpendRows
          PROVE  PaidUnseen(apiSpend[i]) \in SpendRow
      BY <3>1, PaidUnseenTyped
    <3>3. apiSpend' \in [SpendRows -> SpendRow]
      <4> DEFINE new == PaidUnseen(apiSpend[q.row])
                 row == q.row
      <4>1. row \in SpendRows => new \in SpendRow
        BY <3>2
      <4>2. apiSpend' = [apiSpend EXCEPT ![row] = new]
        BY <3>1
      <4> HIDE DEF new, row
      <4>3. [apiSpend EXCEPT ![row] = new] \in [SpendRows -> SpendRow]
        BY <3>1, <4>1, RowReplaced
      <4> QED
        BY <4>2, <4>3
    <3>4. apiCall' \in [ApiCalls -> ApiCallRecord]
      BY <1>0, <2>4, <2>20 DEF AnswerLost
    <3> QED
      BY <2>20, <3>3, <3>4 DEF AnswerLost, ApiTypeOK
  <2> QED
    BY <1>1, <2>1, <2>8, <2>9, <2>10, <2>11, <2>12, <2>13, <2>14, <2>15, <2>16, <2>17,
       <2>18, <2>19, <2>20 DEF ApiStep
<1>2. ASSUME NEW perTx \in 1 .. PerTxCeiling, NEW daily \in 1 .. DailyCeiling,
             CreateApiKey(perTx, daily)
      PROVE  ApiTypeOK'
  BY <1>2 DEF CreateApiKey, ApiTypeOK
<1>3. CASE RevokeApiKey
  BY <1>3 DEF RevokeApiKey, ApiTypeOK
<1>4. CASE DeleteBounty
  BY <1>4 DEF DeleteBounty, ApiTypeOK
<1>5. CASE Midnight
  BY <1>5 DEF Midnight, ApiTypeOK
<1>6. ASSUME NEW k \in IdemKeys, IdempotencyExpires(k)
      PROVE  ApiTypeOK'
  BY <1>6, IdemUpdate DEF IdempotencyExpires, ApiTypeOK
<1>7. CASE UNCHANGED apiVars
  BY <1>7 DEF apiVars, ApiTypeOK
<1> QED
  BY <1>1, <1>2, <1>3, <1>4, <1>5, <1>6, <1>7 DEF ApiNext
-----------------------------------------------------------------------------
\* A step of one call, which touches no row but the one it has reserved.
LEMMA RowsKept ==
    ASSUME ApiTypeOK, RowsKnown, UNCHANGED apiDay, NEW c \in ApiCalls,
           \A d \in ApiCalls \ {c} : apiCall'[d] = apiCall[d],
           \A i \in SpendRows :
             \/ apiSpend'[i] = apiSpend[i]
             \/ /\ Working(apiCall[c]) /\ i = apiCall[c].row
                /\ apiSpend'[i].day = apiSpend[i].day /\ apiSpend'[i].st # "none",
           RowKnown(apiCall[c])',
           Working(apiCall[c])' => Working(apiCall[c]) /\ apiCall'[c].row = apiCall[c].row
    PROVE  RowsKnown'
<1>1. ASSUME NEW d \in ApiCalls, d # c
      PROVE  RowKnown(apiCall[d])'
  <2>1. apiCall'[d] = apiCall[d] /\ RowKnown(apiCall[d])
    BY <1>1 DEF RowsKnown
  <2>2. Working(apiCall[d]) => apiSpend'[apiCall[d].row] = apiSpend[apiCall[d].row]
    BY <1>1, <2>1 DEF RowsKnown, RowKnown
  <2> QED
    BY <2>1, <2>2 DEF RowKnown, Working
<1>2. \A d, e \in ApiCalls :
        d # e /\ Working(apiCall[d])' /\ Working(apiCall[e])' => apiCall'[d].row # apiCall'[e].row
  BY DEF RowsKnown, Working
<1>3. ASSUME NEW i \in SpendRows
      PROVE  apiSpend'[i].day <= apiDay' /\ (apiSpend'[i].st = "none" => ~ apiSpend'[i].moved)
  BY DEF RowsKnown
<1> QED
  BY <1>1, <1>2, <1>3 DEF RowsKnown

LEMMA RowsStep ==
    ASSUME ApiTypeOK, RowsKnown, [ApiNext]_apiVars
    PROVE  RowsKnown'
<1>1. ASSUME NEW c \in ApiCalls, ApiStep(c)
      PROVE  RowsKnown'
  <2> DEFINE q == apiCall[c]
  <2>0. RowKnown(q) /\ apiCall \in [ApiCalls -> ApiCallRecord] /\ apiSpend \in [SpendRows -> SpendRow]
    BY DEF RowsKnown, ApiTypeOK
  <2>1. ASSUME NEW op, NEW k \in IdemKeys, NEW body, NEW pay, LookUp(c, op, k, body, pay)
        PROVE  RowsKnown'
    <3>1. RowKnown(q)' /\ ~ Working(q)'
      BY <2>0, <2>1 DEF LookUp, NoCall, RowKnown, Working, ApiCallRecord
    <3> QED
      BY <2>0, <2>1, <3>1, RowsKept DEF LookUp
  <2>2. ASSUME NEW pc, CallGoto(c, pc), ~ Working(q), pc \notin {"recheck", "settle", "deliver", "record"},
               UNCHANGED <<apiSpend, apiDay>>, q.pc # "idle"
        PROVE  RowsKnown'
    <3>1. RowKnown(q)' /\ ~ Working(q)'
      BY <2>0, <2>2 DEF CallGoto, RowKnown, Working, ApiCallRecord
    <3> QED
      BY <2>0, <2>2, <3>1, RowsKept DEF CallGoto
  <2>3. ASSUME NEW status, Respond(c, status), UNCHANGED <<apiSpend, apiDay>>, q.pc # "idle"
        PROVE  RowsKnown'
    <3>1. RowKnown(q)' /\ ~ Working(q)'
      BY <2>0, <2>3 DEF Respond, RowKnown, Working, ApiCallRecord
    <3> QED
      BY <2>0, <2>3, <3>1, RowsKept DEF Respond
  <2>4. ASSUME NEW status, Respond(c, status), UNCHANGED apiDay, NEW st \in {"failed", "recorded"},
               SetSpend(q.row, st), Working(q)
        PROVE  RowsKnown'
    <3>1. RowKnown(q)' /\ ~ Working(q)'
      BY <2>0, <2>4 DEF Respond, RowKnown, Working, ApiCallRecord
    <3>2. \A i \in SpendRows :
             \/ apiSpend'[i] = apiSpend[i]
             \/ /\ i = q.row
                /\ apiSpend'[i].day = apiSpend[i].day /\ apiSpend'[i].st # "none"
      BY <2>0, <2>4 DEF SetSpend, SpendRow
    <3> QED
      BY <2>0, <2>4, <3>1, <3>2, RowsKept DEF Respond
  <2>5. ASSUME Hangup(c), UNCHANGED <<apiSpend, apiDay>>
        PROVE  RowsKnown'
    <3>1. RowKnown(q)' /\ ~ Working(q)'
      BY <2>0, <2>5 DEF Hangup, NoCall, RowKnown, Working
    <3> QED
      BY <2>0, <2>5, <3>1, RowsKept DEF Hangup
  <2>6. CASE SavePlaceholder(c)
    BY <2>2, <2>6 DEF SavePlaceholder, Working
  <2>7. CASE Quote(c)
    <3>1. CASE Respond(c, 400) \/ Respond(c, 402)
      BY <2>3, <2>7, <3>1 DEF Quote
    <3>2. CASE apiCall' = [apiCall EXCEPT ![c].pc = "reserve", ![c].amount = AmountOf(q),
                                          ![c].gone = apiBounty.gone]
      <4>1. RowKnown(q)' /\ ~ Working(q)'
        BY <2>0, <2>7, <3>2 DEF Quote, RowKnown, Working, ApiCallRecord
      <4> QED
        BY <2>0, <2>7, <3>2, <4>1, RowsKept DEF Quote
    <3> QED
      BY <2>7, <3>1, <3>2 DEF Quote
  <2>8. CASE CancelDraft(c)
    BY <2>3, <2>8 DEF CancelDraft
  <2>9. ASSUME NEW i \in SpendRows, Reserve(c, i)
        PROVE  RowsKnown'
    <3>1. /\ apiCall'[c].pc = "recheck" /\ apiCall'[c].row = i /\ apiCall'[c].key = q.key
          /\ \A d \in ApiCalls \ {c} : apiCall'[d] = apiCall[d]
          /\ apiSpend'[i] = [st |-> "reserved", key |-> q.key, amount |-> q.amount,
                             day |-> apiDay, moved |-> FALSE, late |-> FALSE]
          /\ \A j \in SpendRows \ {i} : apiSpend'[j] = apiSpend[j]
          /\ apiSpend[i].st = "none" /\ q.pc = "reserve" /\ UNCHANGED apiDay
      BY <2>0, <2>9 DEF Reserve, ApiCallRecord
    <3>2. \A d \in ApiCalls : Working(apiCall[d]) => apiCall[d].row # i
      BY <3>1 DEF RowsKnown, RowKnown
    <3>3. RowKnown(q)'
      BY <2>0, <3>1 DEF RowKnown
    <3>4. \A d \in ApiCalls \ {c} : RowKnown(apiCall[d])'
      BY <3>1, <3>2 DEF RowsKnown, RowKnown, Working
    <3>5. \A d, e \in ApiCalls :
            d # e /\ Working(apiCall[d])' /\ Working(apiCall[e])' => apiCall'[d].row # apiCall'[e].row
      BY <3>1, <3>2 DEF RowsKnown, Working
    <3>6. \A j \in SpendRows :
            apiSpend'[j].day <= apiDay' /\ (apiSpend'[j].st = "none" => ~ apiSpend'[j].moved)
      BY <3>1 DEF RowsKnown, ApiTypeOK, Days
    <3> QED
      BY <3>3, <3>4, <3>5, <3>6 DEF RowsKnown
  <2>10. CASE Recheck(c)
    <3>1. CASE SetSpend(q.row, "failed") /\ Respond(c, 400)
      BY <2>4, <2>10, <3>1 DEF Recheck, Working
    <3>2. CASE /\ apiSpend' = [apiSpend EXCEPT ![q.row].late = apiDay > apiSpend[q.row].day]
               /\ CallGoto(c, "settle")
      <4>1. /\ apiCall'[c] = [q EXCEPT !.pc = "settle"]
            /\ apiSpend'[q.row] = [apiSpend[q.row] EXCEPT !.late = apiDay > apiSpend[q.row].day]
        BY <2>0, <2>10, <3>2 DEF Recheck, CallGoto, RowKnown, Working
      <4>2. /\ apiCall'[c].pc = "settle" /\ apiCall'[c].row = q.row /\ apiCall'[c].key = q.key
            /\ apiSpend'[q.row].st = apiSpend[q.row].st /\ apiSpend'[q.row].key = apiSpend[q.row].key
            /\ apiSpend'[q.row].moved = apiSpend[q.row].moved
            /\ apiSpend'[q.row].day = apiSpend[q.row].day
        BY <2>0, <2>10, <4>1 DEF Recheck, ApiCallRecord, SpendRow, RowKnown, Working
      <4>3. RowKnown(q)' /\ Working(q)'
        BY <2>0, <2>10, <4>2 DEF Recheck, RowKnown, Working
      <4> QED
        BY <2>0, <2>10, <3>2, <4>2, <4>3, RowsKept DEF Recheck, CallGoto, RowKnown, Working
    <3> QED
      BY <2>10, <3>1, <3>2 DEF Recheck
  <2>11. CASE SettlePayment(c)
    <3>1. /\ apiCall'[c] = [q EXCEPT !.pc = "deliver"]
          /\ apiSpend'[q.row] = [apiSpend[q.row] EXCEPT !.moved = TRUE]
      BY <2>0, <2>11 DEF SettlePayment, CallGoto, RowKnown, Working
    <3>2. /\ apiCall'[c].pc = "deliver" /\ apiCall'[c].row = q.row /\ apiCall'[c].key = q.key
          /\ apiSpend'[q.row].st = apiSpend[q.row].st /\ apiSpend'[q.row].key = apiSpend[q.row].key
          /\ apiSpend'[q.row].day = apiSpend[q.row].day
      BY <2>0, <2>11, <3>1 DEF SettlePayment, ApiCallRecord, SpendRow, RowKnown, Working
    <3>3. RowKnown(q)' /\ Working(q)'
      BY <2>0, <2>11, <3>2 DEF SettlePayment, RowKnown, Working
    <3> QED
      BY <2>0, <2>11, <3>2, <3>3, RowsKept DEF SettlePayment, CallGoto, RowKnown, Working
  <2>12. CASE DeliverPayment(c)
    <3>1. RowKnown(q)' /\ Working(q)' /\ Working(q) /\ apiCall'[c].row = q.row
      BY <2>0, <2>12 DEF DeliverPayment, CallGoto, RowKnown, Working, ApiCallRecord
    <3> QED
      BY <2>0, <2>12, <3>1, RowsKept DEF DeliverPayment, CallGoto
  <2>13. CASE InboundOnly(c) \/ HeldForReview(c)
    BY <2>4, <2>13 DEF InboundOnly, HeldForReview, Working
  <2>14. ASSUME NEW status \in {400, 402}, PaymentRefused(c, status) \/ DeliveryRefused(c, status)
         PROVE  RowsKnown'
    BY <2>4, <2>14 DEF PaymentRefused, DeliveryRefused, Working
  <2>15. CASE RecordSpend(c) \/ RecordSpendFails(c)
    BY <2>4, <2>15 DEF RecordSpend, RecordSpendFails, Working
  <2>17. ASSUME NEW status \in {400, 402}, AnswerLost(c, status)
         PROVE  RowsKnown'
    <3>1. RowKnown(q)' /\ ~ Working(q)' /\ Working(q)
      BY <2>0, <2>17 DEF AnswerLost, Respond, RowKnown, Working, ApiCallRecord
    <3>2. \A i \in SpendRows :
             \/ apiSpend'[i] = apiSpend[i]
             \/ /\ i = q.row
                /\ apiSpend'[i].day = apiSpend[i].day /\ apiSpend'[i].st # "none"
      BY <2>0, <2>17 DEF AnswerLost, PaidUnseen, SpendRow
    <3> QED
      BY <2>0, <2>17, <3>1, <3>2, RowsKept DEF AnswerLost, Respond
  <2>16. CASE StoreResponse(c) \/ CallDies(c)
    BY <2>5, <2>16 DEF StoreResponse, CallDies
  <2> QED
    BY <1>1, <2>1, <2>6, <2>7, <2>8, <2>9, <2>10, <2>11, <2>12, <2>13, <2>14, <2>15, <2>16,
     <2>17 DEF ApiStep
<1>2. CASE UNCHANGED <<apiSpend, apiCall, apiDay>>
  BY <1>2 DEF RowsKnown, RowKnown, Working
<1>3. CASE Midnight
  BY <1>3 DEF Midnight, RowsKnown, RowKnown, Working, ApiTypeOK, Days, SpendRow
<1> QED
  BY <1>1, <1>2, <1>3 DEF ApiNext, CreateApiKey, RevokeApiKey, DeleteBounty,
     IdempotencyExpires, apiVars
-----------------------------------------------------------------------------
\* Steps after which no payment has passed the second check that had not before.
LEMMA NothingPasses ==
    ASSUME ApiTypeOK, ApiTypeOK', PassedWithinCap, apiKey'.daily >= apiKey.daily,
           apiKey'.st = "none" => UNCHANGED apiKey,
           \A c \in ApiCalls : apiCall'[c].pc = "settle" =>
             apiCall[c].pc = "settle" /\ apiCall'[c].row = apiCall[c].row,
           \A i \in SpendRows : apiSpend'[i] # apiSpend[i] =>
             \/ ~ Counted(apiSpend'[i])
             \/ /\ Counted(apiSpend[i]) /\ apiSpend'[i].day = apiSpend[i].day
                /\ apiSpend'[i].late = apiSpend[i].late /\ apiSpend'[i].amount = apiSpend[i].amount
                /\ apiSpend'[i].moved => i \in Passed(apiSpend[i].day) \/ apiSpend[i].late
             \/ /\ ~ apiSpend'[i].moved
                /\ \A c \in ApiCalls : apiCall'[c].pc = "settle" => apiCall'[c].row # i
    PROVE  PassedWithinCap'
<1>1. ASSUME NEW day \in Days
      PROVE  SpendOf(Passed(day))' <= apiKey'.daily
  <2>1. Passed(day) \in SUBSET SpendRows /\ SpendOf(Passed(day)) <= apiKey.daily
    BY DEF Passed, PassedWithinCap
  <2>2. ASSUME NEW i \in Passed(day)'
        PROVE  i \in Passed(day) /\ apiSpend'[i].amount = apiSpend[i].amount
    <3>1. /\ i \in SpendRows /\ Counted(apiSpend'[i]) /\ apiSpend'[i].day = day
          /\ ~ apiSpend'[i].late
          /\ \/ apiSpend'[i].moved
             \/ \E c \in ApiCalls : apiCall'[c].pc = "settle" /\ apiCall'[c].row = i
      BY <2>2 DEF Passed, Counted
    <3>2. CASE apiSpend'[i] = apiSpend[i]
      BY <3>1, <3>2 DEF Passed
    <3>3. CASE apiSpend'[i] # apiSpend[i]
      BY <3>1, <3>3 DEF Passed
    <3> QED
      BY <3>2, <3>3
  <2> QED
    BY <2>1, <2>2, CapKept
<1> QED
  BY <1>1 DEF PassedWithinCap

LEMMA CapStep ==
    ASSUME ApiTypeOK, ApiTypeOK', RowsKnown, PassedWithinCap, [ApiNext]_apiVars
    PROVE  PassedWithinCap'
<1>1. ASSUME NEW c \in ApiCalls, ApiStep(c)
      PROVE  PassedWithinCap'
  <2> DEFINE q == apiCall[c]
  <2>0. /\ RowKnown(q) /\ apiKey.daily \in Nat
        /\ apiCall \in [ApiCalls -> ApiCallRecord] /\ apiSpend \in [SpendRows -> SpendRow]
    BY DEF RowsKnown, ApiTypeOK
  <2>1. ASSUME UNCHANGED <<apiSpend, apiKey>>, apiCall'[c].pc # "settle",
               \A d \in ApiCalls \ {c} : apiCall'[d] = apiCall[d]
        PROVE  PassedWithinCap'
    BY <2>0, <2>1, NothingPasses
  <2>2. ASSUME NEW op, NEW k \in IdemKeys, NEW body, NEW pay, LookUp(c, op, k, body, pay)
        PROVE  PassedWithinCap'
    <3>1. apiCall'[c].pc # "settle" /\ \A d \in ApiCalls \ {c} : apiCall'[d] = apiCall[d]
      BY <2>0, <2>2 DEF LookUp, NoCall
    <3> QED
      BY <2>1, <2>2, <3>1 DEF LookUp
  <2>3. CASE \/ SavePlaceholder(c) \/ Quote(c) \/ CancelDraft(c) \/ DeliverPayment(c)
             \/ StoreResponse(c) \/ CallDies(c)
    <3>1. apiCall'[c].pc # "settle" /\ \A d \in ApiCalls \ {c} : apiCall'[d] = apiCall[d]
      BY <2>0, <2>3 DEF SavePlaceholder, Quote, CancelDraft, DeliverPayment, StoreResponse,
         CallDies, Hangup, NoCall, Respond, CallGoto, ApiCallRecord
    <3>2. UNCHANGED <<apiSpend, apiKey>>
      BY <2>3 DEF SavePlaceholder, Quote, CancelDraft, DeliverPayment, StoreResponse, CallDies
    <3> QED
      BY <2>1, <3>1, <3>2
  <2>4. ASSUME NEW status, Respond(c, status), UNCHANGED apiKey, NEW st \in {"failed", "recorded"},
               SetSpend(q.row, st), Working(q)
        PROVE  PassedWithinCap'
    <3>1. apiCall'[c].pc # "settle" /\ \A d \in ApiCalls \ {c} : apiCall'[d] = apiCall[d]
      BY <2>0, <2>4 DEF Respond, ApiCallRecord
    <3>2. q.row \in SpendRows /\ Counted(apiSpend[q.row])
      BY <2>0, <2>4 DEF RowKnown, Counted
    <3>3. apiSpend' = [apiSpend EXCEPT ![q.row] = [apiSpend[q.row] EXCEPT !.st = st]]
      BY <2>0, <2>4 DEF SetSpend
    <3>4. \A i \in SpendRows \ {q.row} : apiSpend'[i] = apiSpend[i]
      BY <2>0, <3>3
    <3>5. /\ apiSpend'[q.row].day = apiSpend[q.row].day
          /\ apiSpend'[q.row].late = apiSpend[q.row].late
          /\ apiSpend'[q.row].amount = apiSpend[q.row].amount
          /\ apiSpend'[q.row].moved = apiSpend[q.row].moved
      BY <2>0, <3>2, <3>3 DEF SpendRow
    <3>6. apiSpend'[q.row].moved => q.row \in Passed(apiSpend[q.row].day) \/ apiSpend[q.row].late
      BY <3>2, <3>5 DEF Passed
    <3> QED
      BY <2>0, <2>4, <3>1, <3>2, <3>4, <3>5, <3>6, NothingPasses
  <2>5. ASSUME NEW i \in SpendRows, Reserve(c, i)
        PROVE  PassedWithinCap'
    <3>1. /\ apiCall'[c].pc = "recheck" /\ \A d \in ApiCalls \ {c} : apiCall'[d] = apiCall[d]
          /\ ~ apiSpend'[i].moved /\ \A j \in SpendRows \ {i} : apiSpend'[j] = apiSpend[j]
          /\ apiSpend[i].st = "none" /\ UNCHANGED apiKey
      BY <2>0, <2>5 DEF Reserve, ApiCallRecord
    <3>2. \A d \in ApiCalls : apiCall'[d].pc = "settle" => apiCall'[d].row # i
      BY <3>1 DEF RowsKnown, RowKnown, Working
    <3> QED
      BY <2>0, <3>1, <3>2, NothingPasses
  <2>6. CASE Recheck(c)
    <3>1. CASE SetSpend(q.row, "failed") /\ Respond(c, 400)
      BY <2>4, <2>6, <3>1 DEF Recheck, Working
    <3>2. ASSUME apiSpend' = [apiSpend EXCEPT ![q.row].late = apiDay > apiSpend[q.row].day],
                 CallGoto(c, "settle"), ~ OpenSpend(apiDay) > apiKey.daily, NEW day \in Days
          PROVE  SpendOf(Passed(day))' <= apiKey'.daily
      <4>0. q.row \in SpendRows /\ q.pc = "recheck" /\ apiSpend[q.row].day <= apiDay
            /\ UNCHANGED apiKey /\ apiDay \in Days /\ apiSpend[q.row].day \in Days
        BY <2>0, <2>6 DEF Recheck, RowsKnown, RowKnown, Working, ApiTypeOK, SpendRow
      <4> DEFINE late == apiDay > apiSpend[q.row].day
      <4>1. /\ apiSpend'[q.row] = [apiSpend[q.row] EXCEPT !.late = late]
            /\ \A i \in SpendRows \ {q.row} : apiSpend'[i] = apiSpend[i]
        BY <2>0, <3>2, <4>0
      <4>2. /\ \A i \in SpendRows : /\ apiSpend'[i].amount = apiSpend[i].amount
                                    /\ apiSpend'[i].st = apiSpend[i].st
                                    /\ apiSpend'[i].day = apiSpend[i].day
                                    /\ apiSpend'[i].moved = apiSpend[i].moved
            /\ apiSpend'[q.row].late = late
        BY <2>0, <4>0, <4>1 DEF SpendRow
      <4>3. /\ apiCall'[c].row = q.row
            /\ \A d \in ApiCalls \ {c} : apiCall'[d] = apiCall[d]
        BY <2>0, <3>2 DEF CallGoto, ApiCallRecord
      <4>4. apiKey'.daily >= apiKey.daily
        BY <4>0 DEF ApiTypeOK
      <4>5. CASE day = apiDay
        <5> DEFINE S == {i \in SpendRows : Counted(apiSpend[i]) /\ apiSpend[i].day >= apiDay}
        <5>1. \A i \in Passed(day)' : i \in S /\ apiSpend'[i].amount = apiSpend[i].amount
          BY <4>0, <4>2, <4>5 DEF Passed, Counted, Days
        <5>2. SpendOf(S) = SumOf(Amounted, S)
          BY SpendIsSum DEF Amounted
        <5>3. SpendOf(S) \in Nat
          <6>1. Amounted \in [SpendRows -> Nat] /\ S \in SUBSET SpendRows
            BY <2>0, AmountsTyped
          <6> HIDE DEF S
          <6> QED
            BY <5>2, <6>1, SpendLess
        <5>4. SpendOf(S) <= apiKey.daily
          BY <3>2, <5>3 DEF OpenSpend, ApiTypeOK
        <5> HIDE DEF S
        <5>5. S \in SUBSET SpendRows
          BY DEF S
        <5> QED
          BY <4>4, <5>1, <5>4, <5>5, CapKept
      <4>6. CASE day # apiDay
        <5>1. Passed(day) \in SUBSET SpendRows /\ SpendOf(Passed(day)) <= apiKey.daily
          BY DEF Passed, PassedWithinCap
        <5>2. ASSUME NEW i \in Passed(day)'
              PROVE  i \in Passed(day) /\ apiSpend'[i].amount = apiSpend[i].amount
          <6>1. i \in SpendRows /\ i # q.row
            <7>1. /\ i \in SpendRows /\ apiSpend'[i].day = day /\ ~ apiSpend'[i].late
              BY <5>2 DEF Passed
            <7>2. i = q.row => apiSpend[q.row].day = day /\ ~ late
              BY <4>2, <7>1
            <7> QED
              BY <4>0, <4>6, <7>1, <7>2, ApiAssumption DEF Days
          <6> QED
            BY <4>1, <4>3, <5>2, <6>1 DEF Passed
        <5> QED
          BY <4>4, <5>1, <5>2, CapKept
      <4> QED
        BY <4>5, <4>6
    <3>3. UNCHANGED apiKey
      BY <2>6 DEF Recheck
    <3>4. ASSUME apiSpend' = [apiSpend EXCEPT ![q.row].late = apiDay > apiSpend[q.row].day],
                 CallGoto(c, "settle"), ~ OpenSpend(apiDay) > apiKey.daily
          PROVE  PassedWithinCap'
      <4>1. \A day \in Days : SpendOf(Passed(day))' <= apiKey'.daily
        BY <3>2, <3>4
      <4> QED
        BY <3>3, <4>1 DEF PassedWithinCap
    <3>5. CASE OpenSpend(apiDay) > apiKey.daily
      BY <2>6, <3>1, <3>5, Zenon DEF Recheck
    <3>6. CASE ~ OpenSpend(apiDay) > apiKey.daily
      BY <2>6, <3>4, <3>6, Zenon DEF Recheck
    <3> QED
      BY <3>5, <3>6
  <2>7. CASE SettlePayment(c)
    <3>1. /\ apiCall'[c].pc = "deliver" /\ \A d \in ApiCalls \ {c} : apiCall'[d] = apiCall[d]
          /\ q.row \in SpendRows /\ Counted(apiSpend[q.row]) /\ q.pc = "settle" /\ UNCHANGED apiKey
          /\ \A i \in SpendRows \ {q.row} : apiSpend'[i] = apiSpend[i]
          /\ apiSpend'[q.row] = [apiSpend[q.row] EXCEPT !.moved = TRUE]
      BY <2>0, <2>7 DEF SettlePayment, CallGoto, RowKnown, Working, Counted, ApiCallRecord
    <3>2. /\ apiSpend'[q.row].day = apiSpend[q.row].day
          /\ apiSpend'[q.row].late = apiSpend[q.row].late
          /\ apiSpend'[q.row].amount = apiSpend[q.row].amount
      BY <2>0, <3>1 DEF SpendRow
    <3>3. q.row \in Passed(apiSpend[q.row].day) \/ apiSpend[q.row].late
      BY <3>1 DEF Passed
    <3>4. \A d \in ApiCalls : apiCall'[d].pc = "settle" =>
             apiCall[d].pc = "settle" /\ apiCall'[d].row = apiCall[d].row
      BY <3>1
    <3>5. apiKey'.daily >= apiKey.daily
      BY <2>0, <3>1
    <3> HIDE DEF q
    <3> QED
      BY <3>1, <3>2, <3>3, <3>4, <3>5, NothingPasses
  <2>8. CASE InboundOnly(c) \/ HeldForReview(c)
    BY <2>4, <2>8 DEF InboundOnly, HeldForReview, Working
  <2>9. ASSUME NEW status \in {400, 402}, PaymentRefused(c, status) \/ DeliveryRefused(c, status)
        PROVE  PassedWithinCap'
    BY <2>4, <2>9 DEF PaymentRefused, DeliveryRefused, Working
  <2>10. CASE RecordSpend(c) \/ RecordSpendFails(c)
    BY <2>4, <2>10 DEF RecordSpend, RecordSpendFails, Working
  <2>11. ASSUME NEW status \in {400, 402}, AnswerLost(c, status)
         PROVE  PassedWithinCap'
    <3>1. /\ apiCall'[c].pc # "settle" /\ \A d \in ApiCalls \ {c} : apiCall'[d] = apiCall[d]
          /\ UNCHANGED apiKey
      BY <2>0, <2>11 DEF AnswerLost, Respond, ApiCallRecord
    <3>2. /\ \A i \in SpendRows \ {q.row} : apiSpend'[i] = apiSpend[i]
          /\ q.row \in SpendRows => ~ Counted(apiSpend'[q.row])
      BY <2>0, <2>11 DEF AnswerLost, PaidUnseen, SpendRow, Counted
    <3> QED
      BY <2>0, <3>1, <3>2, NothingPasses
  <2> QED
    BY <1>1, <2>2, <2>3, <2>5, <2>6, <2>7, <2>8, <2>9, <2>10, <2>11 DEF ApiStep
<1>2. ASSUME NEW perTx \in 1 .. PerTxCeiling, NEW daily \in 1 .. DailyCeiling,
             CreateApiKey(perTx, daily)
      PROVE  PassedWithinCap'
  <2>1. apiKey.daily = 0 /\ apiKey'.daily = daily /\ apiKey'.st # "none"
        /\ UNCHANGED <<apiSpend, apiCall>>
    BY <1>2 DEF CreateApiKey, PassedWithinCap
  <2> QED
    BY <2>1, NothingPasses, ApiAssumption
<1>3. CASE RevokeApiKey
  <2>1. apiKey'.daily = apiKey.daily /\ apiKey'.st # "none" /\ UNCHANGED <<apiSpend, apiCall>>
    BY <1>3 DEF RevokeApiKey, ApiTypeOK
  <2>2. apiKey.daily \in Nat
    BY DEF ApiTypeOK
  <2> QED
    BY <2>1, <2>2, NothingPasses
<1>4. CASE UNCHANGED <<apiKey, apiSpend, apiCall>>
  <2>1. apiKey.daily \in Nat
    BY DEF ApiTypeOK
  <2> QED
    BY <1>4, <2>1, NothingPasses
<1> QED
  BY <1>1, <1>2, <1>3, <1>4 DEF ApiNext, DeleteBounty, Midnight, IdempotencyExpires, apiVars
-----------------------------------------------------------------------------
\* A step of a call with another key.
LEMMA OtherKey ==
    ASSUME KeysGuarded, NEW k \in IdemKeys, NEW c \in ApiCalls,
           apiCall[c].pc # "idle" => apiCall[c].key # k,
           apiCall'[c].pc # "idle" => apiCall'[c].key # k,
           \A d \in ApiCalls \ {c} : apiCall'[d] = apiCall[d],
           apiIdem'[k] = apiIdem[k], apiHoles \subseteq apiHoles',
           \A i \in SpendRows : apiSpend'[i].moved /\ apiSpend'[i].key = k =>
             apiSpend[i].moved /\ apiSpend[i].key = k,
           Guarded(k)'
    PROVE  OneCallAtATime(k)'
<1>1. OneCallAtATime(k)
  BY DEF KeysGuarded, Guarded, Current
<1>2. \A d \in CallsOf(k)' : d \in CallsOf(k) /\ apiCall'[d] = apiCall[d]
  BY DEF CallsOf
<1> QED
  BY <1>1, <1>2 DEF OneCallAtATime

LEMMA KeysStep ==
    ASSUME ApiTypeOK, ApiTypeOK', RowsKnown, KeysGuarded, [ApiNext]_apiVars
    PROVE  KeysGuarded'
<1>1. ASSUME NEW c \in ApiCalls, ApiStep(c)
      PROVE  KeysGuarded'
  <2> DEFINE q == apiCall[c]
  <2>0. /\ RowKnown(q) /\ apiCall \in [ApiCalls -> ApiCallRecord]
        /\ apiSpend \in [SpendRows -> SpendRow] /\ apiIdem \in [IdemKeys -> IdemRow]
    BY DEF RowsKnown, ApiTypeOK
  <2>1. ASSUME UNCHANGED <<apiIdem, apiHoles>>, Advances(q, apiCall'[c]),
               \A d \in ApiCalls \ {c} : apiCall'[d] = apiCall[d],
               \A i \in SpendRows : apiSpend'[i].moved =>
                 apiSpend[i].moved /\ apiSpend'[i].key = apiSpend[i].key
        PROVE  KeysGuarded'
    <3>1. \A d \in ApiCalls : Advances(apiCall[d], apiCall'[d])
      BY <2>1 DEF Advances
    <3> QED
      BY <2>1, <3>1, KeysKept
  <2>2. CASE Quote(c) \/ CancelDraft(c) \/ DeliverPayment(c) \/ CallDies(c)
    <3>1. UNCHANGED <<apiIdem, apiHoles, apiSpend>> /\ \A d \in ApiCalls \ {c} : apiCall'[d] = apiCall[d]
      BY <2>0, <2>2 DEF Quote, CancelDraft, DeliverPayment, CallDies, Hangup, Respond, CallGoto
    <3>2. Advances(q, apiCall'[c])
      BY <2>0, <2>2 DEF Quote, CancelDraft, DeliverPayment, CallDies, Hangup, Respond, CallGoto,
         Advances, NoCall, ApiCallRecord
    <3> QED
      BY <2>1, <3>1, <3>2
  <2>3. ASSUME NEW status, Respond(c, status), UNCHANGED <<apiIdem, apiHoles>>,
               NEW st \in {"failed", "recorded"}, SetSpend(q.row, st), Working(q)
        PROVE  KeysGuarded'
    <3>1. \A d \in ApiCalls \ {c} : apiCall'[d] = apiCall[d]
      BY <2>0, <2>3 DEF Respond
    <3>2. Advances(q, apiCall'[c])
      BY <2>0, <2>3 DEF Respond, Advances, Working, ApiCallRecord
    <3>3. \A i \in SpendRows : apiSpend'[i].moved =>
             apiSpend[i].moved /\ apiSpend'[i].key = apiSpend[i].key
      BY <2>0, <2>3 DEF SetSpend, SpendRow
    <3> QED
      BY <2>1, <2>3, <3>1, <3>2, <3>3
  <2>4. ASSUME NEW i \in SpendRows, Reserve(c, i)
        PROVE  KeysGuarded'
    <3>1. /\ UNCHANGED <<apiIdem, apiHoles>> /\ \A d \in ApiCalls \ {c} : apiCall'[d] = apiCall[d]
          /\ ~ apiSpend'[i].moved /\ \A j \in SpendRows \ {i} : apiSpend'[j] = apiSpend[j]
      BY <2>0, <2>4 DEF Reserve
    <3>2. Advances(q, apiCall'[c])
      BY <2>0, <2>4 DEF Reserve, Advances, ApiCallRecord
    <3> QED
      BY <2>1, <3>1, <3>2
  <2>5. CASE Recheck(c)
    <3>1. CASE SetSpend(q.row, "failed") /\ Respond(c, 400)
      BY <2>3, <2>5, <3>1 DEF Recheck, Working
    <3>2. CASE /\ apiSpend' = [apiSpend EXCEPT ![q.row].late = apiDay > apiSpend[q.row].day]
               /\ CallGoto(c, "settle")
      <4>1. UNCHANGED <<apiIdem, apiHoles>> /\ \A d \in ApiCalls \ {c} : apiCall'[d] = apiCall[d]
        BY <2>0, <2>5, <3>2 DEF Recheck, CallGoto
      <4>2. Advances(q, apiCall'[c])
        BY <2>0, <2>5, <3>2 DEF Recheck, CallGoto, Advances, ApiCallRecord
      <4> DEFINE late == apiDay > apiSpend[q.row].day
      <4>3. apiSpend' = [apiSpend EXCEPT ![q.row].late = late]
        BY <3>2
      <4> HIDE DEF late
      <4>4. \A i \in SpendRows : apiSpend'[i].moved =>
               apiSpend[i].moved /\ apiSpend'[i].key = apiSpend[i].key
        BY <2>0, <4>3 DEF SpendRow
      <4> QED
        BY <2>1, <4>1, <4>2, <4>4
    <3> QED
      BY <2>5, <3>1, <3>2 DEF Recheck
  <2>6. CASE InboundOnly(c) \/ HeldForReview(c)
    BY <2>3, <2>6 DEF InboundOnly, HeldForReview, Working
  <2>7. ASSUME NEW status \in {400, 402}, PaymentRefused(c, status) \/ DeliveryRefused(c, status)
        PROVE  KeysGuarded'
    BY <2>3, <2>7 DEF PaymentRefused, DeliveryRefused, Working
  <2>8. CASE RecordSpend(c) \/ RecordSpendFails(c)
    BY <2>3, <2>8 DEF RecordSpend, RecordSpendFails, Working
  <2>9. CASE SettlePayment(c) \/ \E status \in {400, 402} : AnswerLost(c, status)
    <3>1. /\ q.pc = "settle"
          /\ UNCHANGED <<apiIdem, apiHoles>> /\ \A d \in ApiCalls \ {c} : apiCall'[d] = apiCall[d]
          /\ q.row \in SpendRows /\ q.key \in IdemKeys /\ apiSpend[q.row].key = q.key
          /\ \A i \in SpendRows \ {q.row} : apiSpend'[i] = apiSpend[i]
      <4>1. /\ q.pc = "settle" /\ UNCHANGED <<apiIdem, apiHoles>>
            /\ \A d \in ApiCalls \ {c} : apiCall'[d] = apiCall[d]
            /\ \A i \in SpendRows \ {q.row} : apiSpend'[i] = apiSpend[i]
        BY <2>0, <2>9 DEF SettlePayment, AnswerLost, CallGoto, Respond
      <4> QED
        BY <2>0, <4>1 DEF RowKnown, Working
    <3>2. /\ apiCall'[c].pc \in {"deliver", "store"} /\ apiCall'[c].key = q.key
          /\ apiCall'[c].row = q.row /\ apiCall'[c].live = q.live
          /\ apiSpend'[q.row].key = q.key
      <4>1. CASE SettlePayment(c)
        BY <2>0, <3>1, <4>1 DEF SettlePayment, CallGoto, ApiCallRecord, SpendRow
      <4>2. ASSUME NEW status \in {400, 402}, AnswerLost(c, status)
            PROVE  <3>2!:
        <5>1. /\ apiCall'[c].pc = "store" /\ apiCall'[c].key = q.key
              /\ apiCall'[c].row = q.row /\ apiCall'[c].live = q.live
          BY <2>0, <4>2 DEF AnswerLost, Respond, ApiCallRecord
        <5>2. apiSpend'[q.row].key = q.key
          BY <2>0, <3>1, <4>2 DEF AnswerLost, PaidUnseen, SpendRow
        <5> QED
          BY <5>1, <5>2
      <4> QED
        BY <2>9, <4>1, <4>2
    <3>3. \A d \in ApiCalls : apiCall'[d].pc # "idle" => apiCall'[d].live = Current(apiCall[d].key)'
      <4> TAKE d \in ApiCalls
      <4>1. CASE d = c
        BY <3>1, <3>2, <4>1 DEF KeysGuarded, Current
      <4>2. CASE d # c
        BY <3>1, <4>2 DEF KeysGuarded, Current
      <4> QED
        BY <4>1, <4>2
    <3>4. \A i \in SpendRows : apiSpend'[i].moved => apiSpend'[i].key \in IdemKeys
      BY <3>1, <3>2 DEF KeysGuarded
    <3>5. ASSUME NEW k \in IdemKeys, Guarded(k)'
          PROVE  OneCallAtATime(k)'
      <4>1. CASE k # q.key
        <5>1. \A i \in SpendRows : apiSpend'[i].moved /\ apiSpend'[i].key = k =>
                apiSpend[i].moved /\ apiSpend[i].key = k
          BY <3>1, <3>2, <4>1
        <5> HIDE DEF q
        <5>2. /\ apiCall[c].pc # "idle" => apiCall[c].key # k
              /\ apiCall'[c].pc # "idle" => apiCall'[c].key # k
          BY <3>2, <4>1 DEF q
        <5> QED
          BY <3>1, <3>5, <5>1, <5>2, OtherKey
      <4>2. CASE k = q.key
        <5>1. OneCallAtATime(k) /\ c \in CallsOf(k)
          BY <3>1, <3>5, <4>2 DEF KeysGuarded, Guarded, Current, CallsOf
        <5>2. \A i \in SpendRows : ~ (apiSpend[i].moved /\ apiSpend[i].key = k)
          BY <3>1, <5>1 DEF OneCallAtATime
        <5>3. \A i \in SpendRows : apiSpend'[i].moved /\ apiSpend'[i].key = k => i = q.row
          BY <3>1, <5>2
        <5>4. \A d \in CallsOf(k)' : d = c
          BY <3>1, <5>1 DEF OneCallAtATime, CallsOf
        <5>5. apiIdem'[k].used /\ apiIdem'[k].status = 0
          BY <3>1, <5>1 DEF OneCallAtATime
        <5> QED
          BY <3>2, <5>3, <5>4, <5>5 DEF OneCallAtATime
      <4> QED
        BY <4>1, <4>2
    <3> QED
      BY <3>3, <3>4, <3>5 DEF KeysGuarded
  <2>10. ASSUME NEW op, NEW k \in IdemKeys, NEW body, NEW pay, LookUp(c, op, k, body, pay)
         PROVE  KeysGuarded'
    <3>1. /\ apiCall'[c].pc = "save" /\ apiCall'[c].key = k /\ q.pc = "idle"
          /\ apiCall'[c].live = (apiIdem[k].used => apiIdem[k].live)
          /\ \A d \in ApiCalls \ {c} : apiCall'[d] = apiCall[d]
          /\ UNCHANGED <<apiIdem, apiSpend>> /\ apiHoles \subseteq apiHoles'
          /\ Proceeds(apiIdem[k], op, body, pay)
      BY <2>0, <2>10 DEF LookUp, NoCall
    <3>2. k \notin apiHoles' =>
            ~ \E d \in ApiCalls \ {c} : apiCall[d].pc = "save" /\ apiCall[d].key = k
      BY <2>10 DEF LookUp
    <3>3. \A d \in ApiCalls : apiCall'[d].pc # "idle" => apiCall'[d].live = Current(apiCall[d].key)'
      <4> TAKE d \in ApiCalls
      <4>1. CASE d = c
        BY <3>1, <4>1 DEF Current
      <4>2. CASE d # c
        BY <3>1, <4>2 DEF KeysGuarded, Current
      <4> QED
        BY <4>1, <4>2
    <3>4. ASSUME NEW h \in IdemKeys, Guarded(h)'
          PROVE  OneCallAtATime(h)'
      <4>1. CASE h # k
        BY <3>1, <3>4, <4>1, OtherKey
      <4>2. CASE h = k
        <5>1. OneCallAtATime(k) /\ Current(k)
          BY <3>1, <3>4, <4>2 DEF KeysGuarded, Guarded, Current
        <5>2. apiIdem[k].used => apiIdem[k].status = 402
          BY <3>1, <5>1 DEF Proceeds, Current
        <5>3. \A i \in SpendRows : ~ (apiSpend[i].moved /\ apiSpend[i].key = k)
          BY <5>1, <5>2 DEF OneCallAtATime
        <5>4. ASSUME NEW d \in CallsOf(k)', d # c
              PROVE  FALSE
          <6>1. d \in ApiCalls \ {c} /\ d \in CallsOf(k)
            BY <3>1, <5>4 DEF CallsOf
          <6>2. apiCall[d].pc # "save"
            BY <3>2, <3>4, <4>2, <6>1 DEF Guarded, CallsOf
          <6> QED
            BY <5>1, <5>2, <6>1, <6>2 DEF OneCallAtATime
        <5> QED
          BY <3>1, <4>2, <5>3, <5>4 DEF OneCallAtATime
      <4> QED
        BY <4>1, <4>2
    <3> QED
      BY <3>1, <3>3, <3>4 DEF KeysGuarded
  <2>11. ASSUME SavePlaceholder(c) \/ StoreResponse(c)
         PROVE  KeysGuarded'
    <3>0. PICK key \in IdemKeys : key = q.key
      BY <2>0, <2>11 DEF SavePlaceholder, StoreResponse, RowKnown
    <3>1. q.key = key /\ q.live = Current(key) /\ q.live \in BOOLEAN
      BY <2>0, <2>11, <3>0 DEF SavePlaceholder, StoreResponse, KeysGuarded, ApiCallRecord
    <3> DEFINE status == IF q.pc = "save" THEN 0 ELSE q.status
    <3>2. /\ apiIdem'[key].used /\ apiIdem'[key].live = q.live
          /\ apiIdem'[key].status = status
          /\ \A k \in IdemKeys \ {key} : apiIdem'[k] = apiIdem[k]
      BY <2>0, <2>11, <3>1 DEF SavePlaceholder, StoreResponse, SaveIdempotency
    <3>3. /\ UNCHANGED apiSpend /\ apiHoles \subseteq apiHoles'
          /\ \A d \in ApiCalls \ {c} : apiCall'[d] = apiCall[d]
          /\ apiCall'[c].pc = "idle" \/ (apiCall'[c].pc = "quote" /\ apiCall'[c].key = key
                                          /\ apiCall'[c].live = q.live /\ q.pc = "save")
      BY <2>0, <2>11, <3>1 DEF SavePlaceholder, StoreResponse, Hangup, CallGoto, NoCall, ApiCallRecord
    <3>4. Current(key)' = Current(key)
      BY <3>1, <3>2 DEF Current
    <3>5. \A d \in ApiCalls : apiCall'[d].pc # "idle" => apiCall'[d].live = Current(apiCall[d].key)'
      <4> TAKE d \in ApiCalls
      <4>1. CASE d = c
        BY <3>1, <3>3, <3>4, <4>1
      <4>2. CASE d # c /\ apiCall[d].pc # "idle"
        <5>1. apiCall[d].key \in IdemKeys /\ apiCall'[d] = apiCall[d]
              /\ apiCall[d].live = Current(apiCall[d].key)
          BY <3>3, <4>2 DEF RowsKnown, RowKnown, KeysGuarded
        <5>2. CASE apiCall[d].key = key
          BY <3>4, <5>1, <5>2
        <5>3. CASE apiCall[d].key # key
          BY <3>2, <5>1, <5>3 DEF Current
        <5> QED
          BY <5>2, <5>3
      <4> QED
        BY <3>3, <4>1, <4>2
    <3>6. ASSUME NEW k \in IdemKeys, Guarded(k)'
          PROVE  OneCallAtATime(k)'
      <4>1. CASE k # key
        BY <3>1, <3>2, <3>3, <3>6, <4>1, OtherKey
      <4>2. CASE k = key
        <5>1. OneCallAtATime(k)
          BY <3>3, <3>4, <3>6, <4>2 DEF KeysGuarded, Guarded
        <5>2. c \in CallsOf(k) /\ q.pc \in {"save", "store"}
          BY <2>11, <3>1, <4>2 DEF CallsOf, SavePlaceholder, StoreResponse
        <5>3. \A d \in CallsOf(k)' : d = c /\ apiCall'[c].pc = "quote" /\ q.pc = "save"
          BY <3>3, <5>1, <5>2 DEF OneCallAtATime, CallsOf
        <5>4. ASSUME NEW i \in SpendRows, apiSpend[i].moved, apiSpend[i].key = k
              PROVE  q.pc = "store" /\ q.row = i /\ q.status # 402
          <6>1. q.pc = "store" /\ q.row = i
            BY <5>1, <5>2, <5>4 DEF OneCallAtATime
          <6>2. StoreResponse(c)
            BY <2>11, <6>1 DEF SavePlaceholder
          <6>3. i # Nil
            BY ApiAssumption
          <6>4. q.status # 402
            BY <3>1, <3>6, <4>2, <5>4, <6>1, <6>2, <6>3 DEF StoreResponse, Guarded
          <6> QED
            BY <6>1, <6>4
        <5>5. \A i \in SpendRows : apiSpend'[i].moved /\ apiSpend'[i].key = k =>
                apiSpend[i].moved /\ apiSpend[i].key = k
          BY <3>3
        <5> QED
          BY <3>2, <4>2, <5>1, <5>3, <5>4, <5>5 DEF OneCallAtATime
      <4> QED
        BY <4>1, <4>2
    <3> QED
      BY <3>3, <3>5, <3>6 DEF KeysGuarded
  <2> QED
    BY <1>1, <2>2, <2>4, <2>5, <2>6, <2>7, <2>8, <2>9, <2>10, <2>11 DEF ApiStep
<1>2. CASE UNCHANGED <<apiIdem, apiHoles, apiCall, apiSpend>>
  <2>1. \A c \in ApiCalls : Advances(apiCall[c], apiCall'[c])
    BY <1>2 DEF Advances
  <2> QED
    BY <1>2, <2>1, KeysKept
<1>3. ASSUME NEW k \in IdemKeys, IdempotencyExpires(k)
      PROVE  KeysGuarded'
  <2>1. /\ UNCHANGED <<apiHoles, apiCall, apiSpend>> /\ apiIdem[k].used
        /\ apiIdem'[k] = [apiIdem[k] EXCEPT !.live = FALSE]
        /\ \A h \in IdemKeys \ {k} : apiIdem'[h] = apiIdem[h]
        /\ \A c \in ApiCalls : apiCall[c].pc # "idle" => apiCall[c].key # k
    BY <1>3 DEF IdempotencyExpires, ApiTypeOK
  <2>2. ~ Current(k)'
    BY <2>1 DEF Current, ApiTypeOK, IdemRow
  <2>3. \A c \in ApiCalls : apiCall'[c].pc # "idle" => apiCall'[c].live = Current(apiCall[c].key)'
    BY <2>1 DEF KeysGuarded, Current, RowsKnown, RowKnown
  <2>4. ASSUME NEW h \in IdemKeys, Guarded(h)'
        PROVE  OneCallAtATime(h)'
    <3>1. h # k
      BY <2>2, <2>4 DEF Guarded
    <3>2. OneCallAtATime(h) /\ apiIdem'[h] = apiIdem[h]
      BY <2>1, <2>4, <3>1 DEF KeysGuarded, Guarded, Current
    <3> QED
      BY <2>1, <3>2 DEF OneCallAtATime, CallsOf
  <2> QED
    BY <2>1, <2>3, <2>4 DEF KeysGuarded
<1> QED
  BY <1>1, <1>2, <1>3 DEF ApiNext, CreateApiKey, RevokeApiKey, DeleteBounty, Midnight, apiVars
-----------------------------------------------------------------------------
LEMMA ApiStarts ==
    ASSUME ApiInit
    PROVE  ApiInv
<1>1. ApiTypeOK
  <2>1. [st |-> "none", key |-> Nil, amount |-> 0, day |-> 0, moved |-> FALSE,
         late |-> FALSE] \in SpendRow
    BY ApiAssumption DEF SpendRow, Days
  <2>2. NoIdem \in IdemRow
    BY DEF NoIdem, IdemRow, Statuses
  <2>3. NoCall \in ApiCallRecord
    BY ApiAssumption DEF NoCall, ApiCallRecord, ApiPCs, Statuses
  <2>4. 0 \in Days
    BY ApiAssumption DEF Days
  <2> QED
    BY <2>1, <2>2, <2>3, <2>4 DEF ApiInit, ApiTypeOK
<1>2. RowsKnown
  BY DEF ApiInit, RowsKnown, RowKnown, Working, NoCall
<1>3. PassedWithinCap
  <2>1. ASSUME NEW day \in Days
        PROVE  SpendOf(Passed(day)) = 0
    <3>1. Passed(day) = {}
      BY DEF Passed, ApiInit, Counted, NoCall
    <3>2. SpendOf({}) = SumOf(Amounted, {})
      BY SpendIsSum DEF Amounted
    <3> QED
      BY <3>1, <3>2, FS_EmptySet, SumZero
  <2> QED
    BY <2>1 DEF PassedWithinCap, ApiInit
<1>4. KeysGuarded
  BY DEF ApiInit, KeysGuarded, NoCall, OneCallAtATime, CallsOf
<1> QED
  BY <1>1, <1>2, <1>3, <1>4 DEF ApiInv

LEMMA ApiKept ==
    ASSUME ApiInv, [ApiNext]_apiVars
    PROVE  ApiInv'
<1>1. ApiTypeOK'
  BY ApiTypeStep DEF ApiInv
<1> QED
  BY <1>1, RowsStep, CapStep, KeysStep DEF ApiInv

\* The rows, the calls and the stored answers keep their types, whatever runs
\* together and dies.
THEOREM ApiTypeCorrect == ApiSpec => []ApiTypeOK
<1>1. ApiInv => ApiTypeOK
  BY DEF ApiInv
<1> QED
  BY <1>1, ApiStarts, ApiKept, PTL DEF ApiSpec

\* The payments of a day that are counted, that is neither failed after they moved nor
\* checked after midnight, stay within the key's cap, whatever calls overlap, since
\* the sum is taken again with the reservations in it (settleAndLock).  A request
\* repeated with its Idempotency-Key while the key's row lives moves money once
\* (withIdempotency), unless two calls looked the key up before either wrote its row,
\* or a payment that settled was answered with 402: those keys are apiHoles.
THEOREM SpendsOnce == ApiSpec => []SpendsOnceWithinCap
<1>1. ApiInv => SpendsOnceWithinCap
  <2> SUFFICES ASSUME ApiInv
               PROVE  PaidOncePerKey /\ DailyCapHolds
    BY DEF SpendsOnceWithinCap
  <2>1. PaidOncePerKey
    <3> SUFFICES ASSUME NEW i \in SpendRows, NEW j \in SpendRows,
                        i # j, apiSpend[i].moved, apiSpend[j].moved,
                        apiSpend[i].key = apiSpend[j].key,
                        apiIdem[apiSpend[i].key].live, apiSpend[i].key \notin apiHoles
                 PROVE  FALSE
      BY DEF PaidOncePerKey
    <3>1. apiSpend[i].key \in IdemKeys /\ OneCallAtATime(apiSpend[i].key)
      BY DEF ApiInv, KeysGuarded, Guarded, Current
    <3> QED
      BY <3>1 DEF OneCallAtATime
  <2>2. ASSUME NEW day \in Days
        PROVE  SpendOf({i \in SpendRows : /\ Counted(apiSpend[i]) /\ apiSpend[i].moved
                                          /\ apiSpend[i].day = day /\ ~ apiSpend[i].late})
                 <= apiKey.daily
    <3> DEFINE S == {i \in SpendRows : /\ Counted(apiSpend[i]) /\ apiSpend[i].moved
                                       /\ apiSpend[i].day = day /\ ~ apiSpend[i].late}
    <3>1. S \in SUBSET Passed(day) /\ Passed(day) \in SUBSET SpendRows
      BY DEF Passed
    <3>2. SpendOf(S) = SumOf(Amounted, S)
      BY SpendIsSum DEF Amounted
    <3>3. SpendOf(Passed(day)) = SumOf(Amounted, Passed(day))
      BY SpendIsSum DEF Amounted
    <3> HIDE DEF S
    <3>4. Amounted \in [SpendRows -> Nat]
      BY AmountsTyped DEF ApiInv, ApiTypeOK
    <3>5. /\ SumOf(Amounted, S) <= SumOf(Amounted, Passed(day))
          /\ SumOf(Amounted, S) \in Nat /\ SumOf(Amounted, Passed(day)) \in Nat
      BY <3>1, <3>4, SpendLess
    <3>6. SpendOf(Passed(day)) <= apiKey.daily /\ apiKey.daily \in Nat
      BY DEF ApiInv, PassedWithinCap, ApiTypeOK
    <3>7. SpendOf(S) <= apiKey.daily
      BY <3>2, <3>3, <3>5, <3>6
    <3> QED
      BY <3>7 DEF S
  <2> QED
    BY <2>1, <2>2 DEF DailyCapHolds
<1> QED
  BY <1>1, ApiStarts, ApiKept, PTL DEF ApiSpec
-----------------------------------------------------------------------------
(* UserAccount: what the user has chosen survives sign-ins and saves         *)

\* What a save read as on was on, or has been turned off since; a call that has
\* queued the welcome may stamp it; the sign-in that made the row is on its
\* way to the contact.
AccountCallKnows(c) ==
    /\ uaOff \cap uaCall[c].saw \subseteq uaCall[c].missed
    /\ UaAt(c, "stamp") => uaMail.welcome \/ uaMail.refused
    /\ uaCall[c].created => uaCall[c].pc \in {"welcome", "stamp", "contact"}
    /\ UaAt(c, "contact") => uaCall[c].created

AccountInv == AccountTypeOK /\ AccountKept /\ \A c \in UaCalls : AccountCallKnows(c)

LEMMA AccountStarts == AccountInit => AccountInv
  BY DEF AccountInit, AccountInv, AccountTypeOK, AccountKept, OptOutKept, OwnNameKept,
         WelcomeQueued, ContactNoted, AccountCallKnows, UaAt, NoAccountCall, AccountCall

LEMMA AccountCallTyped ==
    /\ NoAccountCall \in AccountCall
    /\ \A q \in AccountCall : [q EXCEPT !.pc = "contact"] \in AccountCall
    /\ \A q \in AccountCall, b \in BOOLEAN, pc \in {"welcome", "idle"} :
         [q EXCEPT !.created = b, !.pc = pc] \in AccountCall
  BY DEF NoAccountCall, AccountCall

LEMMA AccountStep == AccountInv /\ [AccountNext]_uaVars => AccountInv'
<1> SUFFICES ASSUME AccountInv, [AccountNext]_uaVars PROVE AccountInv'
  OBVIOUS
<1> USE DEF AccountInv
<1>t. /\ uaUser \in [exists: BOOLEAN, name: {"google", "own"}, custom: BOOLEAN,
                   mailable: BOOLEAN, stamped: BOOLEAN]
      /\ uaMail \in [welcome: BOOLEAN, refused: BOOLEAN, contact: BOOLEAN, dropped: BOOLEAN]
      /\ uaPrefs \subseteq UaFlags /\ uaOff \subseteq UaFlags
      /\ uaCall \in [UaCalls -> AccountCall]
  BY DEF AccountTypeOK
<1>1. ASSUME NEW c \in UaCalls, NEW mailable \in BOOLEAN, SignIn(c, mailable)
      PROVE  AccountInv'
  <2> DEFINE pc == IF ~ uaUser.exists \/ ~ uaUser.stamped THEN "welcome" ELSE "idle"
  <2>0. /\ uaCall' = [uaCall EXCEPT ![c] = [@ EXCEPT !.created = ~ uaUser.exists, !.pc = pc]]
        /\ uaCall'[c] = [uaCall[c] EXCEPT !.created = ~ uaUser.exists, !.pc = pc]
    BY <1>1, <1>t DEF SignIn
  <2>1. AccountTypeOK'
    <3>1. uaCall' \in [UaCalls -> AccountCall]
      BY <2>0, <1>t, AccountCallTyped
    <3>2. uaUser' \in [exists: BOOLEAN, name: {"google", "own"}, custom: BOOLEAN,
                       mailable: BOOLEAN, stamped: BOOLEAN]
      BY <1>1, <1>t DEF SignIn
    <3> QED
      BY <1>1, <3>1, <3>2 DEF SignIn, AccountTypeOK
  <2>2. OptOutKept' /\ OwnNameKept' /\ WelcomeQueued'
    BY <1>1, <1>t DEF SignIn, AccountKept, OptOutKept, OwnNameKept, WelcomeQueued
  <2>3. ContactNoted'
    <3>1. CASE ~ uaUser.exists
      <4>1. uaCall[c] \in AccountCall
        BY <1>t
      <4>2. uaCall'[c].created
        BY <2>0, <3>1, <4>1 DEF AccountCall
      <4> QED
        BY <4>2 DEF ContactNoted
    <3>2. CASE uaUser.exists
      <4>1. ~ uaCall[c].created
        BY <1>1 DEF SignIn, AccountCallKnows, UaAt
      <4>2. \A d \in UaCalls : uaCall[d].created => uaCall'[d].created
        BY <1>t, <2>0, <4>1
      <4> QED
        BY <1>1, <3>2, <4>2 DEF SignIn, AccountKept, ContactNoted
    <3> QED
      BY <3>1, <3>2
  <2>4. ASSUME NEW d \in UaCalls PROVE AccountCallKnows(d)'
    BY <1>1, <1>t DEF SignIn, AccountCallKnows, AccountCall, UaAt
  <2> QED
    BY <2>1, <2>2, <2>3, <2>4 DEF AccountKept
<1>2. ASSUME NEW c \in UaCalls, EnqueueWelcome(c)
      PROVE  AccountInv'
  <2>1. AccountTypeOK'
    BY <1>2, <1>t DEF EnqueueWelcome, AccountTypeOK, AccountCall
  <2>2. AccountKept'
    BY <1>2, <1>t DEF EnqueueWelcome, AccountKept, OptOutKept, OwnNameKept, WelcomeQueued,
                      ContactNoted, AccountCall, UaAt
  <2>3. ASSUME NEW d \in UaCalls PROVE AccountCallKnows(d)'
    BY <1>2, <1>t DEF EnqueueWelcome, AccountCallKnows, AccountCall, UaAt
  <2> QED
    BY <2>1, <2>2, <2>3
<1>3. ASSUME NEW c \in UaCalls, WelcomeFails(c) \/ StampWelcome(c)
      PROVE  AccountInv'
  <2>1. AccountTypeOK'
    <3>1. uaCall' \in [UaCalls -> AccountCall]
      <4>1. \/ uaCall' = [uaCall EXCEPT ![c].pc = "contact"]
            \/ uaCall' = [uaCall EXCEPT ![c] = NoAccountCall]
        BY <1>3 DEF WelcomeFails, StampWelcome, UaWelcomed, UaEnd
      <4>2. CASE uaCall' = [uaCall EXCEPT ![c].pc = "contact"]
        <5>1. [uaCall[c] EXCEPT !.pc = "contact"] \in AccountCall
          BY <1>t, AccountCallTyped
        <5> QED
          BY <1>t, <4>2, <5>1
      <4>3. CASE uaCall' = [uaCall EXCEPT ![c] = NoAccountCall]
        BY <1>t, <4>3, AccountCallTyped
      <4> QED
        BY <4>1, <4>2, <4>3
    <3>2. uaUser' \in [exists: BOOLEAN, name: {"google", "own"}, custom: BOOLEAN,
                       mailable: BOOLEAN, stamped: BOOLEAN]
      BY <1>3, <1>t DEF WelcomeFails, StampWelcome
    <3> QED
      BY <1>3, <3>1, <3>2 DEF WelcomeFails, StampWelcome, AccountTypeOK
  <2>2. AccountKept'
    BY <1>3, <1>t DEF WelcomeFails, StampWelcome, UaWelcomed, UaEnd, NoAccountCall,
                      AccountKept, OptOutKept, OwnNameKept, WelcomeQueued, ContactNoted,
                      AccountCallKnows, AccountCall, UaAt
  <2>3. ASSUME NEW d \in UaCalls PROVE AccountCallKnows(d)'
    BY <1>3, <1>t DEF WelcomeFails, StampWelcome, UaWelcomed, UaEnd, NoAccountCall,
                      AccountCallKnows, AccountCall, UaAt
  <2> QED
    BY <2>1, <2>2, <2>3
<1>4. ASSUME NEW c \in UaCalls, RecordSignup(c) \/ AccountCallDies(c)
      PROVE  AccountInv'
  <2>1. AccountTypeOK'
    <3>1. uaCall' \in [UaCalls -> AccountCall]
      BY <1>4, <1>t, AccountCallTyped DEF RecordSignup, AccountCallDies, UaEnd
    <3>2. uaMail' \in [welcome: BOOLEAN, refused: BOOLEAN, contact: BOOLEAN, dropped: BOOLEAN]
      <4>1. uaCall[c].created \in BOOLEAN
        BY <1>t DEF AccountCall
      <4> QED
        BY <1>4, <1>t, <4>1 DEF RecordSignup, AccountCallDies
    <3> QED
      BY <1>4, <3>1, <3>2 DEF RecordSignup, AccountCallDies, AccountTypeOK
  <2>2. AccountKept'
    BY <1>4, <1>t DEF RecordSignup, AccountCallDies, UaEnd, NoAccountCall,
                      AccountKept, OptOutKept, OwnNameKept, WelcomeQueued, ContactNoted,
                      AccountCall, UaAt
  <2>3. ASSUME NEW d \in UaCalls PROVE AccountCallKnows(d)'
    BY <1>4, <1>t DEF RecordSignup, AccountCallDies, UaEnd, NoAccountCall,
                      AccountCallKnows, AccountCall, UaAt
  <2> QED
    BY <2>1, <2>2, <2>3
<1>5. ASSUME NEW c \in UaCalls, NEW on \in SUBSET UaFlags, NEW off \in SUBSET UaFlags,
             LoadPreferences(c, on, off)
      PROVE  AccountInv'
  <2>1. AccountTypeOK'
    BY <1>5, <1>t DEF LoadPreferences, NoAccountCall, AccountTypeOK, AccountCall
  <2>2. AccountKept'
    BY <1>5, <1>t DEF LoadPreferences, NoAccountCall, AccountKept, OptOutKept, OwnNameKept,
                      WelcomeQueued, ContactNoted, AccountCallKnows, AccountCall, UaAt
  <2>3. ASSUME NEW d \in UaCalls PROVE AccountCallKnows(d)'
    BY <1>5, <1>t DEF LoadPreferences, NoAccountCall, AccountCallKnows, AccountCall, UaAt,
                      AccountKept, OptOutKept
  <2> QED
    BY <2>1, <2>2, <2>3
<1>6. ASSUME NEW c \in UaCalls, SavePreferences(c)
      PROVE  AccountInv'
  <2>1. AccountTypeOK'
    BY <1>6, <1>t DEF SavePreferences, PreferencesOf, NoAccountCall, AccountTypeOK,
                      AccountCall, UaAt
  <2>2. OptOutKept'
    <3>1. uaOff \cap uaCall[c].saw \subseteq uaCall[c].missed
      BY DEF AccountCallKnows
    <3> QED
      BY <1>6, <3>1 DEF SavePreferences, PreferencesOf, OptOutKept
  <2>3. OwnNameKept' /\ WelcomeQueued' /\ ContactNoted'
    BY <1>6, <1>t DEF SavePreferences, NoAccountCall, AccountKept, OwnNameKept,
                      WelcomeQueued, ContactNoted, AccountCallKnows, AccountCall, UaAt
  <2>4. ASSUME NEW d \in UaCalls PROVE AccountCallKnows(d)'
    BY <1>6, <1>t DEF SavePreferences, NoAccountCall, AccountCallKnows, AccountCall, UaAt
  <2> QED
    BY <2>1, <2>2, <2>3, <2>4 DEF AccountKept
<1>7. ASSUME SaveDisplayName
      PROVE  AccountInv'
  BY <1>7, <1>t DEF SaveDisplayName, AccountTypeOK, AccountKept, OptOutKept, OwnNameKept,
                    WelcomeQueued, ContactNoted, AccountCallKnows, UaAt
<1>8. ASSUME UNCHANGED uaVars
      PROVE  AccountInv'
  BY <1>8 DEF uaVars, AccountTypeOK, AccountKept, OptOutKept, OwnNameKept, WelcomeQueued,
              ContactNoted, AccountCallKnows, UaAt
<1> QED
  BY <1>1, <1>2, <1>3, <1>4, <1>5, <1>6, <1>7, <1>8 DEF AccountNext

\* Rows of users and sign-ins in flight keep their types, for any number of them.
LEMMA AccountTypeCorrect == AccountSpec => []AccountTypeOK
<1>1. AccountInv => AccountTypeOK
  BY DEF AccountInv
<1> QED
  BY <1>1, AccountStarts, AccountStep, PTL DEF AccountSpec

\* Mail that was turned off stays off until a save turns it on, or one that had
\* read the row before writes it back (OnlyFlagsSent shows that it can); an own
\* name is kept, no account counts as welcomed that was not, and the contact of a
\* new user is noted or known to be lost, for any number of sign-ins and saves and
\* any kinds of mail (users.ts, settings.ts:174).
THEOREM AccountIsKept == AccountSpec => []AccountKept
<1>1. AccountInv => AccountKept
  BY DEF AccountInv
<1> QED
  BY AccountStarts, AccountStep, <1>1, PTL DEF AccountSpec
-----------------------------------------------------------------------------
(* AccountLinks: a merge is credited to its author                          *)

\* The account has or had the name, and nobody took it over unnoticed.
Held(a, n) == alHolder[n] = a \/ n \in alPassed

\* A lookup that is under way is about an account with a name, and of the account
\* that wrote the merge; whoever it found is its author, or had the name.
LookupKnown(l) ==
    /\ alName[l.acc] # AlNone /\ Held(l.acc, l.name)
    /\ l.user = AlNone \/ l.right
    /\ alMerge[l.m] = NoMergeRow \/ alMerge[l.m].acc = l.acc

FlowKnown(u) ==
    LET f == alFlow[u]
    IN  /\ f # NoFlow => Held(f.acc, f.name)
        /\ f # NoFlow => \A m \in f.batch :
             alMerge[m] # NoMergeRow /\ Held(alMerge[m].acc, f.name)
        /\ f.hit # NoLookup =>
             f.pc = "write" /\ LookupKnown(f.hit) /\ alMerge[f.hit.m] # NoMergeRow
        /\ f.pc = "write" => f.hit # NoLookup

MergeKnown(m) ==
    /\ alMerge[m] # NoMergeRow =>
         /\ alName[alMerge[m].acc] # AlNone /\ Held(alMerge[m].acc, alMerge[m].name)
         /\ alMerge[m].user = AlNone => alMerge[m].waits
         /\ alMerge[m].user = AlNone \/ alMerge[m].right
    /\ alDelivery[m] # NoLookup => alDelivery[m].m = m /\ LookupKnown(alDelivery[m])

\* The backfill of the link has read the rows, or has ended.
Scanned(u) ==
    LET f == alFlow[u]
    IN  /\ alLink[u] # NoLink
        /\ alLink[u].filled
           \/ (f.pc \in {"backfill", "write"} /\ alLink[u] = LinkRow(u, f.acc, f.name))

\* A lookup about the linked account found nobody: it was made before the link.
ComesLate(u, l) ==
    l.acc = alLink[u].acc /\ l.name = alLink[u].name /\ l.user = AlNone => l.overtaken

\* A row that the link has to find is one that its backfill is still to look at.
ToFind(u, m) ==
    /\ alMerge[m].acc = alLink[u].acc /\ alMerge[m].name = alLink[u].name
    /\ alMerge[m].user = AlNone /\ ~ alMerge[m].late

NoneMissed(u) ==
    Scanned(u) =>
      /\ \A m \in AlMerges : ComesLate(u, alDelivery[m])
      /\ \A v \in AlUsers : ComesLate(u, alFlow[v].hit)
      /\ \A m \in AlMerges : ToFind(u, m) =>
           /\ ~ alLink[u].filled
           /\ m \in alFlow[u].batch \/ (alFlow[u].pc = "write" /\ alFlow[u].hit.m = m)

LinksInv ==
    /\ LinksTypeOK
    /\ \A a \in AlAccounts : alName[a] # AlNone => alHolder[alName[a]] = a
    /\ \A u \in AlUsers : alLink[u] # NoLink => Held(alLink[u].acc, alLink[u].name)
    /\ \A u \in AlUsers : FlowKnown(u) /\ NoneMissed(u)
    /\ \A m \in AlMerges : MergeKnown(m)

LEMMA LinksTyped ==
    /\ \A l \in AccountLink : l # NoLink /\ l.acc \in AlAccounts /\ l.name \in AlNames
    /\ \A f \in LinkFlow : /\ f # NoFlow /\ f.acc \in AlAccounts /\ f.name \in AlNames
                           /\ f.batch \subseteq AlMerges /\ f.hit \in Lookup \cup {NoLookup}
    /\ \A r \in AlMergeRow : r # NoMergeRow /\ r.acc \in AlAccounts /\ r.name \in AlNames
    /\ \A l \in Lookup : /\ l # NoLookup /\ l.m \in AlMerges
                         /\ l.acc \in AlAccounts /\ l.name \in AlNames
                         /\ l.user \in AlUsers \cup {AlNone}
    /\ \A a \in AlAccounts : a # AlNone
    /\ \A n \in AlNames : n # AlNone
    /\ \A u \in AlUsers : u # AlNone
    /\ NoLink.acc = AlNone /\ NoMergeRow.acc = AlNone /\ NoLookup.acc = AlNone
    /\ NoFlow.hit = NoLookup /\ NoFlow.pc = "idle"
<1>1. /\ \A a \in AlAccounts : a # AlNone
      /\ \A n \in AlNames : n # AlNone
      /\ \A u \in AlUsers : u # AlNone
  BY LinksAssumption
<1>2. \A l \in AccountLink : l # NoLink /\ l.acc \in AlAccounts /\ l.name \in AlNames
  BY <1>1 DEF AccountLink, NoLink
<1>3. \A f \in LinkFlow : /\ f # NoFlow /\ f.acc \in AlAccounts /\ f.name \in AlNames
                          /\ f.batch \subseteq AlMerges /\ f.hit \in Lookup \cup {NoLookup}
  <2> SUFFICES ASSUME NEW f \in LinkFlow
               PROVE  /\ f # NoFlow /\ f.acc \in AlAccounts /\ f.name \in AlNames
                      /\ f.batch \subseteq AlMerges /\ f.hit \in Lookup \cup {NoLookup}
    OBVIOUS
  <2>1. /\ f.pc \in {"link", "scan", "backfill", "write"} /\ f.acc \in AlAccounts
        /\ f.name \in AlNames /\ f.batch \subseteq AlMerges /\ f.hit \in Lookup \cup {NoLookup}
    BY DEF LinkFlow
  <2> QED
    BY <2>1 DEF NoFlow
<1>4. \A r \in AlMergeRow : r # NoMergeRow /\ r.acc \in AlAccounts /\ r.name \in AlNames
  BY <1>1 DEF AlMergeRow, NoMergeRow
<1>5. \A l \in Lookup : /\ l # NoLookup /\ l.m \in AlMerges
                        /\ l.acc \in AlAccounts /\ l.name \in AlNames
                        /\ l.user \in AlUsers \cup {AlNone}
  BY <1>1 DEF Lookup, NoLookup
<1> QED
  BY <1>1, <1>2, <1>3, <1>4, <1>5 DEF NoLink, NoMergeRow, NoLookup, NoFlow

LEMMA LinksRows ==
    ASSUME LinksInv
    PROVE  /\ \A u \in AlUsers : alLink[u] # NoLink => alLink[u] \in AccountLink
           /\ \A u \in AlUsers : alFlow[u] # NoFlow => alFlow[u] \in LinkFlow
           /\ \A u \in AlUsers : alFlow[u].hit \in Lookup \cup {NoLookup}
           /\ \A m \in AlMerges : alMerge[m] # NoMergeRow => alMerge[m] \in AlMergeRow
           /\ \A m \in AlMerges : alDelivery[m] # NoLookup => alDelivery[m] \in Lookup
           /\ \A u \in AlUsers, a \in AlAccounts :
                alLink[u].acc = a => alLink[u] # NoLink /\ alLink[u] \in AccountLink
           /\ \A m \in AlMerges, a \in AlAccounts :
                alMerge[m].acc = a => alMerge[m] # NoMergeRow /\ alMerge[m] \in AlMergeRow
  BY LinksTyped DEF LinksInv, LinksTypeOK

LEMMA LinksStart == LinksInit => LinksInv
<1> SUFFICES ASSUME LinksInit PROVE LinksInv
  OBVIOUS
<1>1. LinksTypeOK
  BY DEF LinksInit, LinksTypeOK
<1>2. \A u \in AlUsers : FlowKnown(u) /\ ~ Scanned(u)
  BY LinksTyped DEF LinksInit, FlowKnown, Scanned
<1>3. \A m \in AlMerges : MergeKnown(m)
  BY DEF LinksInit, MergeKnown
<1> QED
  BY <1>1, <1>2, <1>3 DEF LinksInit, LinksInv, NoneMissed

\* Whoever is found for a merge is linked to its account, or to another account
\* that has had the name.
LEMMA FoundIsAuthor ==
    ASSUME LinksInv, NEW a \in AlAccounts, NEW b \in AlAccounts, NEW n \in AlNames,
           Held(a, n), Held(b, n) \/ b = a, NEW u \in FoundBy(b, n)
    PROVE  u \in AlUsers /\ (alLink[u].acc = a \/ n \in alPassed)
<1>1. CASE u \in LinkedTo(b)
  BY <1>1 DEF LinkedTo, Held
<1>2. CASE u \in LinkedAs(n)
  <2>1. u \in AlUsers /\ alLink[u] # NoLink /\ alLink[u].name = n
    BY <1>2 DEF LinkedAs
  <2>2. Held(alLink[u].acc, n)
    BY <2>1 DEF LinksInv
  <2> QED
    BY <2>1, <2>2 DEF Held
<1> QED
  BY <1>1, <1>2 DEF FoundBy

\* What a lookup answers is known to be right, and it finds somebody when the
\* account or its name is linked.
LEMMA LookedKnown ==
    ASSUME LinksInv, NEW m \in AlMerges, NEW a \in AlAccounts, NEW b \in AlAccounts,
           NEW n \in AlNames, NEW u \in Hunters(b, n),
           Held(a, n), Held(b, n) \/ b = a, alName[a] # AlNone,
           alMerge[m] = NoMergeRow \/ alMerge[m].acc = a
    PROVE  /\ Looked(m, a, n, u) \in Lookup /\ LookupKnown(Looked(m, a, n, u))
           /\ Looked(m, a, n, u).m = m
           /\ \A v \in AlUsers : Scanned(v) => ComesLate(v, Looked(m, a, n, u))
<1> DEFINE l == Looked(m, a, n, u)
<1>1. /\ u \in AlUsers \cup {AlNone}
      /\ u # AlNone => alLink[u].acc = a \/ n \in alPassed
  BY FoundIsAuthor DEF Hunters
<1>2. /\ l \in Lookup /\ l.m = m /\ l.acc = a /\ l.name = n /\ l.user = u
      /\ u = AlNone \/ l.right
  BY <1>1 DEF Looked, Lookup
<1>3. LookupKnown(l)
  BY <1>2 DEF LookupKnown
<1>4. ASSUME NEW v \in AlUsers, Scanned(v) PROVE ComesLate(v, l)
  <2>1. SUFFICES ASSUME alLink[v].name = n PROVE u # AlNone
    BY <1>2 DEF ComesLate
  <2>2. v \in LinkedAs(n)
    BY <1>4, <2>1 DEF LinkedAs, Scanned
  <2>3. FoundBy(b, n) # {}
    BY <2>2 DEF FoundBy
  <2>4. u \in FoundBy(b, n)
    BY <2>3 DEF Hunters
  <2> QED
    BY <2>4, FoundIsAuthor, LinksTyped
<1> QED
  BY <1>2, <1>3, <1>4

\* Recording a lookup keeps the account of a merge that has a row; the row is
\* known to be right, and none that a link whose rows were read would have to find.
LEMMA RowRecorded ==
    ASSUME LinksInv, NEW l \in Lookup, LookupKnown(l),
           \A u \in AlUsers : Scanned(u) => ComesLate(u, l),
           alMerge' = Recorded(l), UNCHANGED <<alProvider, alLink>>
    PROVE  /\ alMerge' \in [AlMerges -> AlMergeRow \cup {NoMergeRow}]
           /\ \A k \in AlMerges : k # l.m => alMerge'[k] = alMerge[k]
           /\ alMerge'[l.m] # NoMergeRow /\ alMerge'[l.m].acc = l.acc
           /\ \A k \in AlMerges : alMerge[k] # NoMergeRow =>
                alMerge'[k] # NoMergeRow /\ alMerge'[k].acc = alMerge[k].acc
           /\ \A k \in AlMerges : alMerge'[k] # NoMergeRow =>
                /\ alName'[alMerge'[k].acc] # AlNone /\ Held(alMerge[k].acc, alMerge[k].name)'
                /\ alMerge'[k].user = AlNone => alMerge'[k].waits
                /\ alMerge'[k].user = AlNone \/ alMerge'[k].right
           /\ \A u \in AlUsers : Scanned(u) => ~ ToFind(u, l.m)'
<1> DEFINE m == l.m
           new == [acc |-> l.acc, name |-> l.name, user |-> l.user, waits |-> l.user = AlNone,
                   right |-> l.right, late |-> l.overtaken]
<1>1. /\ m \in AlMerges /\ l.acc \in AlAccounts /\ l.name \in AlNames /\ l.user \in AlUsers \cup {AlNone}
      /\ l.right \in BOOLEAN /\ l.overtaken \in BOOLEAN
  BY DEF Lookup
<1>2. /\ alName[l.acc] # AlNone /\ Held(l.acc, l.name)
      /\ l.user = AlNone \/ l.right
      /\ alMerge[m] = NoMergeRow \/ alMerge[m].acc = l.acc
  BY DEF LookupKnown
<1>3. /\ new \in AlMergeRow /\ new # NoMergeRow /\ new.acc = l.acc /\ new.name = l.name
      /\ new.user = l.user /\ (new.user = AlNone => new.waits)
      /\ new.user = AlNone \/ new.right
      /\ new.late = l.overtaken
  BY <1>1, <1>2, LinksTyped DEF AlMergeRow
<1> DEFINE row == IF l.user = AlNone /\ alMerge[m] # NoMergeRow
                  THEN [alMerge[m] EXCEPT !.name = l.name, !.waits = TRUE, !.late = l.overtaken]
                  ELSE new
<1>4. alMerge' = [alMerge EXCEPT ![m] = row]
  BY <1>1 DEF Recorded, LinksInv, LinksTypeOK
<1>5. /\ row \in AlMergeRow /\ row # NoMergeRow /\ row.acc = l.acc /\ row.name = l.name
      /\ row.user = AlNone => row.waits
      /\ row.user = AlNone \/ row.right
      /\ row.user = AlNone => l.user = AlNone /\ row.late = l.overtaken
  <2>1. CASE l.user = AlNone /\ alMerge[m] # NoMergeRow
    <3>1. alMerge[m] \in AlMergeRow
      BY <1>1, <2>1, LinksRows
    <3>2. alMerge[m].user = AlNone \/ alMerge[m].right
      BY <1>1, <2>1 DEF LinksInv, MergeKnown
    <3>3. row = [alMerge[m] EXCEPT !.name = l.name, !.waits = TRUE, !.late = l.overtaken]
      BY <2>1
    <3>4. /\ row \in AlMergeRow /\ row.acc = alMerge[m].acc /\ row.name = l.name /\ row.waits
          /\ row.user = alMerge[m].user /\ row.right = alMerge[m].right /\ row.late = l.overtaken
      BY <1>1, <3>1, <3>3 DEF AlMergeRow
    <3> QED
      BY <1>2, <2>1, <3>2, <3>4, LinksTyped
  <2>2. CASE ~ (l.user = AlNone /\ alMerge[m] # NoMergeRow)
    <3>1. row = new
      BY <2>2
    <3> HIDE DEF row, new
    <3> QED
      BY <1>3, <3>1
  <2> QED
    BY <2>1, <2>2
<1> HIDE DEF row, new
<1>6. /\ alMerge' \in [AlMerges -> AlMergeRow \cup {NoMergeRow}] /\ alMerge'[m] = row
      /\ \A k \in AlMerges : k # m => alMerge'[k] = alMerge[k]
  BY <1>1, <1>4, <1>5 DEF LinksInv, LinksTypeOK
<1>7. \A k \in AlMerges : alMerge'[k] # NoMergeRow =>
        /\ alName'[alMerge'[k].acc] # AlNone /\ Held(alMerge[k].acc, alMerge[k].name)'
        /\ alMerge'[k].user = AlNone => alMerge'[k].waits
        /\ alMerge'[k].user = AlNone \/ alMerge'[k].right
  BY <1>2, <1>5, <1>6 DEF LinksInv, MergeKnown, Held, alProvider
<1>8. ASSUME NEW u \in AlUsers, Scanned(u) PROVE ~ ToFind(u, l.m)'
  BY <1>5, <1>6, <1>8 DEF ToFind, ComesLate
<1> QED
  BY <1>1, <1>2, <1>5, <1>6, <1>7, <1>8

\* One callback goes on, and neither links nor merges change.
LEMMA FlowMoves ==
    ASSUME LinksInv, NEW u \in AlUsers, NEW g \in LinkFlow \cup {NoFlow},
           alFlow' = [alFlow EXCEPT ![u] = g],
           UNCHANGED <<alProvider, alLink, alMerge, alDelivery>>,
           FlowKnown(u)', Scanned(u)' => Scanned(u),
           \A w \in AlUsers : Scanned(w) => ComesLate(w, g.hit),
           Scanned(u)' => \A m \in AlMerges : ToFind(u, m) =>
               m \in g.batch \/ (g.pc = "write" /\ g.hit.m = m)
    PROVE  LinksInv'
<1>1. /\ alFlow'[u] = g /\ alFlow' \in [AlUsers -> LinkFlow \cup {NoFlow}]
      /\ \A w \in AlUsers : w # u => alFlow'[w] = alFlow[w]
  BY DEF LinksInv, LinksTypeOK
<1>2. LinksTypeOK'
  BY <1>1 DEF LinksInv, LinksTypeOK, alProvider
<1>3. ASSUME NEW w \in AlUsers PROVE FlowKnown(w)'
  BY <1>1 DEF LinksInv, FlowKnown, LookupKnown, Held, alProvider
<1>4. ASSUME NEW w \in AlUsers, Scanned(w)'
      PROVE  /\ \A m \in AlMerges : ComesLate(w, alDelivery[m])'
             /\ \A v \in AlUsers : ComesLate(w, alFlow[v].hit)'
             /\ \A m \in AlMerges : ToFind(w, m)' =>
                  /\ ~ alLink'[w].filled
                  /\ m \in alFlow'[w].batch \/ (alFlow'[w].pc = "write" /\ alFlow'[w].hit.m = m)
  <2>1. Scanned(w)
    BY <1>1, <1>4 DEF Scanned, LinkRow
  <2>2. NoneMissed(w)
    BY DEF LinksInv
  <2>3. /\ \A m \in AlMerges : ComesLate(w, alDelivery[m])'
        /\ \A m \in AlMerges : ToFind(w, m)' => ToFind(w, m)
    BY <2>1, <2>2 DEF NoneMissed, ComesLate, ToFind
  <2>4. ASSUME NEW v \in AlUsers PROVE ComesLate(w, alFlow[v].hit)'
    <3>1. ComesLate(w, alFlow'[v].hit)
      BY <1>1, <2>1, <2>2 DEF NoneMissed
    <3> QED
      BY <3>1 DEF ComesLate
  <2>5. ASSUME NEW m \in AlMerges, ToFind(w, m)'
        PROVE  /\ ~ alLink'[w].filled
               /\ m \in alFlow'[w].batch \/ (alFlow'[w].pc = "write" /\ alFlow'[w].hit.m = m)
    BY <1>1, <1>4, <2>1, <2>2, <2>3, <2>5 DEF NoneMissed
  <2> QED
    BY <2>3, <2>4, <2>5
<1>5. \A w \in AlUsers : NoneMissed(w)'
  BY <1>4 DEF NoneMissed
<1>6. \A m \in AlMerges : MergeKnown(m)'
  BY DEF LinksInv, MergeKnown, LookupKnown, Held, alProvider
<1> QED
  BY <1>2, <1>3, <1>5, <1>6 DEF LinksInv, Held, alProvider

\* A callback that ends without a word to the links leaves nothing behind.
LEMMA FlowStops ==
    ASSUME LinksInv, NEW u \in AlUsers, alFlow' = [alFlow EXCEPT ![u] = NoFlow],
           UNCHANGED <<alProvider, alLink, alMerge, alDelivery>>
    PROVE  LinksInv'
<1>1. alFlow'[u] = NoFlow
  BY DEF LinksInv, LinksTypeOK
<1>2. FlowKnown(u)'
  BY <1>1, LinksTyped DEF FlowKnown
<1>3. Scanned(u)' => alLink[u].filled /\ Scanned(u)
  BY <1>1, LinksTyped DEF Scanned
<1>4. Scanned(u)' => \A m \in AlMerges : ~ ToFind(u, m)
  BY <1>3 DEF LinksInv, NoneMissed
<1>5. \A w \in AlUsers : Scanned(w) => ComesLate(w, NoFlow.hit)
  BY LinksTyped, LinksRows DEF ComesLate, Scanned
<1> QED
  BY <1>2, <1>3, <1>4, <1>5, FlowMoves

\* The rows are read: the lookups that found nobody come late from now on.
LEMMA RowsRead ==
    ASSUME LinksInv, NEW u \in AlUsers, BackfillReads(u)
    PROVE  LinksInv'
<1> DEFINE f == alFlow[u]
           a == f.acc
<1>1. f.pc = "scan" /\ f # NoFlow /\ f \in LinkFlow /\ a \in AlAccounts /\ f.hit = NoLookup
  <2>1. f.pc = "scan" /\ f # NoFlow
    BY LinksTyped DEF BackfillReads
  <2> QED
    BY <2>1, LinksRows, LinksTyped DEF LinksInv, FlowKnown
<1> HIDE DEF a
<1>2. ASSUME NEW l \in Lookup \cup {NoLookup}
      PROVE  /\ Overtakes(a, l) \in Lookup \cup {NoLookup}
             /\ Overtakes(a, l) = NoLookup <=> l = NoLookup
             /\ Overtakes(a, l).acc = l.acc
             /\ l # NoLookup =>
                  /\ Overtakes(a, l).m = l.m /\ Overtakes(a, l).name = l.name
                  /\ Overtakes(a, l).user = l.user /\ Overtakes(a, l).right = l.right
                  /\ l.overtaken => Overtakes(a, l).overtaken
                  /\ l.acc = a /\ l.user = AlNone => Overtakes(a, l).overtaken
  <2>1. CASE l = NoLookup
    BY <1>1, <2>1, LinksTyped DEF Overtakes
  <2>2. CASE l \in Lookup
    <3>1. [l EXCEPT !.overtaken = TRUE] \in Lookup
      BY <2>2 DEF Lookup
    <3> QED
      BY <2>2, <3>1, LinksTyped DEF Overtakes, Lookup
  <2> QED
    BY <2>1, <2>2
<1>3. /\ alDelivery' = [m \in AlMerges |-> Overtakes(a, alDelivery[m])]
      /\ UNCHANGED <<alProvider, alLink, alMerge>>
  BY DEF BackfillReads, a
<1>4. /\ \A m \in AlMerges : alDelivery[m] \in Lookup \cup {NoLookup}
      /\ \A m \in AlMerges : alDelivery'[m] = Overtakes(a, alDelivery[m])
  BY <1>3 DEF LinksInv, LinksTypeOK
<1>5. /\ alFlow'[u] \in LinkFlow /\ alFlow'[u].pc = "backfill" /\ alFlow'[u].acc = a
      /\ alFlow'[u].name = f.name /\ alFlow'[u].batch = PendingFor(u)
      /\ alFlow'[u].hit = NoLookup
  <2>1. alFlow'[u] = [f EXCEPT !.pc = "backfill", !.batch = PendingFor(u)]
    BY DEF BackfillReads
  <2>2. PendingFor(u) \subseteq AlMerges
    BY DEF PendingFor
  <2> QED
    BY <1>1, <2>1, <2>2 DEF LinkFlow, a
<1>6. ASSUME NEW v \in AlUsers, v # u
      PROVE  /\ alFlow'[v] \in LinkFlow \cup {NoFlow}
             /\ alFlow'[v].hit = Overtakes(a, alFlow[v].hit)
             /\ alFlow'[v].pc = alFlow[v].pc
             /\ alFlow'[v] # NoFlow => alFlow[v] # NoFlow
             /\ alFlow[v] \in LinkFlow =>
                  /\ alFlow'[v].acc = alFlow[v].acc /\ alFlow'[v].name = alFlow[v].name
                  /\ alFlow'[v].batch = alFlow[v].batch
  <2>1. alFlow'[v] = [alFlow[v] EXCEPT !.hit = Overtakes(a, @)]
    BY <1>6 DEF BackfillReads, a
  <2>2. CASE alFlow[v] \in LinkFlow
    <3>1. Overtakes(a, alFlow[v].hit) \in Lookup \cup {NoLookup}
      BY <1>2, <2>2, LinksTyped
    <3> QED
      BY <2>1, <2>2, <3>1, LinksTyped DEF LinkFlow
  <2>3. CASE alFlow[v] = NoFlow
    <3>1. Overtakes(a, NoLookup) = NoLookup
      BY <1>2
    <3>2. alFlow'[v] = NoFlow
      BY <2>1, <2>3, <3>1 DEF NoFlow
    <3> QED
      BY <2>3, <3>1, <3>2, LinksTyped
  <2> QED
    BY <2>2, <2>3 DEF LinksInv, LinksTypeOK
<1>7. LinksTypeOK'
  <2>1. alFlow' \in [AlUsers -> LinkFlow \cup {NoFlow}]
    <3>1. alFlow' = [v \in AlUsers |-> alFlow'[v]]
      BY DEF BackfillReads
    <3> QED
      BY <1>5, <1>6, <3>1
  <2>2. alDelivery' \in [AlMerges -> Lookup \cup {NoLookup}]
    BY <1>2, <1>3, <1>4
  <2> QED
    BY <1>3, <2>1, <2>2 DEF LinksInv, LinksTypeOK, alProvider
<1>9. ASSUME NEW v \in AlUsers PROVE FlowKnown(v)'
  <2>1. CASE v = u
    <3>1. Held(f.acc, f.name)
      BY <1>1 DEF LinksInv, FlowKnown
    <3>2. \A m \in PendingFor(u) : alMerge[m] # NoMergeRow /\ Held(alMerge[m].acc, f.name)
      BY DEF PendingFor, LinksInv, MergeKnown
    <3> QED
      BY <1>3, <1>5, <2>1, <3>1, <3>2 DEF FlowKnown, Held, alProvider, a
  <2>2. CASE v # u
    <3>1. FlowKnown(v) /\ alFlow[v].hit \in Lookup \cup {NoLookup}
      BY LinksRows DEF LinksInv
    <3>2. alFlow'[v].hit # NoLookup =>
            /\ alFlow[v].hit # NoLookup /\ alFlow[v].hit \in Lookup
            /\ alFlow'[v].hit.m = alFlow[v].hit.m
            /\ LookupKnown(alFlow[v].hit)'
      <4> SUFFICES ASSUME alFlow'[v].hit # NoLookup
                   PROVE  /\ alFlow[v].hit # NoLookup /\ alFlow[v].hit \in Lookup
                          /\ alFlow'[v].hit.m = alFlow[v].hit.m
                          /\ LookupKnown(alFlow[v].hit)'
        OBVIOUS
      <4> DEFINE l == alFlow[v].hit
                 k == alFlow'[v].hit
      <4>1. k = Overtakes(a, l) /\ l # NoLookup /\ l \in Lookup /\ LookupKnown(l)
        BY <1>2, <1>6, <2>2, <3>1 DEF FlowKnown
      <4>2. k.m = l.m /\ k.acc = l.acc /\ k.name = l.name /\ k.user = l.user /\ k.right = l.right
        BY <1>2, <4>1
      <4> QED
        BY <1>3, <4>1, <4>2 DEF LookupKnown, Held, alProvider
    <3>3. alFlow'[v] # NoFlow => alFlow[v] \in LinkFlow
      BY <1>6, <2>2, LinksRows
    <3>4. alFlow'[v] # NoFlow =>
            /\ Held(alFlow[v].acc, alFlow[v].name)'
            /\ \A m \in alFlow'[v].batch :
                 alMerge'[m] # NoMergeRow /\ Held(alMerge[m].acc, alFlow[v].name)'
      BY <1>3, <1>6, <2>2, <3>1, <3>3 DEF FlowKnown, Held, alProvider
    <3>5. alFlow'[v].pc = "write" => alFlow'[v].hit # NoLookup
      BY <1>2, <1>6, <2>2, <3>1 DEF FlowKnown
    <3> QED
      BY <1>3, <1>6, <2>2, <3>1, <3>2, <3>4, <3>5 DEF FlowKnown
  <2> QED
    BY <2>1, <2>2
<1>10. ASSUME NEW m \in AlMerges PROVE MergeKnown(m)'
  BY <1>2, <1>3, <1>4, LinksTyped DEF LinksInv, MergeKnown, LookupKnown, Held, alProvider
<1>11. ASSUME NEW w \in AlUsers, Scanned(w)'
       PROVE  /\ \A m \in AlMerges : ComesLate(w, alDelivery[m])'
              /\ \A v \in AlUsers : ComesLate(w, alFlow[v].hit)'
              /\ \A m \in AlMerges : ToFind(w, m)' =>
                   /\ ~ alLink'[w].filled
                   /\ m \in alFlow'[w].batch \/ (alFlow'[w].pc = "write" /\ alFlow'[w].hit.m = m)
  <2>0. alLink'[w] = alLink[w] /\ alLink[w] # NoLink /\ alLink[w].acc \in AlAccounts
    BY <1>3, <1>11, LinksRows, LinksTyped DEF Scanned
  <2>a. \A m \in AlMerges : ToFind(w, m)' => ToFind(w, m)
    BY <1>3, <2>0 DEF ToFind
  <2>1. ASSUME NEW l \in Lookup \cup {NoLookup}, ComesLate(w, l) \/ alLink[w].acc = a
        PROVE  ComesLate(w, Overtakes(a, l))
    BY <1>2, <2>0, <2>1, LinksTyped DEF ComesLate
  <2>2. Scanned(w) \/ (w = u /\ alLink[w] = LinkRow(u, a, f.name) /\ ~ alLink[w].filled)
    BY <1>3, <1>5, <1>6, <1>11, <2>0, LinksRows, LinksTyped DEF Scanned, LinkRow
  <2>3. \A l \in Lookup \cup {NoLookup} :
          (Scanned(w) => ComesLate(w, l)) => ComesLate(w, Overtakes(a, l))
    BY <2>1, <2>2 DEF LinkRow
  <2>4. ASSUME NEW m \in AlMerges PROVE ComesLate(w, alDelivery[m])'
    <3>1. ComesLate(w, Overtakes(a, alDelivery[m]))
      BY <1>4, <2>3 DEF LinksInv, NoneMissed
    <3> QED
      BY <1>4, <2>0, <3>1 DEF ComesLate
  <2>5. ASSUME NEW v \in AlUsers PROVE ComesLate(w, alFlow[v].hit)'
    <3>1. CASE v = u
      BY <1>5, <2>0, <3>1, LinksTyped DEF ComesLate
    <3>2. CASE v # u
      <4>1. ComesLate(w, Overtakes(a, alFlow[v].hit))
        BY <2>3, LinksRows DEF LinksInv, NoneMissed
      <4>2. ComesLate(w, alFlow'[v].hit)
        BY <1>6, <3>2, <4>1
      <4> QED
        BY <2>0, <4>2 DEF ComesLate
    <3> QED
      BY <3>1, <3>2
  <2>6. ASSUME NEW m \in AlMerges, ToFind(w, m)
        PROVE  /\ ~ alLink'[w].filled
               /\ m \in alFlow'[w].batch \/ (alFlow'[w].pc = "write" /\ alFlow'[w].hit.m = m)
    <3>1. CASE w = u
      <4>1. ~ alLink[w].filled /\ alLink[w] = LinkRow(u, a, f.name)
        <5>1. ASSUME Scanned(w) PROVE FALSE
          BY <1>1, <2>6, <3>1, <5>1 DEF LinksInv, NoneMissed, Scanned
        <5> QED
          BY <2>2, <5>1
      <4>2. alMerge[m].acc = a /\ alMerge[m].name = f.name /\ alMerge[m].user = AlNone
        BY <2>6, <4>1 DEF ToFind, LinkRow
      <4>3. alMerge[m] # NoMergeRow /\ alMerge[m].waits
        BY <1>1, <4>2, LinksRows DEF LinksInv, MergeKnown
      <4>4. m \in PendingFor(u)
        BY <4>2, <4>3 DEF PendingFor
      <4> QED
        BY <1>5, <2>0, <3>1, <4>1, <4>4
    <3>2. CASE w # u
      <4>1. /\ ~ alLink[w].filled
            /\ m \in alFlow[w].batch \/ (alFlow[w].pc = "write" /\ alFlow[w].hit.m = m)
        BY <2>2, <2>6, <3>2 DEF LinksInv, NoneMissed
      <4>2. alFlow[w].pc \in {"backfill", "write"}
        BY <2>0, <2>2, <3>2, <4>1 DEF Scanned
      <4>3. alFlow[w] \in LinkFlow
        BY <4>2, LinksRows, LinksTyped
      <4>4. alFlow[w].pc = "write" => alFlow[w].hit \in Lookup
        BY <4>3, LinksTyped DEF LinksInv, FlowKnown
      <4> QED
        BY <1>2, <1>6, <2>0, <3>2, <4>1, <4>3, <4>4, LinksTyped
    <3> QED
      BY <3>1, <3>2
  <2> QED
    BY <2>a, <2>4, <2>5, <2>6
<1>12. \A w \in AlUsers : NoneMissed(w)'
  BY <1>11 DEF NoneMissed
<1> QED
  BY <1>3, <1>7, <1>9, <1>10, <1>12 DEF LinksInv, Held, alProvider

\* A row is recorded by the backfill of u, or by the delivery of its merge.
LEMMA RowsWritten ==
    ASSUME LinksInv,
           (\E u \in AlUsers : BackfillWrites(u)) \/ (\E m \in AlMerges : DeliveryWrites(m))
    PROVE  LinksInv'
<1>1. ASSUME NEW u \in AlUsers, BackfillWrites(u) PROVE LinksInv'
  <2>0. PICK l : l = alFlow[u].hit
    OBVIOUS
  <2> DEFINE g == [alFlow[u] EXCEPT !.pc = "backfill", !.hit = NoLookup]
  <2>1. /\ alFlow[u].pc = "write" /\ alMerge' = Recorded(l) /\ alFlow' = [alFlow EXCEPT ![u] = g]
        /\ UNCHANGED <<alProvider, alLink, alDelivery>>
    BY <1>1, <2>0, Zenon DEF BackfillWrites
  <2>2. /\ alFlow[u] # NoFlow /\ alFlow[u] \in LinkFlow /\ l \in Lookup /\ LookupKnown(l)
        /\ alMerge[l.m] # NoMergeRow
    BY <2>0, <2>1, LinksRows, LinksTyped DEF LinksInv, FlowKnown
  <2>3. /\ g \in LinkFlow /\ g.pc = "backfill" /\ g.acc = alFlow[u].acc /\ g.name = alFlow[u].name
        /\ g.batch = alFlow[u].batch /\ g.hit = NoLookup
    BY <2>2 DEF LinkFlow
  <2> HIDE DEF g
  <2>4. /\ alFlow'[u] = g /\ alFlow' \in [AlUsers -> LinkFlow \cup {NoFlow}]
        /\ \A w \in AlUsers : w # u => alFlow'[w] = alFlow[w]
    BY <2>1, <2>3 DEF LinksInv, LinksTypeOK
  <2>5. \A w \in AlUsers : Scanned(w) => ComesLate(w, l)
    BY <2>0 DEF LinksInv, NoneMissed
  <2> DEFINE Kept ==
          /\ alMerge' \in [AlMerges -> AlMergeRow \cup {NoMergeRow}]
          /\ \A k \in AlMerges : k # l.m => alMerge'[k] = alMerge[k]
          /\ alMerge'[l.m] # NoMergeRow /\ alMerge'[l.m].acc = l.acc
          /\ \A k \in AlMerges : alMerge[k] # NoMergeRow =>
               alMerge'[k] # NoMergeRow /\ alMerge'[k].acc = alMerge[k].acc
          /\ \A k \in AlMerges : alMerge'[k] # NoMergeRow =>
               /\ alName'[alMerge'[k].acc] # AlNone /\ Held(alMerge[k].acc, alMerge[k].name)'
               /\ alMerge'[k].user = AlNone => alMerge'[k].waits
               /\ alMerge'[k].user = AlNone \/ alMerge'[k].right
          /\ \A w \in AlUsers : Scanned(w) => ~ ToFind(w, l.m)'
  <2>6. Kept
    <3>1. UNCHANGED <<alProvider, alLink>> /\ alMerge' = Recorded(l)
      BY <2>1
    <3> QED
      BY <2>2, <2>5, <3>1, RowRecorded
  <2>7. LinksTypeOK'
    BY <2>1, <2>4, <2>6 DEF LinksInv, LinksTypeOK, alProvider
  <2>8. ASSUME NEW w \in AlUsers PROVE FlowKnown(w)'
    <3>1. FlowKnown(w) /\ (w = u => FlowKnown(u))
      BY DEF LinksInv
    <3>2. CASE w = u
      BY <2>1, <2>2, <2>3, <2>4, <2>6, <3>1, <3>2, LinksTyped DEF FlowKnown, Held, alProvider
    <3>3. CASE w # u
      <4>1. alFlow'[w] = alFlow[w]
        BY <2>4, <3>3
      <4>2. alFlow[w] # NoFlow => alFlow[w].batch \subseteq AlMerges
        BY LinksRows, LinksTyped
      <4>3. alFlow[w].hit # NoLookup => alFlow[w].hit.m \in AlMerges
        BY LinksRows, LinksTyped
      <4> QED
        BY <2>1, <2>6, <3>1, <4>1, <4>2, <4>3 DEF FlowKnown, LookupKnown, Held, alProvider
    <3> QED
      BY <3>2, <3>3
  <2>9. ASSUME NEW m \in AlMerges PROVE MergeKnown(m)'
    <3>1. MergeKnown(m)
      BY DEF LinksInv
    <3> QED
      BY <2>1, <2>2, <2>6, <3>1 DEF MergeKnown, LookupKnown, Held, alProvider
  <2>10. ASSUME NEW w \in AlUsers, Scanned(w)'
         PROVE  /\ \A m \in AlMerges : ComesLate(w, alDelivery[m])'
                /\ \A v \in AlUsers : ComesLate(w, alFlow[v].hit)'
                /\ \A m \in AlMerges : ToFind(w, m)' =>
                     /\ ~ alLink'[w].filled
                     /\ m \in alFlow'[w].batch
                        \/ (alFlow'[w].pc = "write" /\ alFlow'[w].hit.m = m)
    <3>1. Scanned(w)
      BY <2>1, <2>3, <2>4, <2>10 DEF Scanned, LinkRow
    <3>2. NoneMissed(w)
      BY DEF LinksInv
    <3>3. \A m \in AlMerges : ComesLate(w, alDelivery[m])'
      BY <2>1, <3>1, <3>2 DEF NoneMissed, ComesLate
    <3>4. ASSUME NEW v \in AlUsers PROVE ComesLate(w, alFlow[v].hit)'
      <4>1. ComesLate(w, alFlow'[v].hit)
        BY <2>3, <2>4, <3>1, <3>2, LinksRows, LinksTyped DEF NoneMissed, ComesLate, Scanned
      <4> QED
        BY <2>1, <4>1 DEF ComesLate
    <3>5. ASSUME NEW m \in AlMerges, ToFind(w, m)'
          PROVE  /\ ~ alLink'[w].filled
                 /\ m \in alFlow'[w].batch \/ (alFlow'[w].pc = "write" /\ alFlow'[w].hit.m = m)
      <4>1. m # l.m /\ ToFind(w, m)
        BY <2>1, <2>6, <3>1, <3>5 DEF ToFind
      <4> QED
        BY <2>0, <2>1, <2>3, <2>4, <3>1, <3>2, <4>1 DEF NoneMissed
    <3> QED
      BY <3>3, <3>4, <3>5
  <2>11. \A w \in AlUsers : NoneMissed(w)'
    BY <2>10 DEF NoneMissed
  <2> QED
    BY <2>1, <2>7, <2>8, <2>9, <2>11 DEF LinksInv, Held, alProvider
<1>2. ASSUME NEW d \in AlMerges, DeliveryWrites(d) PROVE LinksInv'
  <2>0. PICK l : l = alDelivery[d]
    OBVIOUS
  <2>1. /\ l # NoLookup /\ alMerge' = Recorded(l)
        /\ alDelivery' = [alDelivery EXCEPT ![d] = NoLookup]
        /\ UNCHANGED <<alProvider, alLink, alFlow>>
    BY <1>2, <2>0 DEF DeliveryWrites
  <2>2. l \in Lookup /\ LookupKnown(l) /\ l.m = d
    BY <2>0, <2>1, LinksRows DEF LinksInv, MergeKnown
  <2>3. /\ alDelivery'[d] = NoLookup /\ alDelivery' \in [AlMerges -> Lookup \cup {NoLookup}]
        /\ \A m \in AlMerges : m # d => alDelivery'[m] = alDelivery[m]
    BY <2>1 DEF LinksInv, LinksTypeOK
  <2>4. \A w \in AlUsers : Scanned(w) => ComesLate(w, l)
    BY <2>0 DEF LinksInv, NoneMissed
  <2>5. UNCHANGED <<alProvider, alLink>> /\ alMerge' = Recorded(l)
    BY <2>1
  <2>6. /\ alMerge' \in [AlMerges -> AlMergeRow \cup {NoMergeRow}]
        /\ \A k \in AlMerges : k # d => alMerge'[k] = alMerge[k]
        /\ \A k \in AlMerges : alMerge[k] # NoMergeRow =>
             alMerge'[k] # NoMergeRow /\ alMerge'[k].acc = alMerge[k].acc
        /\ \A k \in AlMerges : alMerge'[k] # NoMergeRow =>
             /\ alName'[alMerge'[k].acc] # AlNone /\ Held(alMerge[k].acc, alMerge[k].name)'
             /\ alMerge'[k].user = AlNone => alMerge'[k].waits
             /\ alMerge'[k].user = AlNone \/ alMerge'[k].right
        /\ \A w \in AlUsers : Scanned(w) => ~ ToFind(w, l.m)'
    BY <2>2, <2>4, <2>5, RowRecorded
  <2>7. LinksTypeOK'
    BY <2>1, <2>3, <2>6 DEF LinksInv, LinksTypeOK, alProvider
  <2>8. ASSUME NEW w \in AlUsers PROVE FlowKnown(w)'
    <3>1. FlowKnown(w)
      BY DEF LinksInv
    <3>2. alFlow[w] # NoFlow => alFlow[w].batch \subseteq AlMerges
      BY LinksRows, LinksTyped
    <3>3. alFlow[w].hit # NoLookup => alFlow[w].hit.m \in AlMerges
      BY LinksRows, LinksTyped
    <3> QED
      BY <2>1, <2>6, <3>1, <3>2, <3>3 DEF FlowKnown, LookupKnown, Held, alProvider
  <2>9. ASSUME NEW m \in AlMerges PROVE MergeKnown(m)'
    <3>1. MergeKnown(m)
      BY DEF LinksInv
    <3> QED
      BY <2>1, <2>3, <2>6, <3>1 DEF MergeKnown, LookupKnown, Held, alProvider
  <2>10. ASSUME NEW w \in AlUsers, Scanned(w)'
         PROVE  /\ \A m \in AlMerges : ComesLate(w, alDelivery[m])'
                /\ \A v \in AlUsers : ComesLate(w, alFlow[v].hit)'
                /\ \A m \in AlMerges : ToFind(w, m)' =>
                     /\ ~ alLink'[w].filled
                     /\ m \in alFlow'[w].batch
                        \/ (alFlow'[w].pc = "write" /\ alFlow'[w].hit.m = m)
    <3>1. Scanned(w)
      BY <2>1, <2>10 DEF Scanned, LinkRow
    <3>2. NoneMissed(w)
      BY DEF LinksInv
    <3>3. ASSUME NEW m \in AlMerges PROVE ComesLate(w, alDelivery[m])'
      <4>1. ComesLate(w, alDelivery'[m])
        BY <2>3, <3>1, <3>2, LinksRows, LinksTyped DEF NoneMissed, ComesLate, Scanned
      <4> QED
        BY <2>1, <4>1 DEF ComesLate
    <3>4. \A v \in AlUsers : ComesLate(w, alFlow[v].hit)'
      BY <2>1, <3>1, <3>2 DEF NoneMissed, ComesLate
    <3>5. ASSUME NEW m \in AlMerges, ToFind(w, m)'
          PROVE  /\ ~ alLink'[w].filled
                 /\ m \in alFlow'[w].batch \/ (alFlow'[w].pc = "write" /\ alFlow'[w].hit.m = m)
      <4>1. m # d /\ ToFind(w, m)
        BY <2>1, <2>2, <2>6, <3>1, <3>5 DEF ToFind
      <4> QED
        BY <2>1, <3>1, <3>2, <4>1 DEF NoneMissed
    <3> QED
      BY <3>3, <3>4, <3>5
  <2>11. \A w \in AlUsers : NoneMissed(w)'
    BY <2>10 DEF NoneMissed
  <2> QED
    BY <2>1, <2>7, <2>8, <2>9, <2>11 DEF LinksInv, Held, alProvider
<1> QED
  BY <1>1, <1>2

LEMMA LinksStep == LinksInv /\ [LinksNext]_alVars => LinksInv'
<1> SUFFICES ASSUME LinksInv, [LinksNext]_alVars PROVE LinksInv'
  OBVIOUS
<1>t. LinksTypeOK
  BY DEF LinksInv
\* A name that goes from one account to another is noted.
<1>1. ASSUME NEW a \in AlAccounts, NEW n \in AlNames, TakeName(a, n) PROVE LinksInv'
  <2>1. /\ alHolder'[n] = a
        /\ \A k \in AlNames : k # n => alHolder'[k] = alHolder[k]
        /\ alPassed \subseteq alPassed' /\ (alHolder[n] \notin {a, AlNone} => n \in alPassed')
    BY <1>1, <1>t DEF TakeName, LinksTypeOK
  <2>2. /\ alName'[a] = n /\ n # AlNone
        /\ \A b \in AlAccounts : b # a => alName'[b] = alName[b] /\ alName[b] # n
    BY <1>1, <1>t, LinksTyped DEF TakeName, LinksTypeOK
  <2>3. ASSUME NEW b \in AlAccounts, NEW k \in AlNames, Held(b, k) PROVE Held(b, k)'
    BY <2>1, <2>3, LinksTyped DEF Held
  <2>4. LinksTypeOK'
    BY <1>1, <1>t DEF TakeName, LinksTypeOK
  <2>5. \A b \in AlAccounts : alName'[b] # AlNone => alHolder'[alName'[b]] = b
    BY <1>t, <2>1, <2>2 DEF LinksInv, LinksTypeOK
  <2>6. UNCHANGED <<alLink, alFlow, alMerge, alDelivery>>
    BY <1>1 DEF TakeName
  <2>7. \A u \in AlUsers : alLink'[u] # NoLink => Held(alLink[u].acc, alLink[u].name)'
    BY <2>3, <2>6, LinksTyped, LinksRows DEF LinksInv, Held
  <2>8. ASSUME NEW l \in Lookup, LookupKnown(l) PROVE LookupKnown(l)'
    BY <2>2, <2>3, <2>6, <2>8, LinksTyped DEF LookupKnown
  <2>9. ASSUME NEW u \in AlUsers PROVE FlowKnown(u)'
    <3>1. FlowKnown(u)
      BY DEF LinksInv
    <3>2. alFlow'[u] # NoFlow => Held(alFlow[u].acc, alFlow[u].name)'
      BY <2>3, <2>6, <3>1, LinksTyped, LinksRows DEF FlowKnown, Held
    <3>3. ASSUME alFlow[u] # NoFlow, NEW m \in alFlow[u].batch
          PROVE  alMerge[m] # NoMergeRow /\ Held(alMerge[m].acc, alFlow[u].name)'
      <4>1. /\ alMerge[m] # NoMergeRow /\ Held(alMerge[m].acc, alFlow[u].name)
            /\ m \in AlMerges /\ alFlow[u].name \in AlNames
        BY <3>1, <3>3, LinksTyped, LinksRows DEF FlowKnown
      <4> QED
        BY <2>3, <2>6, <4>1, LinksTyped, LinksRows DEF Held
    <3>4. alFlow[u].hit # NoLookup => LookupKnown(alFlow[u].hit)'
      <4> SUFFICES ASSUME alFlow[u].hit # NoLookup PROVE LookupKnown(alFlow[u].hit)'
        OBVIOUS
      <4>0. PICK l : l = alFlow[u].hit
        OBVIOUS
      <4>1. l \in Lookup /\ LookupKnown(l)
        BY <3>1, <4>0, LinksRows DEF FlowKnown
      <4> QED
        BY <2>6, <2>8, <4>0, <4>1 DEF LookupKnown, Held
    <3> QED
      BY <2>6, <3>1, <3>2, <3>3, <3>4 DEF FlowKnown, Held
  <2>10. ASSUME NEW m \in AlMerges PROVE MergeKnown(m)'
    <3>1. MergeKnown(m)
      BY DEF LinksInv
    <3>2. alMerge'[m] # NoMergeRow =>
            /\ alName'[alMerge'[m].acc] # AlNone /\ Held(alMerge[m].acc, alMerge[m].name)'
      BY <2>2, <2>3, <2>6, <3>1, LinksTyped, LinksRows DEF MergeKnown, Held
    <3>3. alDelivery[m] # NoLookup => LookupKnown(alDelivery[m])'
      <4> SUFFICES ASSUME alDelivery[m] # NoLookup PROVE LookupKnown(alDelivery[m])'
        OBVIOUS
      <4>0. PICK l : l = alDelivery[m]
        OBVIOUS
      <4>1. l \in Lookup /\ LookupKnown(l)
        BY <3>1, <4>0, LinksRows DEF MergeKnown
      <4> QED
        BY <2>6, <2>8, <4>0, <4>1 DEF LookupKnown, Held
    <3> QED
      BY <2>6, <3>1, <3>2, <3>3 DEF MergeKnown
  <2>11. \A u \in AlUsers : NoneMissed(u)'
    BY <2>6 DEF LinksInv, NoneMissed, Scanned, ComesLate, ToFind, LinkRow
  <2> QED
    BY <2>4, <2>5, <2>7, <2>9, <2>10, <2>11 DEF LinksInv
<1>2. ASSUME NEW u \in AlUsers, NEW a \in AlAccounts,
             GitHubReturns(u, a) \/ HuggingFaceReturns(u, a)
      PROVE  LinksInv'
  <2> DEFINE g == [pc |-> "link", acc |-> a, name |-> alName[a],
                   batch |-> {}, hit |-> NoLookup]
  <2>1. /\ alName[a] # AlNone /\ alFlow[u] = NoFlow /\ alFlow' = [alFlow EXCEPT ![u] = g]
        /\ UNCHANGED <<alProvider, alLink, alMerge, alDelivery>>
    BY <1>2 DEF GitHubReturns, HuggingFaceReturns, ReadIdentity
  <2>2. alName[a] \in AlNames /\ Held(a, alName[a])
    BY <1>t, <2>1 DEF LinksInv, LinksTypeOK, Held
  <2>3. /\ g \in LinkFlow /\ g.pc = "link" /\ g.acc = a /\ g.name = alName[a]
        /\ g.batch = {} /\ g.hit = NoLookup
    BY <2>2 DEF LinkFlow
  <2> HIDE DEF g
  <2>4. alFlow'[u] = g
    BY <1>t, <2>1 DEF LinksTypeOK
  <2>5. FlowKnown(u)'
    BY <2>1, <2>2, <2>3, <2>4 DEF FlowKnown, Held, alProvider
  <2>6. Scanned(u)' => Scanned(u) /\ alLink[u].filled
    BY <2>1, <2>3, <2>4 DEF Scanned
  <2>7. Scanned(u)' => \A m \in AlMerges : ~ ToFind(u, m)
    BY <2>6 DEF LinksInv, NoneMissed
  <2>8. \A w \in AlUsers : Scanned(w) => ComesLate(w, g.hit)
    BY <2>3, LinksTyped, LinksRows DEF ComesLate, Scanned
  <2> QED
    BY <2>1, <2>3, <2>5, <2>6, <2>7, <2>8, FlowMoves
<1>3. ASSUME NEW u \in AlUsers, LinkAccount(u) PROVE LinksInv'
  <2> DEFINE f == alFlow[u]
  <2>1. f.pc = "link" /\ f # NoFlow /\ f \in LinkFlow
    BY <1>3, <1>t, LinksTyped DEF LinkAccount, LinksTypeOK
  <2>2. CASE LinkedTo(f.acc) \subseteq {u}
    <3> DEFINE row == LinkRow(u, f.acc, f.name)
               g == [f EXCEPT !.pc = "scan"]
    <3>1. /\ alLink' = [alLink EXCEPT ![u] = row] /\ alFlow' = [alFlow EXCEPT ![u] = g]
          /\ UNCHANGED <<alProvider, alMerge, alDelivery>>
      BY <1>3, <2>2 DEF LinkAccount
    <3>2. /\ row \in AccountLink /\ row.acc = f.acc /\ row.name = f.name /\ ~ row.filled
          /\ Held(row.acc, row.name)
      BY <2>1 DEF LinkRow, AccountLink, LinkFlow, LinksInv, FlowKnown
    <3>3. /\ g \in LinkFlow /\ g.pc = "scan" /\ g.acc = f.acc /\ g.name = f.name
          /\ g.batch = f.batch /\ g.hit = f.hit
      BY <2>1 DEF LinkFlow
    <3> HIDE DEF row, g
    <3>4. /\ alLink' \in [AlUsers -> AccountLink \cup {NoLink}] /\ alLink'[u] = row
          /\ \A v \in AlUsers : v # u => alLink'[v] = alLink[v]
      BY <1>t, <3>1, <3>2 DEF LinksTypeOK
    <3>5. /\ alFlow' \in [AlUsers -> LinkFlow \cup {NoFlow}] /\ alFlow'[u] = g
          /\ \A v \in AlUsers : v # u => alFlow'[v] = alFlow[v]
      BY <1>t, <3>1, <3>3 DEF LinksTypeOK
    <3>6. LinksTypeOK'
      BY <1>t, <3>1, <3>4, <3>5 DEF LinksTypeOK, alProvider
    <3>7. \A v \in AlUsers : alLink'[v] # NoLink => Held(alLink[v].acc, alLink[v].name)'
      BY <3>1, <3>2, <3>4 DEF LinksInv, Held, alProvider
    <3>8. ASSUME NEW w \in AlUsers PROVE FlowKnown(w)'
      <4>1. FlowKnown(w) /\ (w = u => f # NoFlow /\ f.hit = NoLookup)
        BY <2>1 DEF LinksInv, FlowKnown
      <4>2. CASE w = u
        BY <2>1, <3>1, <3>3, <3>5, <4>1, <4>2 DEF FlowKnown, Held, alProvider
      <4>3. CASE w # u
        BY <3>1, <3>5, <4>1, <4>3 DEF FlowKnown, LookupKnown, Held, alProvider
      <4> QED
        BY <4>2, <4>3
    <3>9. \A m \in AlMerges : MergeKnown(m)'
      BY <3>1 DEF LinksInv, MergeKnown, LookupKnown, Held, alProvider
    <3>10. ASSUME NEW w \in AlUsers PROVE NoneMissed(w)'
      <4>1. CASE w = u
        BY <3>2, <3>3, <3>4, <3>5, <4>1 DEF NoneMissed, Scanned
      <4>2. CASE w # u
        <5>1. NoneMissed(w) /\ alLink'[w] = alLink[w] /\ alFlow'[w] = alFlow[w]
          BY <3>4, <3>5, <4>2 DEF LinksInv
        <5>2. \A v \in AlUsers : alFlow'[v].hit = alFlow[v].hit
          BY <3>3, <3>5
        <5>3. Scanned(w)' <=> Scanned(w)
          BY <5>1 DEF Scanned, LinkRow
        <5>4. \A m \in AlMerges : ComesLate(w, alDelivery[m])' <=> ComesLate(w, alDelivery[m])
          BY <3>1, <5>1 DEF ComesLate
        <5>5. \A v \in AlUsers : ComesLate(w, alFlow[v].hit)' <=> ComesLate(w, alFlow[v].hit)
          BY <5>1, <5>2 DEF ComesLate
        <5>6. \A m \in AlMerges : ToFind(w, m)' <=> ToFind(w, m)
          BY <3>1, <5>1 DEF ToFind
        <5> QED
          BY <5>1, <5>3, <5>4, <5>5, <5>6 DEF NoneMissed
      <4> QED
        BY <4>1, <4>2
    <3> QED
      BY <3>1, <3>6, <3>7, <3>8, <3>9, <3>10 DEF LinksInv, alProvider
  <2>3. CASE ~ (LinkedTo(f.acc) \subseteq {u})
    <3>1. /\ alFlow' = [alFlow EXCEPT ![u] = NoFlow]
          /\ UNCHANGED <<alProvider, alLink, alMerge, alDelivery>>
      BY <1>3, <2>3 DEF LinkAccount
    <3> QED
      BY <3>1, FlowStops
  <2> QED
    BY <2>2, <2>3
\* A backfill that has looked at every row that it read leaves none to find.
<1>4. ASSUME NEW u \in AlUsers, BackfillEnds(u) PROVE LinksInv'
  <2> DEFINE f == alFlow[u]
             row == LinkRow(u, f.acc, f.name)
             new == [row EXCEPT !.filled = TRUE]
  <2>1. /\ f.pc = "backfill" /\ f.batch = {} /\ f # NoFlow /\ f \in LinkFlow
        /\ f.hit = NoLookup
    <3>1. f.pc = "backfill" /\ f.batch = {} /\ f # NoFlow
      BY <1>4, LinksTyped DEF BackfillEnds
    <3> QED
      BY <3>1, LinksRows DEF LinksInv, FlowKnown
  <2>2. alFlow' = [alFlow EXCEPT ![u] = NoFlow] /\ UNCHANGED <<alProvider, alMerge, alDelivery>>
    BY <1>4 DEF BackfillEnds
  <2>3. CASE alLink[u] # row
    <3>1. alLink' = alLink
      BY <1>4, <1>t, <2>3 DEF BackfillEnds, LinksTypeOK
    <3> QED
      BY <2>2, <3>1, FlowStops
  <2>4. CASE alLink[u] = row
    <3>1. row \in AccountLink /\ row.acc = f.acc /\ row.name = f.name
      BY <2>1 DEF LinkRow, AccountLink, LinkFlow
    <3>2. alLink' = [alLink EXCEPT ![u] = new]
      BY <1>4, <2>4 DEF BackfillEnds
    <3>3. new \in AccountLink /\ new.acc = f.acc /\ new.name = f.name /\ new # NoLink
      BY <3>1, LinksTyped DEF AccountLink
    <3> HIDE DEF row, new
    <3>4. /\ alLink' \in [AlUsers -> AccountLink \cup {NoLink}]
          /\ alLink'[u] = new /\ \A v \in AlUsers : v # u => alLink'[v] = alLink[v]
      BY <1>t, <3>2, <3>3 DEF LinksTypeOK
    <3>5. /\ alFlow'[u] = NoFlow /\ \A v \in AlUsers : v # u => alFlow'[v] = alFlow[v]
          /\ alFlow' \in [AlUsers -> LinkFlow \cup {NoFlow}]
          /\ \A v \in AlUsers : alFlow'[v].hit = alFlow[v].hit
      BY <1>t, <2>1, <2>2, LinksTyped DEF LinksTypeOK
    <3>6. LinksTypeOK'
      BY <1>t, <2>2, <3>4, <3>5 DEF LinksTypeOK, alProvider
    <3>7. \A v \in AlUsers : alLink'[v] # NoLink => Held(alLink[v].acc, alLink[v].name)'
      <4>1. Held(f.acc, f.name)
        BY <2>1 DEF LinksInv, FlowKnown
      <4> QED
        BY <2>2, <3>3, <3>4, <4>1 DEF LinksInv, Held, alProvider
    <3>8. ASSUME NEW w \in AlUsers PROVE FlowKnown(w)'
      <4>1. FlowKnown(w)
        BY DEF LinksInv
      <4>2. CASE w = u
        BY <3>5, <4>2, LinksTyped DEF FlowKnown
      <4>3. CASE w # u
        BY <2>2, <3>5, <4>1, <4>3 DEF FlowKnown, LookupKnown, Held, alProvider
      <4> QED
        BY <4>2, <4>3
    <3>9. \A m \in AlMerges : MergeKnown(m)'
      BY <2>2 DEF LinksInv, MergeKnown, LookupKnown, Held, alProvider
    <3>10. ASSUME NEW w \in AlUsers PROVE NoneMissed(w)'
      <4>1. NoneMissed(w)
        BY DEF LinksInv
      <4>2. CASE w = u
        <5>1. Scanned(u)
          BY <2>1, <2>4, <3>1, LinksTyped DEF Scanned, row
        <5>2. \A m \in AlMerges : ~ ToFind(u, m)
          BY <2>1, <4>1, <4>2, <5>1 DEF NoneMissed
        <5>3. alLink'[u].acc = alLink[u].acc /\ alLink'[u].name = alLink[u].name
          BY <2>4, <3>1, <3>3, <3>4
        <5>4. \A m \in AlMerges : ~ ToFind(u, m)'
          BY <2>2, <5>2, <5>3 DEF ToFind
        <5>5. /\ \A m \in AlMerges : ComesLate(u, alDelivery[m])'
              /\ \A v \in AlUsers : ComesLate(u, alFlow[v].hit)'
          BY <2>2, <3>5, <4>1, <4>2, <5>1, <5>3 DEF NoneMissed, ComesLate
        <5> QED
          BY <4>2, <5>4, <5>5 DEF NoneMissed
      <4>3. CASE w # u
        <5>1. alLink'[w] = alLink[w] /\ alFlow'[w] = alFlow[w]
          BY <3>4, <3>5, <4>3
        <5>2. Scanned(w)' <=> Scanned(w)
          BY <5>1 DEF Scanned, LinkRow
        <5>3. \A m \in AlMerges : ComesLate(w, alDelivery[m])' <=> ComesLate(w, alDelivery[m])
          BY <2>2, <5>1 DEF ComesLate
        <5>4. \A v \in AlUsers : ComesLate(w, alFlow[v].hit)' <=> ComesLate(w, alFlow[v].hit)
          BY <3>5, <5>1 DEF ComesLate
        <5>5. \A m \in AlMerges : ToFind(w, m)' <=> ToFind(w, m)
          BY <2>2, <5>1 DEF ToFind
        <5> QED
          BY <4>1, <5>1, <5>2, <5>3, <5>4, <5>5 DEF NoneMissed
      <4> QED
        BY <4>2, <4>3
    <3> QED
      BY <2>2, <3>6, <3>7, <3>8, <3>9, <3>10 DEF LinksInv, alProvider
  <2> QED
    BY <2>3, <2>4
<1>5. ASSUME NEW u \in AlUsers, FlowDies(u) PROVE LinksInv'
  BY <1>5, FlowStops DEF FlowDies
<1>6. ASSUME NEW u \in AlUsers, UnlinkAccount(u) PROVE LinksInv'
  <2>1. /\ UNCHANGED <<alProvider, alFlow, alMerge, alDelivery>> /\ alLink'[u] = NoLink
        /\ alLink' \in [AlUsers -> AccountLink \cup {NoLink}]
        /\ \A w \in AlUsers : w # u => alLink'[w] = alLink[w]
    BY <1>6, <1>t DEF UnlinkAccount, LinksTypeOK
  <2>2. LinksTypeOK'
    BY <1>t, <2>1 DEF LinksTypeOK, alProvider
  <2>3. \A w \in AlUsers : alLink'[w] # NoLink => Held(alLink[w].acc, alLink[w].name)'
    BY <2>1 DEF LinksInv, Held, alProvider
  <2>4. /\ \A w \in AlUsers : FlowKnown(w)'
        /\ \A m \in AlMerges : MergeKnown(m)'
    BY <2>1 DEF LinksInv, FlowKnown, MergeKnown, LookupKnown, Held, alProvider
  <2>5. ASSUME NEW w \in AlUsers PROVE NoneMissed(w)'
    <3>1. CASE w = u
      BY <2>1, <3>1 DEF NoneMissed, Scanned
    <3>2. CASE w # u
      <4>1. NoneMissed(w) /\ alLink'[w] = alLink[w]
        BY <2>1, <3>2 DEF LinksInv
      <4>2. Scanned(w)' <=> Scanned(w)
        BY <2>1, <4>1 DEF Scanned, LinkRow
      <4>3. \A m \in AlMerges : ComesLate(w, alDelivery[m])' <=> ComesLate(w, alDelivery[m])
        BY <2>1, <4>1 DEF ComesLate
      <4>4. \A v \in AlUsers : ComesLate(w, alFlow[v].hit)' <=> ComesLate(w, alFlow[v].hit)
        BY <2>1, <4>1 DEF ComesLate
      <4>5. \A m \in AlMerges : ToFind(w, m)' <=> ToFind(w, m)
        BY <2>1, <4>1 DEF ToFind
      <4> QED
        BY <2>1, <4>1, <4>2, <4>3, <4>4, <4>5 DEF NoneMissed
    <3> QED
      BY <3>1, <3>2
  <2> QED
    BY <2>1, <2>2, <2>3, <2>4, <2>5 DEF LinksInv, alProvider
<1>7. ASSUME NEW u \in AlUsers, NEW m \in AlMerges, BackfillLooks(u, m) PROVE LinksInv'
  <2>0. PICK a, n, b : /\ a = alMerge[m].acc
                       /\ n = IF alHub THEN alName[a] ELSE alFlow[u].name
                       /\ b = IF alHub THEN a ELSE alFlow[u].acc
    OBVIOUS
  <2>1. /\ alFlow[u].pc = "backfill" /\ m \in alFlow[u].batch
        /\ UNCHANGED <<alProvider, alLink, alMerge, alDelivery>>
    BY <1>7 DEF BackfillLooks
  <2>2. PICK v \in Hunters(b, n) : alFlow' = [alFlow EXCEPT ![u] =
          [alFlow[u] EXCEPT !.pc = "write", !.batch = alFlow[u].batch \ {m},
                            !.hit = Looked(m, a, n, v)]]
    BY <1>7, <2>0 DEF BackfillLooks
  <2>3. /\ alFlow[u] # NoFlow /\ alFlow[u] \in LinkFlow
        /\ alMerge[m] # NoMergeRow /\ a \in AlAccounts /\ Held(a, alFlow[u].name)
        /\ alName[a] # AlNone
        /\ Held(alFlow[u].acc, alFlow[u].name)
    BY <2>0, <2>1, LinksRows, LinksTyped DEF LinksInv, FlowKnown, MergeKnown
  <2>4. n \in AlNames /\ Held(a, n) /\ b \in AlAccounts /\ (Held(b, n) \/ b = a)
    BY <1>t, <2>0, <2>3, LinksTyped DEF LinksInv, LinksTypeOK, Held
  <2>5. PICK l : l = Looked(m, a, n, v)
    OBVIOUS
  <2>6. /\ l \in Lookup /\ LookupKnown(l) /\ l.m = m
        /\ \A w \in AlUsers : Scanned(w) => ComesLate(w, l)
    BY <2>0, <2>3, <2>4, <2>5, LookedKnown
  <2> DEFINE g == [alFlow[u] EXCEPT !.pc = "write", !.batch = alFlow[u].batch \ {m}, !.hit = l]
  <2>7. /\ g \in LinkFlow /\ g.pc = "write" /\ g.acc = alFlow[u].acc /\ g.name = alFlow[u].name
        /\ g.batch = alFlow[u].batch \ {m} /\ g.hit = l
    BY <2>3, <2>6 DEF LinkFlow
  <2>8. alFlow' = [alFlow EXCEPT ![u] = g]
    BY <2>2, <2>5
  <2> HIDE DEF g
  <2>9. alFlow'[u] = g
    BY <1>t, <2>8 DEF LinksTypeOK
  <2>10. FlowKnown(u)'
    <3>1. FlowKnown(u)
      BY DEF LinksInv
    <3> QED
      BY <2>1, <2>3, <2>6, <2>7, <2>9, <3>1, LinksTyped
         DEF FlowKnown, LookupKnown, Held, alProvider
  <2>11. Scanned(u)' => Scanned(u)
    BY <2>1, <2>7, <2>9 DEF Scanned, LinkRow
  <2>12. Scanned(u)' => \A k \in AlMerges : ToFind(u, k) =>
           k \in g.batch \/ (g.pc = "write" /\ g.hit.m = k)
    <3>1. Scanned(u) => \A k \in AlMerges : ToFind(u, k) => k \in alFlow[u].batch
      BY <2>1 DEF LinksInv, NoneMissed
    <3> QED
      BY <2>6, <2>7, <2>11, <3>1
  <2> QED
    BY <2>1, <2>6, <2>7, <2>8, <2>10, <2>11, <2>12, FlowMoves
<1>8. ASSUME NEW m \in AlMerges, NEW a \in AlAccounts, DeliveryLooks(m, a) PROVE LinksInv'
  <2>0. PICK n : n = IF alMerge[m] = NoMergeRow \/ alHub THEN alName[a] ELSE alMerge[m].name
    OBVIOUS
  <2>1. PICK v \in Hunters(a, n) :
          alDelivery' = [alDelivery EXCEPT ![m] = Looked(m, a, n, v)]
    BY <1>8, <2>0 DEF DeliveryLooks
  <2>2. /\ alName[a] # AlNone /\ (alMerge[m] = NoMergeRow \/ alMerge[m].acc = a)
        /\ UNCHANGED <<alProvider, alLink, alFlow, alMerge>>
    BY <1>8 DEF DeliveryLooks
  <2>3. n \in AlNames /\ Held(a, n)
    BY <1>t, <2>0, <2>2, LinksRows, LinksTyped DEF LinksInv, LinksTypeOK, MergeKnown, Held
  <2>4. PICK l : l = Looked(m, a, n, v)
    OBVIOUS
  <2>5. /\ l \in Lookup /\ LookupKnown(l) /\ l.m = m
        /\ \A w \in AlUsers : Scanned(w) => ComesLate(w, l)
    BY <2>2, <2>3, <2>4, LookedKnown
  <2>6. /\ alDelivery' \in [AlMerges -> Lookup \cup {NoLookup}] /\ alDelivery'[m] = l
        /\ \A k \in AlMerges : k # m => alDelivery'[k] = alDelivery[k]
    BY <1>t, <2>1, <2>4, <2>5 DEF LinksTypeOK
  <2>7. LinksTypeOK'
    BY <1>t, <2>2, <2>6 DEF LinksTypeOK, alProvider
  <2>8. \A u \in AlUsers : FlowKnown(u)'
    BY <2>2 DEF LinksInv, FlowKnown, LookupKnown, Held, alProvider
  <2>9. ASSUME NEW k \in AlMerges PROVE MergeKnown(k)'
    <3>1. MergeKnown(k)
      BY DEF LinksInv
    <3>2. CASE k = m
      BY <2>2, <2>5, <2>6, <3>1, <3>2 DEF MergeKnown, LookupKnown, Held, alProvider
    <3>3. CASE k # m
      BY <2>2, <2>6, <3>1, <3>3 DEF MergeKnown, LookupKnown, Held, alProvider
    <3> QED
      BY <3>2, <3>3
  <2>10. ASSUME NEW u \in AlUsers PROVE NoneMissed(u)'
    <3>1. NoneMissed(u)
      BY DEF LinksInv
    <3>2. Scanned(u)' => \A k \in AlMerges : ComesLate(u, alDelivery'[k])
      BY <2>2, <2>5, <2>6, <3>1 DEF NoneMissed, Scanned, LinkRow
    <3> QED
      BY <2>2, <3>1, <3>2 DEF NoneMissed, Scanned, ComesLate, ToFind, LinkRow
  <2> QED
    BY <2>2, <2>7, <2>8, <2>9, <2>10 DEF LinksInv, Held, alProvider
<1>9. ASSUME NEW m \in AlMerges, DeliveryDies(m) PROVE LinksInv'
  <2>1. /\ UNCHANGED <<alProvider, alLink, alFlow, alMerge>>
        /\ alDelivery' \in [AlMerges -> Lookup \cup {NoLookup}]
        /\ \A k \in AlMerges : alDelivery'[k] \in {alDelivery[k], NoLookup}
    BY <1>9, <1>t DEF DeliveryDies, LinksTypeOK
  <2>2. LinksTypeOK'
    BY <1>t, <2>1 DEF LinksTypeOK, alProvider
  <2>3. /\ \A u \in AlUsers : FlowKnown(u)'
        /\ \A k \in AlMerges : MergeKnown(k)'
    BY <2>1 DEF LinksInv, FlowKnown, MergeKnown, LookupKnown, Held, alProvider
  <2>4. ASSUME NEW u \in AlUsers PROVE NoneMissed(u)'
    <3>1. NoneMissed(u)
      BY DEF LinksInv
    <3>2. Scanned(u)' => \A k \in AlMerges : ComesLate(u, alDelivery'[k])
      BY <2>1, <3>1, LinksRows, LinksTyped DEF NoneMissed, Scanned, ComesLate, LinkRow
    <3> QED
      BY <2>1, <3>1, <3>2 DEF NoneMissed, Scanned, ComesLate, ToFind, LinkRow
  <2> QED
    BY <2>1, <2>2, <2>3, <2>4 DEF LinksInv, Held, alProvider
<1>10. ASSUME UNCHANGED alVars PROVE LinksInv'
  <2>1. LinksTypeOK'
    BY <1>10, <1>t DEF alVars, LinksTypeOK
  <2>2. \A u \in AlUsers : FlowKnown(u)' /\ NoneMissed(u)'
    BY <1>10 DEF alVars, LinksInv, FlowKnown, LookupKnown, Held, NoneMissed, Scanned,
                 ComesLate, ToFind, LinkRow
  <2>3. \A m \in AlMerges : MergeKnown(m)'
    BY <1>10 DEF alVars, LinksInv, MergeKnown, LookupKnown, Held
  <2> QED
    BY <1>10, <2>1, <2>2, <2>3 DEF alVars, LinksInv, Held
<1>11. ASSUME NEW u \in AlUsers, BackfillReads(u) PROVE LinksInv'
  BY <1>11, RowsRead
<1> QED
  BY <1>1, <1>2, <1>3, <1>4, <1>5, <1>6, <1>7, <1>8, <1>9, <1>10, <1>11, RowsWritten
     DEF LinksNext

\* Links, flows, lookups and recorded merges keep their types, whoever connects,
\* renames and unlinks.
LEMMA LinksTypeCorrect == LinksSpec => []LinksTypeOK
<1>1. LinksInv => LinksTypeOK
  BY DEF LinksInv
<1> QED
  BY <1>1, LinksStart, LinksStep, PTL DEF LinksSpec

\* A merge goes to the user who had connected its account when the author was
\* looked for, or through a name that one account gave up and another took; and a
\* backfill that has ended left none of the account's merges under that name
\* behind, save those recorded after it had read the rows, by a lookup from before
\* the link: for any users, accounts, names and merges, whatever is renamed, linked
\* and unlinked between a lookup and its write (github/persist.ts:26, claims.ts:78).
THEOREM AuthorIsFound == LinksSpec => []AuthorFound
<1>1. ASSUME LinksInv PROVE AuthorFound
  <2>1. CreditedToAuthor
    BY <1>1 DEF LinksInv, MergeKnown, CreditedToAuthor
  <2>2. ASSUME NEW u \in AlUsers, NEW m \in AlMerges,
               alLink[u] # NoLink, alLink[u].filled, alMerge[m].acc = alLink[u].acc
        PROVE  alMerge[m].user # AlNone \/ alMerge[m].late \/ alMerge[m].name # alLink[u].name
    BY <1>1, <2>2 DEF LinksInv, NoneMissed, Scanned, ToFind
  <2> QED
    BY <2>1, <2>2 DEF AuthorFound, EarlierMergesFound
<1> QED
  BY LinksStart, LinksStep, <1>1, PTL DEF LinksSpec
-----------------------------------------------------------------------------
(* Posting: what was read before a wait undoes nothing                      *)

\* What a call has read is still so, unless it is marked as stale.
PostingKnows(q) ==
    /\ q.pc = "write" /\ ~ q.stale => poRepo # "app_install"
    /\ q.pc = "signal" /\ ~ q.stale => poSignals = 0
    /\ q.pc \in {"rates", "stamp"} /\ ~ q.stale => q.rates = poRates
    /\ q.pc = "rates" => q.next.fee = q.rates.fee \/ q.next.pool = q.rates.pool

\* A draft that is not posted has no rates.
StampedArePosted == \A d \in DOMAIN poStamp : poBounty[d] # "none"

PostingInv ==
    PostingTypeOK /\ StampedArePosted /\ \A c \in PoCalls : PostingKnows(poCall[c])

LEMMA RatesTyped ==
    /\ DefaultRates \in PlatformRates
    /\ NoPosting \in PostingCall
    /\ \A which \in DOMAIN RateRange :
         /\ which \in {"fee", "pool"}
         /\ RateRange[which] \subseteq Nat
         /\ \A read \in PlatformRates, bps \in RateRange[which] :
              /\ NextRates(read, which, bps) \in PlatformRates
              /\ \/ NextRates(read, which, bps).fee = read.fee
                 \/ NextRates(read, which, bps).pool = read.pool
<1>1. DefaultRates \in PlatformRates
  BY DEF DefaultRates, PlatformRates, RateRange
<1>2. NoPosting \in PostingCall
  BY <1>1 DEF NoPosting, PostingCall, PostingRepos
<1>3. ASSUME NEW which \in DOMAIN RateRange
      PROVE  /\ which \in {"fee", "pool"}
             /\ RateRange[which] \subseteq Nat
             /\ \A read \in PlatformRates, bps \in RateRange[which] :
                  /\ NextRates(read, which, bps) \in PlatformRates
                  /\ \/ NextRates(read, which, bps).fee = read.fee
                     \/ NextRates(read, which, bps).pool = read.pool
  <2>1. which \in {"fee", "pool"}
    BY DEF RateRange
  <2>2. CASE which = "fee"
    BY <2>2 DEF RateRange, PlatformRates, NextRates
  <2>3. CASE which = "pool"
    BY <2>3 DEF RateRange, PlatformRates, NextRates
  <2> QED
    BY <2>1, <2>2, <2>3
<1> QED
  BY <1>1, <1>2, <1>3

LEMMA PostingStarts == PostingInit => PostingInv
<1> SUFFICES ASSUME PostingInit PROVE PostingInv
  OBVIOUS
<1>1. /\ poBounty \in [PoDrafts -> DraftStatus]
      /\ poLock \in [of: PoDrafts \cup {PoNone}, active: BOOLEAN]
      /\ poRepo \in PostingRepos
  <2>1. CASE /\ poLock = [of |-> PoNone, active |-> FALSE] /\ poRepo \in {"none", "hub"}
             /\ poBounty = [d \in PoDrafts |-> "none"]
    BY <2>1 DEF DraftStatus, PostingRepos
  <2>2. CASE \E d \in PoDrafts :
               /\ poLock = [of |-> d, active |-> TRUE] /\ poRepo = "public_reference"
               /\ poBounty = [x \in PoDrafts |-> IF x = d THEN "locked" ELSE "none"]
    BY <2>2 DEF DraftStatus, PostingRepos
  <2> QED
    BY <2>1, <2>2 DEF PostingInit
<1>2. poSignals \in Nat /\ poRates \in PlatformRates /\ DOMAIN poStamp \subseteq PoDrafts
      /\ DOMAIN poStamp = {}
  BY RatesTyped DEF PostingInit
<1>3. poCall \in [PoCalls -> PostingCall] /\ \A c \in PoCalls : poCall[c] = NoPosting
  BY RatesTyped DEF PostingInit
<1> QED
  BY <1>1, <1>2, <1>3 DEF PostingInv, PostingTypeOK, StampedArePosted, PostingKnows, NoPosting

\* A call goes on, and what the others have read is as it was.
LEMMA PostingCallOnly ==
    ASSUME PostingInv, NEW c \in PoCalls, NEW q \in PostingCall,
           poCall' = [poCall EXCEPT ![c] = q], PostingKnows(q),
           UNCHANGED <<poRepo, poSignals, poRates>>,
           poBounty' \in [PoDrafts -> DraftStatus],
           poLock' \in [of: PoDrafts \cup {PoNone}, active: BOOLEAN],
           DOMAIN poStamp' \subseteq PoDrafts, StampedArePosted'
    PROVE  PostingInv'
<1>1. PostingTypeOK'
  BY DEF PostingInv, PostingTypeOK
<1>2. ASSUME NEW d \in PoCalls PROVE PostingKnows(poCall[d])'
  <2>1. poCall'[d] = IF d = c THEN q ELSE poCall[d]
    BY DEF PostingInv, PostingTypeOK
  <2>2. PostingKnows(poCall'[d])
    BY <2>1 DEF PostingInv
  <2> QED
    BY <2>2 DEF PostingKnows
<1> QED
  BY <1>1, <1>2 DEF PostingInv

\* A call ends with a write, and the calls that have read what it wrote are stale.
\* The same where the call is all that changes.
LEMMA PostingGoesOn ==
    ASSUME PostingInv, NEW c \in PoCalls, NEW q \in PostingCall,
           poCall' = [poCall EXCEPT ![c] = q], PostingKnows(q),
           UNCHANGED <<poBounty, poLock, poRepo, poSignals, poRates, poStamp>>
    PROVE  PostingInv'
<1>1. StampedArePosted'
  BY DEF PostingInv, StampedArePosted
<1> QED
  BY <1>1, PostingCallOnly DEF PostingInv, PostingTypeOK

LEMMA PostingOutdates ==
    ASSUME PostingInv, NEW c \in PoCalls, NEW pcs, PoEndOutdating(c, pcs),
           UNCHANGED <<poBounty, poLock, poStamp>>,
           poRepo' \in PostingRepos, poSignals' \in Nat, poRates' \in PlatformRates,
           poRepo' = poRepo \/ "write" \in pcs,
           poSignals' = poSignals \/ "signal" \in pcs,
           poRates' = poRates \/ {"rates", "stamp"} \subseteq pcs
    PROVE  PostingInv'
<1>1. ASSUME NEW d \in PoCalls, d # c
      PROVE  /\ poCall'[d] \in PostingCall
             /\ poCall'[d].pc = poCall[d].pc /\ poCall'[d].saw = poCall[d].saw
             /\ poCall'[d].rates = poCall[d].rates /\ poCall'[d].next = poCall[d].next
             /\ poCall'[d].stale = (poCall[d].stale \/ poCall[d].pc \in pcs)
  <2>1. poCall[d] \in PostingCall
    BY DEF PostingInv, PostingTypeOK
  <2>2. poCall'[d] = [poCall[d] EXCEPT !.stale = poCall[d].stale \/ poCall[d].pc \in pcs]
    BY <1>1 DEF PoEndOutdating
  <2> QED
    BY <2>1, <2>2 DEF PostingCall
<1>2. poCall'[c] = NoPosting
  BY DEF PoEndOutdating
<1>3. poCall' \in [PoCalls -> PostingCall]
  <2>1. \A d \in PoCalls : poCall'[d] \in PostingCall
    BY <1>1, <1>2, RatesTyped
  <2> QED
    BY <2>1 DEF PoEndOutdating
<1>4. ASSUME NEW d \in PoCalls PROVE PostingKnows(poCall[d])'
  <2>1. CASE d = c
    BY <1>2, <2>1 DEF PostingKnows, NoPosting
  <2>2. CASE d # c
    <3>1. PostingKnows(poCall[d])
      BY DEF PostingInv
    <3> QED
      BY <1>1, <2>2, <3>1 DEF PostingKnows
  <2> QED
    BY <2>1, <2>2
<1> QED
  BY <1>3, <1>4 DEF PostingInv, PostingTypeOK, StampedArePosted

LEMMA PostingStep == PostingInv /\ [PostingNext]_poVars => PostingInv'
<1> SUFFICES ASSUME PostingInv, [PostingNext]_poVars PROVE PostingInv'
  OBVIOUS
<1>t. /\ poBounty \in [PoDrafts -> DraftStatus]
      /\ poLock \in [of: PoDrafts \cup {PoNone}, active: BOOLEAN]
      /\ poRepo \in PostingRepos /\ poSignals \in Nat /\ poRates \in PlatformRates
      /\ DOMAIN poStamp \subseteq PoDrafts
      /\ poCall \in [PoCalls -> PostingCall]
  BY DEF PostingInv, PostingTypeOK
<1>p. StampedArePosted
  BY DEF PostingInv
\* New records of a call: at a step of which nothing is known, or just read.
<1>r. /\ \A pc \in {"repo", "insert", "connect", "drain"}, saw \in PostingRepos :
           LET q == [NoPosting EXCEPT !.pc = pc, !.saw = saw]
           IN  q \in PostingCall /\ PostingKnows(q)
      /\ NoPosting \in PostingCall /\ PostingKnows(NoPosting)
      /\ \A q \in PostingCall, pc \in {"repo", "insert"} :
           [q EXCEPT !.pc = pc] \in PostingCall /\ PostingKnows([q EXCEPT !.pc = pc])
  BY RatesTyped DEF NoPosting, PostingCall, PostingKnows
<1>1. ASSUME NEW c \in PoCalls,
             FetchIssue(c) \/ FetchDiscussion(c) \/ ConfirmInstallation(c) \/ ReadLocks(c)
      PROVE  PostingInv'
  <2>1. PICK pc \in {"repo", "insert", "connect", "drain"}, saw \in PostingRepos :
           poCall' = [poCall EXCEPT ![c] = [NoPosting EXCEPT !.pc = pc, !.saw = saw]]
    BY <1>1, <1>t DEF FetchIssue, FetchDiscussion, ConfirmInstallation, ReadLocks, PoBegin,
                      PostingRepos
  <2>2. UNCHANGED <<poBounty, poLock, poRepo, poSignals, poRates, poStamp>>
    BY <1>1 DEF FetchIssue, FetchDiscussion, ConfirmInstallation, ReadLocks
  <2> QED
    BY <1>t, <1>r, <2>1, <2>2, PostingGoesOn
<1>2. ASSUME NEW c \in PoCalls, GiveUpPosting(c) PROVE PostingInv'
  BY <1>2, <1>t, <1>r, PostingGoesOn DEF GiveUpPosting, PoEnd
<1>3. ASSUME NEW c \in PoCalls, ReadRepo(c) PROVE PostingInv'
  <2> DEFINE q == [NoPosting EXCEPT !.pc = IF OwnedByApp(poRepo) THEN "insert" ELSE "write",
                                    !.saw = poRepo]
  <2>1. q \in PostingCall /\ PostingKnows(q)
    BY <1>t, RatesTyped DEF NoPosting, PostingCall, PostingKnows, OwnedByApp
  <2>2. poCall' = [poCall EXCEPT ![c] = q]
    BY <1>3 DEF ReadRepo
  <2> HIDE DEF q
  <2> QED
    BY <1>3, <1>t, <2>1, <2>2, PostingGoesOn DEF ReadRepo
<1>4. ASSUME NEW c \in PoCalls, WriteRepo(c) PROVE PostingInv'
  <2>1. CASE poCall[c].saw = "none" /\ poRepo # "none"
    BY <1>4, <1>t, <1>r, <2>1, PostingGoesOn DEF WriteRepo, PoGoto
  <2>2. CASE ~ (poCall[c].saw = "none" /\ poRepo # "none")
    <3>1. /\ poCall' = [poCall EXCEPT ![c] = [poCall[c] EXCEPT !.pc = "insert"]]
          /\ poRepo' = "public_reference"
      BY <1>4, <2>2 DEF WriteRepo, PoGoto
    <3>2. poCall' \in [PoCalls -> PostingCall]
      BY <1>t, <1>r, <3>1
    <3>3. ASSUME NEW d \in PoCalls PROVE PostingKnows(poCall[d])'
      <4>1. poCall'[d] = IF d = c THEN [poCall[c] EXCEPT !.pc = "insert"] ELSE poCall[d]
        BY <1>t, <3>1
      <4>2. PostingKnows(poCall'[d])
        BY <1>t, <1>r, <4>1 DEF PostingInv
      <4> QED
        BY <1>4, <3>1, <4>2 DEF WriteRepo, PostingKnows
    <3> QED
      BY <1>4, <1>t, <3>1, <3>2, <3>3 DEF WriteRepo, PostingInv, PostingTypeOK, StampedArePosted,
                                         PostingRepos
  <2> QED
    BY <2>1, <2>2
<1>5. ASSUME NEW c \in PoCalls, ReadRates(c) PROVE PostingInv'
  <2> DEFINE q == [NoPosting EXCEPT !.pc = "stamp", !.rates = poRates]
  <2>1. q \in PostingCall /\ PostingKnows(q)
    BY <1>t, RatesTyped DEF NoPosting, PostingCall, PostingKnows
  <2>2. poCall' = [poCall EXCEPT ![c] = q]
    BY <1>5 DEF ReadRates
  <2> HIDE DEF q
  <2> QED
    BY <1>5, <1>t, <2>1, <2>2, PostingGoesOn DEF ReadRates
<1>6. ASSUME NEW c \in PoCalls, InsertBounty(c) PROVE PostingInv'
  <2>1. /\ poBounty' \in [PoDrafts -> DraftStatus] /\ DOMAIN poStamp' \subseteq PoDrafts
        /\ StampedArePosted'
    <3>1. CASE OnIssue = {}
      <4>1. PICK d \in PoDrafts :
               /\ poBounty' = [poBounty EXCEPT ![d] = "pending_fund"]
               /\ poStamp' = [x \in DOMAIN poStamp \cup {d} |->
                                IF x = d THEN poCall[c].rates ELSE poStamp[x]]
        BY <1>6, <3>1 DEF InsertBounty
      <4>2. DOMAIN poStamp' = DOMAIN poStamp \cup {d}
        BY <4>1
      <4> QED
        BY <1>t, <1>p, <4>1, <4>2 DEF DraftStatus, StampedArePosted
    <3>2. CASE OnIssue # {}
      BY <1>6, <1>t, <1>p, <3>2 DEF InsertBounty, StampedArePosted
    <3> QED
      BY <3>1, <3>2
  <2> QED
    BY <1>6, <1>t, <1>r, <2>1, PostingCallOnly DEF InsertBounty, PoEnd
<1>7. ASSUME NEW c \in PoCalls, NEW which \in DOMAIN RateRange, AskRate(c, which)
      PROVE  PostingInv'
  <2>1. PICK given \in SUBSET PoInputs : \E bps \in ResolvedRate(given, RateRange[which]) :
           poCall' = [poCall EXCEPT ![c] =
             [NoPosting EXCEPT !.pc = "rates", !.rates = poRates,
                               !.next = NextRates(poRates, which, bps)]]
    BY <1>7 DEF AskRate
  <2>2. PICK bps \in RateRange[which] :
           poCall' = [poCall EXCEPT ![c] =
             [NoPosting EXCEPT !.pc = "rates", !.rates = poRates,
                               !.next = NextRates(poRates, which, bps)]]
    BY <2>1 DEF ResolvedRate
  <2> DEFINE next == NextRates(poRates, which, bps)
             q == [NoPosting EXCEPT !.pc = "rates", !.rates = poRates, !.next = next]
  <2>3. next \in PlatformRates /\ (next.fee = poRates.fee \/ next.pool = poRates.pool)
    BY <1>t, RatesTyped
  <2>4. q \in PostingCall /\ PostingKnows(q)
    <3> HIDE DEF next
    <3> QED
      BY <1>t, <2>3, RatesTyped DEF NoPosting, PostingCall, PostingKnows
  <2>5. poCall' = [poCall EXCEPT ![c] = q]
    BY <2>2
  <2> HIDE DEF q
  <2> QED
    BY <1>7, <1>t, <2>4, <2>5, PostingGoesOn DEF AskRate
<1>8. ASSUME NEW c \in PoCalls, WriteRates(c) PROVE PostingInv'
  <2>1. CASE poCall[c].next = poCall[c].rates
    BY <1>8, <1>t, <1>r, <2>1, PostingGoesOn DEF WriteRates, PoEnd
  <2>2. CASE poCall[c].next # poCall[c].rates
    <3>1. poRates' \in PlatformRates
      BY <1>8, <1>t, <2>2 DEF WriteRates, PostingCall
    <3> QED
      BY <1>8, <1>t, <2>2, <3>1, PostingOutdates DEF WriteRates
  <2> QED
    BY <2>1, <2>2
<1>9. ASSUME NEW c \in PoCalls, SaveInstallation(c) PROVE PostingInv'
  BY <1>9, <1>t, PostingOutdates DEF SaveInstallation, PostingRepos
<1>10. ASSUME NEW c \in PoCalls, DrainLocks(c) PROVE PostingInv'
  <2>1. /\ poBounty' \in [PoDrafts -> DraftStatus] /\ StampedArePosted'
        /\ poLock' \in [of: PoDrafts \cup {PoNone}, active: BOOLEAN]
    BY <1>10, <1>t, <1>p DEF DrainLocks, DraftStatus, StampedArePosted
  <2> QED
    BY <1>10, <1>t, <1>r, <2>1, PostingCallOnly DEF DrainLocks, PoEnd
<1>11. ASSUME NEW c \in PoCalls, AskSignal(c) PROVE PostingInv'
  <2> DEFINE q == [NoPosting EXCEPT !.pc = "signal", !.saw = "none"]
  <2>1. q \in PostingCall /\ PostingKnows(q)
    BY <1>11, RatesTyped DEF AskSignal, NoPosting, PostingCall, PostingKnows, PostingRepos
  <2>2. poCall' = [poCall EXCEPT ![c] = q]
    BY <1>11 DEF AskSignal, PoBegin
  <2> HIDE DEF q
  <2> QED
    BY <1>11, <1>t, <2>1, <2>2, PostingGoesOn DEF AskSignal
<1>12. ASSUME NEW c \in PoCalls, InsertSignal(c) PROVE PostingInv'
  <2>1. poSignals' \in Nat
    BY <1>12, <1>t DEF InsertSignal
  <2> QED
    BY <1>12, <1>t, <2>1, PostingOutdates DEF InsertSignal
<1>13. ASSUME NEW d \in PoDrafts, MoveBounty(d) PROVE PostingInv'
  <2>1. poBounty' \in [PoDrafts -> DraftStatus]
    BY <1>13, <1>t DEF MoveBounty, DraftStatus
  <2> QED
    BY <1>13, <1>t, <2>1 DEF MoveBounty, PostingInv, PostingTypeOK, StampedArePosted, PostingKnows
<1>14. ASSUME RemoveApp \/ ClearSignal PROVE PostingInv'
  BY <1>14, <1>t DEF RemoveApp, ClearSignal, PostingInv, PostingTypeOK, StampedArePosted,
                     PostingKnows,
                     PostingRepos
<1>15. ASSUME UNCHANGED poVars PROVE PostingInv'
  BY <1>15 DEF poVars, PostingInv, PostingTypeOK, StampedArePosted, PostingKnows
<1> QED
  BY <1>1, <1>2, <1>3, <1>4, <1>5, <1>6, <1>7, <1>8, <1>9, <1>10, <1>11, <1>12, <1>13,
     <1>14, <1>15 DEF PostingNext

\* What each step may change of what others have read.
LEMMA StaleStep == PostingInv /\ PostingNext =>
    AppKeepsRepo /\ EndedStaysEnded /\ SecondSignalIsStale /\ RatesAsAnnounced
<1> SUFFICES ASSUME PostingInv, PostingNext
             PROVE  AppKeepsRepo /\ EndedStaysEnded /\ SecondSignalIsStale /\ RatesAsAnnounced
  OBVIOUS
<1>t. /\ poBounty \in [PoDrafts -> DraftStatus]
      /\ poSignals \in Nat /\ poRates \in PlatformRates
      /\ DOMAIN poStamp \subseteq PoDrafts
      /\ poCall \in [PoCalls -> PostingCall]
      /\ StampedArePosted
  BY DEF PostingInv, PostingTypeOK
<1>k. \A c \in PoCalls : PostingKnows(poCall[c])
  BY DEF PostingInv
\* Only a post writes over a repository of the App.
<1>1. AppKeepsRepo
  <2> SUFFICES ASSUME poRepo = "app_install", poRepo' = "public_reference"
               PROVE  \E c \in PoCalls : PoAt(c, "write") /\ poCall[c].stale
    BY DEF AppKeepsRepo
  <2>1. PICK c \in PoCalls : WriteRepo(c)
    BY DEF PostingNext, FetchIssue, FetchDiscussion, GiveUpPosting, ReadRepo, ReadRates,
           InsertBounty, WriteRates, AskRate, ConfirmInstallation, SaveInstallation, ReadLocks,
           DrainLocks, AskSignal, InsertSignal, MoveBounty, RemoveApp, ClearSignal
  <2>2. PoAt(c, "write")
    BY <2>1 DEF WriteRepo
  <2> QED
    BY <1>k, <2>2 DEF PostingKnows, PoAt
\* Only a draft is posted and only a lock is drained.
<1>2. EndedStaysEnded
  <2> SUFFICES ASSUME NEW d \in PoDrafts, poBounty[d] = "ended"
               PROVE  poBounty'[d] = "ended"
    BY DEF EndedStaysEnded
  <2>1. ASSUME NEW c \in PoCalls, InsertBounty(c) PROVE poBounty'[d] = "ended"
    BY <2>1, <1>t DEF InsertBounty
  <2>2. ASSUME NEW c \in PoCalls, DrainLocks(c) PROVE poBounty'[d] = "ended"
    BY <2>2, <1>t DEF DrainLocks
  <2>3. ASSUME NEW e \in PoDrafts, MoveBounty(e) PROVE poBounty'[d] = "ended"
    BY <2>3, <1>t DEF MoveBounty
  <2> QED
    BY <2>1, <2>2, <2>3
    DEF PostingNext, FetchIssue, FetchDiscussion, GiveUpPosting, ReadRepo, WriteRepo, ReadRates,
        WriteRates, AskRate, ConfirmInstallation, SaveInstallation, ReadLocks, AskSignal,
        InsertSignal, RemoveApp, ClearSignal
<1>3. SecondSignalIsStale
  <2> SUFFICES ASSUME poSignals' > poSignals, poSignals # 0
               PROVE  \E c \in PoCalls : PoAt(c, "signal") /\ poCall[c].stale
    BY DEF SecondSignalIsStale
  <2>0. poSignals' # poSignals /\ (ClearSignal => FALSE)
    BY <1>t DEF ClearSignal
  <2>1. PICK c \in PoCalls : InsertSignal(c)
    BY <2>0, Zenon
    DEF PostingNext, FetchIssue, FetchDiscussion, GiveUpPosting, ReadRepo, WriteRepo, ReadRates,
        InsertBounty, WriteRates, AskRate, ConfirmInstallation, SaveInstallation, ReadLocks,
        DrainLocks, AskSignal, MoveBounty, RemoveApp
  <2>2. PoAt(c, "signal")
    BY <2>1 DEF InsertSignal
  <2> QED
    BY <1>k, <2>2 DEF PostingKnows, PoAt
<1>4. RatesAsAnnounced
  <2>1. ASSUME poRates'.fee # poRates.fee, poRates'.pool # poRates.pool
        PROVE  \E c \in PoCalls : PoAt(c, "rates") /\ poCall[c].stale
    <3>1. PICK c \in PoCalls : WriteRates(c)
      BY <2>1
      DEF PostingNext, FetchIssue, FetchDiscussion, GiveUpPosting, ReadRepo, WriteRepo,
          ReadRates, InsertBounty, AskRate, ConfirmInstallation, SaveInstallation, ReadLocks,
          DrainLocks, AskSignal, InsertSignal, MoveBounty, RemoveApp, ClearSignal
    <3>2. PoAt(c, "rates") /\ poRates' = poCall[c].next
      BY <2>1, <3>1 DEF WriteRates
    <3> QED
      BY <1>k, <2>1, <3>2 DEF PostingKnows, PoAt
  <2>2. ASSUME NEW d \in DOMAIN poStamp'
        PROVE  IF d \in DOMAIN poStamp THEN poStamp'[d] = poStamp[d]
               ELSE \/ poStamp'[d] = poRates
                    \/ \E c \in PoCalls : PoAt(c, "stamp") /\ poCall[c].stale
    <3>1. ASSUME NEW c \in PoCalls, InsertBounty(c), OnIssue = {}
          PROVE  IF d \in DOMAIN poStamp THEN poStamp'[d] = poStamp[d]
                 ELSE \/ poStamp'[d] = poRates
                      \/ \E b \in PoCalls : PoAt(b, "stamp") /\ poCall[b].stale
      <4>1. PICK e \in PoDrafts :
               /\ poBounty[e] = "none"
               /\ poStamp' = [x \in DOMAIN poStamp \cup {e} |->
                                IF x = e THEN poCall[c].rates ELSE poStamp[x]]
        BY <3>1 DEF InsertBounty
      <4>2. e \notin DOMAIN poStamp
        BY <1>t, <4>1 DEF StampedArePosted
      <4>3. PoAt(c, "stamp") /\ (~ poCall[c].stale => poCall[c].rates = poRates)
        BY <3>1, <1>k DEF InsertBounty, PostingKnows, PoAt
      <4> QED
        BY <4>1, <4>2, <4>3
    <3>2. CASE UNCHANGED poStamp
      BY <3>2
    <3> QED
      BY <3>1, <3>2
      DEF PostingNext, FetchIssue, FetchDiscussion, GiveUpPosting, ReadRepo, WriteRepo,
          ReadRates, InsertBounty, WriteRates, AskRate, ConfirmInstallation, SaveInstallation,
          ReadLocks, DrainLocks, AskSignal, InsertSignal, MoveBounty, RemoveApp, ClearSignal
  <2>3. \A d \in DOMAIN poStamp' : IF d \in DOMAIN poStamp THEN poStamp'[d] = poStamp[d]
             ELSE \/ poStamp'[d] = poRates
                  \/ \E c \in PoCalls : PoAt(c, "stamp") /\ poCall[c].stale
    BY <2>2
  <2>4. poRates'.fee # poRates.fee /\ poRates'.pool # poRates.pool =>
          \E c \in PoCalls : PoAt(c, "rates") /\ poCall[c].stale
    BY <2>1
  <2> QED
    BY <2>3, <2>4, Zenon DEF RatesAsAnnounced
<1> QED
  BY <1>1, <1>2, <1>3, <1>4

\* Drafts, the lock of a source, rates and requests keep their types.
LEMMA PostingTypeCorrect == PostingSpec => []PostingTypeOK
<1>1. PostingInv => PostingTypeOK
  BY DEF PostingInv
<1> QED
  BY <1>1, PostingStarts, PostingStep, PTL DEF PostingSpec

\* What a request read before it waited undoes nothing that others did meanwhile,
\* but for the three writes that nothing guards, whatever rates are typed and
\* however many requests, drafts and administrators there are (persist.ts:200,
\* settings.ts:89).
THEOREM StaleReadsKept == PostingSpec => StaleReadsUndoNothing
<1>1. PostingInv /\ [PostingNext]_poVars =>
        [AppKeepsRepo /\ EndedStaysEnded /\ SecondSignalIsStale /\ RatesAsAnnounced]_poVars
  BY StaleStep
<1> QED
  BY PostingStarts, PostingStep, <1>1, PTL DEF PostingSpec, StaleReadsUndoNothing

-----------------------------------------------------------------------------
(* ContactSync: an unsubscribe reaches the provider and is not taken back    *)

\* Runs that will stamp the row with the time they read, runs that push it, and
\* runs that bring an unsubscribe back from the provider.
Fresh(r) == csRun[r].pc \in {"signup_read", "signup_write", "link_read", "link_write",
                             "import_read", "import_write"}
Pushes(r) == csRun[r].pc \in {"post", "patch", "synced"}
BringsBack(r) == csRun[r].pc \in {"hook_read", "hook_mark", "sync_read", "sync_mark"}

\* While the provider knows of no unsubscribe, a stamp names the write it was made
\* by: a push whose row has the stamp of the row has its subscription, too.
StampsApart ==
    /\ csRow.updated <= csClock
    /\ \A r \in ContactRuns : Fresh(r) =>
         /\ csRun[r].now \in 1 .. csClock /\ csRun[r].now # csRow.updated
         /\ \A s \in ContactRuns : Fresh(s) /\ s # r => csRun[s].now # csRun[r].now
         /\ \A s \in ContactRuns : Pushes(s) => csRun[s].read.updated # csRun[r].now
    /\ \A r \in ContactRuns : Pushes(r) =>
         /\ csRun[r].read.updated <= csClock
         /\ csRun[r].read.updated = csRow.updated =>
              csRun[r].read.subscribed = csRow.subscribed
         /\ csRun[r].pc = "synced" => csRun[r].read.subscribed

\* Nobody patches, unsubscribes or knows the id of a contact that is not there.
ContactThere ==
    \/ csAudience.in
    \/ /\ ~ csAudience.unsubscribed /\ ~ csRow.known
       /\ \A r \in ContactRuns : csRun[r].pc \notin {"patch", "synced"} /\ ~ csRun[r].read.known

ContactInv ==
    /\ ContactTypeOK
    /\ UnsubscribePushed
    /\ ContactThere
    /\ \A r \in ContactRuns : BringsBack(r) => csAudience.unsubscribed
    /\ csAudience.unsubscribed \/ csHoles \/ StampsApart

ContactRun == [pc: ContactPCs, now: Stamps, master: BOOLEAN, read: ContactRow]

LEMMA ContactTyped ==
    /\ NoContact \in ContactRow /\ ContactRunIdle \in ContactRun
    /\ ContactRunIdle.pc = "idle" /\ NoContact.synced = 0 /\ NoContact.updated = 0
  BY ContactAssumption DEF NoContact, ContactRow, ContactRunIdle, ContactRun, ContactPCs, Stamps

LEMMA ContactRows ==
    ASSUME ContactTypeOK
    PROVE  /\ csRun \in [ContactRuns -> ContactRun]
           /\ csRow.updated \in Nat /\ csRow.synced \in Nat /\ csClock \in Nat
           /\ csAudience = [in |-> csAudience.in, unsubscribed |-> csAudience.unsubscribed]
           /\ \A r \in ContactRuns :
                /\ csRun[r] \in ContactRun /\ csRun[r].read \in ContactRow
                /\ csRun[r].now \in Stamps /\ csRun[r].now \in Nat /\ csRun[r].read.updated \in Nat
  BY DEF ContactTypeOK, ContactRow, ContactRun, Stamps

LEMMA ContactStarts == ContactInit => ContactInv
<1> SUFFICES ASSUME ContactInit PROVE ContactInv
  OBVIOUS
<1>1. \A r \in ContactRuns : csRun[r] = ContactRunIdle
  BY DEF ContactInit
<1>2. ContactTypeOK
  <2>1. csRun \in [ContactRuns -> ContactRun]
    BY ContactTyped DEF ContactInit
  <2>2. 0 \in Stamps
    BY ContactAssumption DEF Stamps
  <2>3. csRow \in ContactRow /\ csClock \in Stamps /\ csHoles \in BOOLEAN
    BY <2>2, ContactTyped DEF ContactInit
  <2>4. csAudience \in [in: BOOLEAN, unsubscribed: BOOLEAN]
    BY DEF ContactInit
  <2> QED
    BY <2>1, <2>3, <2>4 DEF ContactTypeOK, ContactRun
<1>3. \A r \in ContactRuns : ~ Fresh(r) /\ ~ Pushes(r) /\ ~ BringsBack(r)
  BY <1>1, ContactTyped DEF Fresh, Pushes, BringsBack
<1>4. csRow = NoContact /\ csClock = 0 /\ ~ csAudience.unsubscribed
  BY DEF ContactInit
<1>5. StampsApart
  BY <1>3, <1>4, ContactTyped DEF StampsApart
<1>6. UnsubscribePushed
  BY <1>4 DEF UnsubscribePushed, NoContact
<1>7. ContactThere
  BY <1>1, <1>4 DEF ContactThere, ContactRunIdle, NoContact
<1> QED
  BY <1>2, <1>3, <1>4, <1>5, <1>6, <1>7 DEF ContactInv

\* A step that moves one run; it may tell the provider of an unsubscribe, and it may
\* read the row.
LEMMA ContactRunMoves ==
    ASSUME ContactInv, NEW r \in ContactRuns, NEW q \in ContactRun,
           csRun' = [csRun EXCEPT ![r] = q],
           UNCHANGED <<csRow, csClock>>, csHoles' \in BOOLEAN, csHoles => csHoles',
           csAudience' \in [in: BOOLEAN, unsubscribed: BOOLEAN],
           \/ csAudience'.in
           \/ /\ csAudience' = csAudience /\ q.pc \notin {"patch", "synced"}
              /\ q.read \in {csRow, csRun[r].read, NoContact},
           csAudience.unsubscribed => csAudience'.unsubscribed,
           q.pc \in {"signup_read", "signup_write", "link_read", "link_write",
                     "import_read", "import_write"} => Fresh(r) /\ q.now = csRun[r].now,
           q.pc \in {"post", "patch", "synced"} =>
             q.read = csRow \/ (Pushes(r) /\ q.read = csRun[r].read),
           q.pc = "synced" => csAudience'.unsubscribed \/ csHoles' \/ q.read.subscribed,
           q.pc \in {"hook_read", "hook_mark", "sync_read", "sync_mark"} =>
             csAudience'.unsubscribed
    PROVE  ContactInv'
<1>t. ContactTypeOK
  BY DEF ContactInv
<1>1. /\ csRun'[r] = q
      /\ \A s \in ContactRuns : s # r => csRun'[s] = csRun[s]
      /\ csRun' \in [ContactRuns -> ContactRun]
  BY <1>t, ContactRows
<1>2. ContactTypeOK'
  BY <1>t, <1>1 DEF ContactTypeOK, ContactRun
<1>3. UnsubscribePushed'
  BY DEF ContactInv, UnsubscribePushed, StaleRow
<1>4. \A s \in ContactRuns : BringsBack(s)' => csAudience'.unsubscribed
  BY <1>1 DEF BringsBack, ContactInv
<1>6. ContactThere'
  BY <1>1 DEF ContactInv, ContactThere, NoContact
<1>5. ASSUME ~ csAudience'.unsubscribed, ~ csHoles' PROVE StampsApart'
  <2>1. StampsApart
    BY <1>5 DEF ContactInv
  <2>2. \A s \in ContactRuns : Fresh(s)' => Fresh(s) /\ csRun'[s].now = csRun[s].now
    BY <1>1 DEF Fresh
  <2>3. \A s \in ContactRuns : Pushes(s)' =>
          csRun'[s].read = csRow \/ (Pushes(s) /\ csRun'[s].read = csRun[s].read)
    BY <1>1 DEF Pushes
  <2>4. \A s \in ContactRuns : csRun'[s].pc = "synced" => csRun'[s].read.subscribed
    BY <1>1, <1>5, <2>1 DEF StampsApart, Pushes
  <2>5. ASSUME NEW s \in ContactRuns, Fresh(s)'
        PROVE  /\ csRun'[s].now \in 1 .. csClock /\ csRun'[s].now # csRow.updated
               /\ \A u \in ContactRuns : Fresh(u)' /\ u # s => csRun'[u].now # csRun'[s].now
               /\ \A u \in ContactRuns : Pushes(u)' => csRun'[u].read.updated # csRun'[s].now
    BY <2>1, <2>2, <2>3, <2>5 DEF StampsApart
  <2>6. ASSUME NEW s \in ContactRuns, Pushes(s)'
        PROVE  /\ csRun'[s].read.updated <= csClock
               /\ csRun'[s].read.updated = csRow.updated =>
                    csRun'[s].read.subscribed = csRow.subscribed
    BY <2>1, <2>3, <2>6 DEF StampsApart
  <2> QED
    BY <2>1, <2>4, <2>5, <2>6 DEF StampsApart
<1> QED
  BY <1>2, <1>3, <1>4, <1>5, <1>6 DEF ContactInv

\* A call reads the clock.
LEMMA ContactBegins ==
    ASSUME ContactInv, NEW r \in ContactRuns, NEW pc \in ContactPCs, NEW master \in BOOLEAN,
           ContactRunBegins(r, pc, master), pc \notin {"post", "patch", "synced"},
           pc \in {"hook_read", "hook_mark", "sync_read", "sync_mark"} => csAudience.unsubscribed
    PROVE  ContactInv'
<1>t. ContactTypeOK
  BY DEF ContactInv
<1> DEFINE q == [ContactRunIdle EXCEPT !.pc = pc, !.master = master, !.now = csClock + 1]
<1>0. csClock + 1 \in Stamps /\ csClock \in Nat
  BY <1>t, ContactRows, ContactAssumption DEF ContactRunBegins, Stamps
<1>1. q \in ContactRun /\ q.pc = pc /\ q.now = csClock + 1 /\ ~ q.read.known
  BY <1>0, ContactTyped DEF ContactRun, ContactRunIdle, NoContact
<1>2. /\ csRun' = [csRun EXCEPT ![r] = q] /\ csClock' = csClock + 1
      /\ UNCHANGED <<csRow, csAudience, csHoles>>
  BY DEF ContactRunBegins
<1> HIDE DEF q
<1>3. /\ csRun'[r] = q
      /\ \A s \in ContactRuns : s # r => csRun'[s] = csRun[s]
      /\ csRun' \in [ContactRuns -> ContactRun]
  BY <1>t, <1>1, <1>2, ContactRows
<1>4. ContactTypeOK'
  BY <1>t, <1>0, <1>2, <1>3 DEF ContactTypeOK, ContactRun
<1>5. UnsubscribePushed'
  BY <1>2 DEF ContactInv, UnsubscribePushed, StaleRow
<1>6. \A s \in ContactRuns : BringsBack(s)' => csAudience'.unsubscribed
  BY <1>1, <1>2, <1>3 DEF BringsBack, ContactInv
<1>8. ContactThere'
  BY <1>1, <1>2, <1>3 DEF ContactInv, ContactThere
<1>7. ASSUME ~ csAudience.unsubscribed, ~ csHoles PROVE StampsApart'
  <2>1. StampsApart
    BY <1>7 DEF ContactInv
  <2>2. \A s \in ContactRuns : Fresh(s)' =>
          s = r \/ (Fresh(s) /\ csRun'[s].now = csRun[s].now)
    BY <1>3 DEF Fresh
  <2>3. \A s \in ContactRuns : Pushes(s)' => Pushes(s) /\ csRun'[s] = csRun[s]
    BY <1>1, <1>3 DEF Pushes
  <2>4. csRun'[r].now = csClock + 1 /\ csRow.updated <= csClock /\ csRow.updated \in Nat
    BY <1>1, <1>3, <1>t, <2>1, ContactRows DEF StampsApart
  <2>5. ASSUME NEW s \in ContactRuns, Fresh(s)'
        PROVE  /\ csRun'[s].now \in 1 .. csClock + 1 /\ csRun'[s].now # csRow.updated
               /\ \A u \in ContactRuns : Fresh(u)' /\ u # s => csRun'[u].now # csRun'[s].now
               /\ \A u \in ContactRuns : Pushes(u)' => csRun'[u].read.updated # csRun'[s].now
    <3>1. \A u \in ContactRuns : Pushes(u) => csRun[u].read.updated \in Nat
                                          /\ csRun[u].read.updated <= csClock
      BY <1>t, <2>1, ContactRows DEF StampsApart
    <3>2. \A u \in ContactRuns : Fresh(u) => csRun[u].now \in 1 .. csClock
      BY <2>1 DEF StampsApart
    <3>3. CASE s = r
      BY <1>0, <2>2, <2>3, <2>4, <3>1, <3>2, <3>3
    <3>4. CASE s # r
      <4>1. Fresh(s) /\ csRun'[s].now = csRun[s].now
        BY <2>2, <2>5, <3>4
      <4>2. csRun[s].now \in 1 .. csClock
        BY <3>2, <4>1
      <4>3. ASSUME NEW u \in ContactRuns, Fresh(u)', u # s
            PROVE  csRun'[u].now # csRun'[s].now
        <5>1. CASE u = r
          BY <1>0, <2>4, <4>1, <4>2, <5>1
        <5>2. CASE u # r
          BY <2>1, <2>2, <4>1, <4>3, <5>2 DEF StampsApart
        <5> QED
          BY <5>1, <5>2
      <4>4. ASSUME NEW u \in ContactRuns, Pushes(u)'
            PROVE  csRun'[u].read.updated # csRun'[s].now
        BY <2>1, <2>3, <4>1, <4>4 DEF StampsApart
      <4> QED
        BY <1>0, <2>1, <4>1, <4>2, <4>3, <4>4 DEF StampsApart
    <3> QED
      BY <3>3, <3>4
  <2>6. ASSUME NEW s \in ContactRuns, Pushes(s)'
        PROVE  /\ csRun'[s].read.updated <= csClock + 1
               /\ csRun'[s].read.updated = csRow.updated =>
                    csRun'[s].read.subscribed = csRow.subscribed
               /\ csRun'[s].pc = "synced" => csRun'[s].read.subscribed
    <3>1. Pushes(s) /\ csRun'[s] = csRun[s] /\ csRun[s].read.updated \in Nat
      BY <1>t, <2>3, <2>6, ContactRows
    <3> QED
      BY <1>0, <2>1, <3>1 DEF StampsApart
  <2>7. csRow.updated <= csClock + 1
    BY <1>0, <2>4
  <2> QED
    BY <1>2, <2>5, <2>6, <2>7 DEF StampsApart
<1> QED
  BY <1>2, <1>4, <1>5, <1>6, <1>7, <1>8 DEF ContactInv

\* A sign-up, a link or an import stamps the row with the time it read.
LEMMA ContactWrites ==
    ASSUME ContactInv, NEW r \in ContactRuns, NEW q \in ContactRun, NEW rec \in ContactRow,
           Fresh(r), WriteContact(rec), csRun' = [csRun EXCEPT ![r] = q],
           rec.updated = csRun[r].now, rec.synced \in {csRow.synced, 0},
           rec.known => csRow.known, q.read.known => csRow.known,
           q.pc = "idle" \/ (q.pc = "post" /\ q.read = rec)
    PROVE  ContactInv'
<1>t. ContactTypeOK
  BY DEF ContactInv
<1>1. /\ csRun'[r] = q
      /\ \A s \in ContactRuns : s # r => csRun'[s] = csRun[s]
      /\ csRun' \in [ContactRuns -> ContactRun]
  BY <1>t, ContactRows
<1>2. /\ csRow' = rec /\ UNCHANGED <<csAudience, csClock>>
      /\ csHoles' = (csHoles \/ (rec.updated # csRow.updated /\ rec.updated <= csRow.synced))
  BY DEF WriteContact
<1>3. csHoles' \in BOOLEAN
  BY <1>t, <1>2 DEF ContactTypeOK
<1>4. ContactTypeOK'
  BY <1>t, <1>1, <1>2, <1>3 DEF ContactTypeOK, ContactRun
<1>5. \A s \in ContactRuns : BringsBack(s)' => csAudience'.unsubscribed
  BY <1>1, <1>2 DEF BringsBack, ContactInv
<1>9. ContactThere'
  BY <1>1, <1>2 DEF ContactInv, ContactThere
<1>6. ASSUME ~ csAudience.unsubscribed, ~ csHoles PROVE StampsApart' /\ UnsubscribePushed'
  <2>1. StampsApart /\ csRun[r].now \in 1 .. csClock /\ csRun[r].now # csRow.updated
    BY <1>6 DEF ContactInv, StampsApart
  <2>2. UnsubscribePushed'
    <3>1. rec.updated \in Nat /\ rec.synced \in Nat /\ csRow.synced \in Nat
      BY <1>t, ContactRows DEF ContactRow, Stamps
    <3>2. ~ csHoles' => ~ (rec.updated <= csRow.synced)
      BY <1>2, <2>1
    <3> QED
      BY <1>2, <3>1, <3>2 DEF UnsubscribePushed, StaleRow
  <2>3. \A s \in ContactRuns : Fresh(s)' => s # r /\ Fresh(s) /\ csRun'[s] = csRun[s]
    BY <1>1 DEF Fresh
  <2>4. \A s \in ContactRuns : Pushes(s)' =>
          \/ s = r /\ csRun'[s].read = rec /\ csRun'[s].pc = "post"
          \/ s # r /\ Pushes(s) /\ csRun'[s] = csRun[s]
    BY <1>1 DEF Pushes
  <2>5. rec.updated <= csClock
    BY <1>t, <2>1, ContactRows
  <2>6. ASSUME NEW s \in ContactRuns, Fresh(s)'
        PROVE  /\ csRun'[s].now \in 1 .. csClock /\ csRun'[s].now # rec.updated
               /\ \A u \in ContactRuns : Fresh(u)' /\ u # s => csRun'[u].now # csRun'[s].now
               /\ \A u \in ContactRuns : Pushes(u)' => csRun'[u].read.updated # csRun'[s].now
    <3>1. s # r /\ Fresh(s) /\ csRun'[s] = csRun[s] /\ csRun[s].now # csRun[r].now
      BY <2>1, <2>3, <2>6 DEF StampsApart
    <3> QED
      BY <2>1, <2>3, <2>4, <3>1 DEF StampsApart
  <2>7. ASSUME NEW s \in ContactRuns, Pushes(s)'
        PROVE  /\ csRun'[s].read.updated <= csClock
               /\ csRun'[s].read.updated = rec.updated =>
                    csRun'[s].read.subscribed = rec.subscribed
               /\ csRun'[s].pc = "synced" => csRun'[s].read.subscribed
    <3>1. CASE s = r
      BY <2>4, <2>5, <2>7, <3>1
    <3>2. CASE s # r
      <4>1. Pushes(s) /\ csRun'[s] = csRun[s]
        BY <2>4, <2>7, <3>2
      <4>2. csRun[s].read.updated # csRun[r].now
        BY <2>1, <4>1 DEF StampsApart
      <4> QED
        BY <2>1, <4>1, <4>2 DEF StampsApart
    <3> QED
      BY <3>1, <3>2
  <2>8. StampsApart'
    BY <1>2, <2>5, <2>6, <2>7 DEF StampsApart
  <2> QED
    BY <2>2, <2>8
<1>7. CASE csAudience.unsubscribed \/ csHoles
  BY <1>2, <1>4, <1>5, <1>7, <1>9 DEF ContactInv, UnsubscribePushed
<1>8. CASE ~ csAudience.unsubscribed /\ ~ csHoles
  BY <1>2, <1>4, <1>5, <1>6, <1>8, <1>9 DEF ContactInv
<1> QED
  BY <1>7, <1>8

\* Where the provider knows of the unsubscribe there is nothing left to lose.
LEMMA ContactToldStays ==
    ASSUME ContactInv, csAudience.unsubscribed, csAudience' = csAudience, ContactTypeOK'
    PROVE  ContactInv'
  BY DEF ContactInv, UnsubscribePushed, ContactThere

LEMMA ContactRecords ==
    ASSUME ContactInv, NEW r \in ContactRuns, RecordSynced(r)
    PROVE  ContactInv'
<1>t. ContactTypeOK
  BY DEF ContactInv
<1> DEFINE read == csRun[r].read
           rec == IF PushedAsIs(read) THEN [csRow EXCEPT !.known = TRUE, !.synced = csClock + 1]
                  ELSE csRow
<1>0. csClock + 1 \in Stamps /\ csClock \in Nat
  BY <1>t, ContactRows, ContactAssumption DEF RecordSynced, Stamps
<1>1. /\ rec \in ContactRow /\ rec.updated = csRow.updated /\ rec.subscribed = csRow.subscribed
      /\ rec.in = csRow.in
  BY <1>t, <1>0 DEF ContactTypeOK, ContactRow
<1>2. /\ csRow' = rec /\ csClock' = csClock + 1 /\ UNCHANGED <<csAudience, csHoles>>
      /\ csRun' = [csRun EXCEPT ![r] = ContactRunIdle] /\ csRun[r].pc = "synced" /\ Pushes(r)
  BY DEF RecordSynced, ContactRunEnds, Pushes
<1>3. rec = csRow \/ (csRow.updated = read.updated /\ rec.synced = csClock + 1)
  BY <1>t DEF PushedAsIs, ContactTypeOK, ContactRow
<1> HIDE DEF rec
<1>4. /\ csRun'[r] = ContactRunIdle
      /\ \A s \in ContactRuns : s # r => csRun'[s] = csRun[s]
      /\ csRun' \in [ContactRuns -> ContactRun]
  BY <1>t, <1>2, ContactRows, ContactTyped
<1>5. ContactTypeOK'
  BY <1>t, <1>0, <1>1, <1>2, <1>4 DEF ContactTypeOK, ContactRun
<1>6. ASSUME ~ csAudience.unsubscribed, ~ csHoles PROVE StampsApart' /\ UnsubscribePushed'
  <2>1. StampsApart /\ read.subscribed /\ csRow.updated \in Nat
    BY <1>t, <1>2, <1>6, ContactRows DEF ContactInv, StampsApart, Pushes
  <2>2. UnsubscribePushed'
    <3>1. CASE rec = csRow
      BY <1>2, <3>1 DEF ContactInv, UnsubscribePushed, StaleRow
    <3>2. CASE csRow.updated = read.updated
      BY <1>1, <1>2, <2>1, <3>2 DEF StampsApart, UnsubscribePushed
    <3> QED
      BY <1>3, <3>1, <3>2
  <2>3. \A s \in ContactRuns : Fresh(s)' => Fresh(s) /\ csRun'[s] = csRun[s]
    BY <1>4, ContactTyped DEF Fresh
  <2>7. \A s \in ContactRuns : Pushes(s)' => Pushes(s) /\ csRun'[s] = csRun[s]
    BY <1>4, ContactTyped DEF Pushes
  <2>4. ASSUME NEW s \in ContactRuns, Fresh(s)'
        PROVE  /\ csRun'[s].now \in 1 .. csClock + 1 /\ csRun'[s].now # csRow.updated
               /\ \A u \in ContactRuns : Fresh(u)' /\ u # s => csRun'[u].now # csRun'[s].now
               /\ \A u \in ContactRuns : Pushes(u)' => csRun'[u].read.updated # csRun'[s].now
    <3>1. Fresh(s) /\ csRun'[s] = csRun[s] /\ csRun[s].now \in 1 .. csClock
      BY <2>1, <2>3, <2>4 DEF StampsApart
    <3> QED
      BY <1>0, <2>1, <2>3, <2>7, <3>1 DEF StampsApart
  <2>5. ASSUME NEW s \in ContactRuns, Pushes(s)'
        PROVE  /\ csRun'[s].read.updated <= csClock + 1
               /\ csRun'[s].read.updated = csRow.updated =>
                    csRun'[s].read.subscribed = csRow.subscribed
               /\ csRun'[s].pc = "synced" => csRun'[s].read.subscribed
    <3>1. Pushes(s) /\ csRun'[s] = csRun[s] /\ csRun[s].read.updated \in Nat
      BY <1>t, <2>7, <2>5, ContactRows
    <3> QED
      BY <1>0, <2>1, <3>1 DEF StampsApart
  <2>6. csRow.updated <= csClock + 1
    BY <1>0, <2>1 DEF StampsApart
  <2> QED
    BY <1>1, <1>2, <2>2, <2>4, <2>5, <2>6 DEF StampsApart
<1>7. \A s \in ContactRuns : BringsBack(s)' => csAudience'.unsubscribed
  BY <1>2, <1>4, ContactTyped DEF BringsBack, ContactInv
<1>8. ContactThere'
  BY <1>2 DEF ContactInv, ContactThere
<1> QED
  BY <1>2, <1>5, <1>6, <1>7, <1>8 DEF ContactInv, UnsubscribePushed

\* The steps of a run that leave the row alone.
ContactMoves(r) ==
    \/ SignupReads(r) \/ LinkReads(r) \/ ImportReads(r) \/ Post(r) \/ Patch(r)
    \/ PatchRefused(r)
    \/ SyncLists(r) \/ ContactMarkReads(r) \/ PullFails(r) \/ SelectStale(r)
    \/ ContactRunFails(r)

LEMMA ContactMovesStep ==
    ASSUME ContactInv, NEW r \in ContactRuns, ContactMoves(r)
    PROVE  ContactInv'
<1> DEFINE p == csRun[r]
<1>t. /\ p \in ContactRun /\ csRun \in [ContactRuns -> ContactRun] /\ csRow \in ContactRow
      /\ csAudience \in [in: BOOLEAN, unsubscribed: BOOLEAN]
      /\ csAudience.in \/ (~ csAudience.unsubscribed /\ ~ p.read.known /\ p.pc # "patch")
      /\ ContactRunIdle.read = NoContact
  BY ContactRows DEF ContactInv, ContactTypeOK, ContactThere, ContactRunIdle
<1>u. /\ ContactRunOnly => /\ UNCHANGED <<csRow, csClock, csAudience>>
                           /\ csHoles' \in BOOLEAN /\ (csHoles => csHoles')
      /\ csHoles \in BOOLEAN
  BY DEF ContactRunOnly, ContactInv, ContactTypeOK
\* A run goes on, ends, or reads the row.
<1>g. ASSUME NEW pc \in ContactPCs
      PROVE  /\ [p EXCEPT !.pc = pc] \in ContactRun /\ [p EXCEPT !.pc = pc].pc = pc
             /\ [p EXCEPT !.pc = pc].now = p.now /\ [p EXCEPT !.pc = pc].read = p.read
             /\ [p EXCEPT !.pc = pc, !.read = csRow] \in ContactRun
             /\ [p EXCEPT !.pc = pc, !.read = csRow].pc = pc
             /\ [p EXCEPT !.pc = pc, !.read = csRow].now = p.now
             /\ [p EXCEPT !.pc = pc, !.read = csRow].read = csRow
             /\ ContactRunGoto(r, pc) => csRun' = [csRun EXCEPT ![r] = [p EXCEPT !.pc = pc]]
             /\ ContactRunReads(r, pc) =>
                  csRun' = [csRun EXCEPT ![r] = [p EXCEPT !.pc = pc, !.read = csRow]]
  BY <1>t DEF ContactRun, ContactRunGoto, ContactRunReads
<1>e. ASSUME ContactRunEnds(r), ContactRunOnly PROVE ContactInv'
  <2>1. csRun' = [csRun EXCEPT ![r] = ContactRunIdle]
    BY <1>e DEF ContactRunEnds
  <2> QED
    BY <1>t, <1>u, <1>e, <2>1, ContactTyped, ContactRunMoves
<1>l. /\ "stale" \in ContactPCs /\ "signup_write" \in ContactPCs /\ "link_write" \in ContactPCs
      /\ "import_write" \in ContactPCs /\ "post" \in ContactPCs /\ "patch" \in ContactPCs
      /\ "synced" \in ContactPCs /\ "sync_read" \in ContactPCs /\ "hook_mark" \in ContactPCs
      /\ "sync_mark" \in ContactPCs
  BY DEF ContactPCs
<1>s. ASSUME ContactRunGoto(r, "stale"), ContactRunOnly PROVE ContactInv'
  <2> DEFINE q == [p EXCEPT !.pc = "stale"]
  <2>1. /\ q \in ContactRun /\ q.pc = "stale" /\ q.read = p.read
        /\ csRun' = [csRun EXCEPT ![r] = q]
    BY <1>g, <1>l, <1>s
  <2> HIDE DEF q
  <2> QED
    BY <1>t, <1>u, <1>s, <2>1, ContactRunMoves
<1>1. ASSUME NEW pc \in {"signup_write", "link_write", "import_write"},
             ContactRunReads(r, pc), ContactRunOnly, Fresh(r)
      PROVE  ContactInv'
  <2> DEFINE q == [p EXCEPT !.pc = pc, !.read = csRow]
  <2>0. pc \in ContactPCs
    BY <1>l
  <2>1. /\ q \in ContactRun /\ q.pc = pc /\ q.now = p.now /\ q.read = csRow
        /\ ContactRunReads(r, pc) => csRun' = [csRun EXCEPT ![r] = q]
    BY <1>g, <2>0
  <2> HIDE DEF q
  <2> QED
    BY <1>t, <1>u, <1>1, <2>1, ContactRunMoves
<1>2. CASE SignupReads(r)
  BY <1>1, <1>2 DEF SignupReads, Fresh
<1>3. CASE LinkReads(r)
  <2>1. Fresh(r) /\ ContactRunOnly
    BY <1>3 DEF LinkReads, Fresh
  <2> QED
    BY <1>1, <1>e, <1>3, <2>1 DEF LinkReads
<1>4. CASE ImportReads(r)
  BY <1>1, <1>4 DEF ImportReads, Fresh
<1>5. CASE Post(r)
  <2> DEFINE told == IF p.read.known \/ csAudience.in THEN csAudience
                     ELSE [in |-> TRUE, unsubscribed |-> ~ p.read.subscribed]
             q == [p EXCEPT !.pc = "patch"]
  <2>1. /\ csAudience' = told /\ UNCHANGED <<csRow, csClock, csHoles>> /\ Pushes(r)
        /\ csRun' \in {[csRun EXCEPT ![r] = q], [csRun EXCEPT ![r] = ContactRunIdle]}
    BY <1>t, <1>5 DEF Post, Pushes
  <2>2. /\ told \in [in: BOOLEAN, unsubscribed: BOOLEAN] /\ told.in
        /\ csAudience.unsubscribed => told.unsubscribed
    BY <1>t DEF ContactRun, ContactRow
  <2>3. q \in ContactRun /\ q.pc = "patch" /\ q.read = p.read
    BY <1>g, <1>l
  <2> HIDE DEF q, told
  <2>4. CASE csRun' = [csRun EXCEPT ![r] = q]
    BY <1>u, <2>1, <2>2, <2>3, <2>4, ContactRunMoves
  <2>5. CASE csRun' = [csRun EXCEPT ![r] = ContactRunIdle]
    BY <1>u, <2>1, <2>2, <2>5, ContactTyped, ContactRunMoves
  <2> QED
    BY <2>1, <2>4, <2>5
<1>6. CASE Patch(r)
  <2> DEFINE told == IF TellsSubscription(p.read)
                     THEN [csAudience EXCEPT !.unsubscribed = ~ p.read.subscribed]
                     ELSE csAudience
             q == [p EXCEPT !.pc = "synced"]
  <2>1. /\ csAudience' = told /\ UNCHANGED <<csRow, csClock, csHoles>> /\ Pushes(r)
        /\ csRun' \in {[csRun EXCEPT ![r] = q], [csRun EXCEPT ![r] = ContactRunIdle]}
    BY <1>t, <1>6 DEF Patch, Pushes
  <2>2. /\ told \in [in: BOOLEAN, unsubscribed: BOOLEAN] /\ told.in
        /\ csAudience.unsubscribed => told.unsubscribed
        /\ told.unsubscribed \/ p.read.subscribed
    BY <1>t, <1>6 DEF Patch, TellsSubscription, ContactRun, ContactRow
  <2>3. q \in ContactRun /\ q.pc = "synced" /\ q.read = p.read
    BY <1>g, <1>l
  <2> HIDE DEF q, told
  <2>4. CASE csRun' = [csRun EXCEPT ![r] = q]
    BY <1>u, <2>1, <2>2, <2>3, <2>4, ContactRunMoves
  <2>5. CASE csRun' = [csRun EXCEPT ![r] = ContactRunIdle]
    BY <1>u, <2>1, <2>2, <2>5, ContactTyped, ContactRunMoves
  <2> QED
    BY <2>1, <2>4, <2>5
<1>7. CASE SyncLists(r)
  <2> DEFINE q == [p EXCEPT !.pc = "sync_read"]
  <2>1. CASE csAudience.unsubscribed /\ ContactRunGoto(r, "sync_read")
    <3>1. /\ q \in ContactRun /\ q.pc = "sync_read" /\ q.read = p.read
          /\ csRun' = [csRun EXCEPT ![r] = q]
      BY <1>g, <1>l, <2>1
    <3> HIDE DEF q
    <3>2. ContactRunOnly
      BY <1>7 DEF SyncLists
    <3> QED
      BY <1>t, <1>u, <2>1, <3>1, <3>2, ContactRunMoves
  <2> QED
    BY <1>s, <1>7, <2>1 DEF SyncLists
<1>8. ASSUME MarkDone(r), ContactRunOnly PROVE ContactInv'
  BY <1>e, <1>s, <1>8 DEF MarkDone
<1>9. CASE ContactMarkReads(r)
  <2> DEFINE pc == IF p.pc = "hook_read" THEN "hook_mark" ELSE "sync_mark"
             q == [p EXCEPT !.pc = pc, !.read = csRow]
  <2>1. BringsBack(r) /\ ContactRunOnly /\ (ContactRunReads(r, pc) \/ MarkDone(r))
    BY <1>9 DEF ContactMarkReads, BringsBack
  <2>2. pc \in {"hook_mark", "sync_mark"} /\ csAudience.unsubscribed
    BY <2>1 DEF ContactInv
  <2> HIDE DEF pc
  <2>3. CASE ContactRunReads(r, pc)
    <3>2. pc \in ContactPCs
      BY <1>l, <2>2
    <3>1. /\ q \in ContactRun /\ q.pc = pc /\ q.read = csRow
          /\ csRun' = [csRun EXCEPT ![r] = q]
      BY <1>g, <2>3, <3>2
    <3> HIDE DEF q
    <3> QED
      BY <1>t, <1>u, <2>1, <2>2, <3>1, ContactRunMoves
  <2> QED
    BY <1>8, <2>1, <2>3
<1>10. CASE PullFails(r)
  BY <1>s, <1>10 DEF PullFails
<1>11. CASE SelectStale(r)
  <2> DEFINE q == [p EXCEPT !.pc = "post", !.read = csRow]
  <2>1. CASE ContactRunReads(r, "post")
    <3>1. /\ q \in ContactRun /\ q.pc = "post" /\ q.read = csRow
          /\ csRun' = [csRun EXCEPT ![r] = q]
      BY <1>g, <1>l, <2>1
    <3> HIDE DEF q
    <3>2. ContactRunOnly
      BY <1>11 DEF SelectStale
    <3> QED
      BY <1>t, <1>u, <3>1, <3>2, ContactRunMoves
  <2> QED
    BY <1>e, <1>11, <2>1 DEF SelectStale
<1>12. CASE ContactRunFails(r)
  BY <1>e, <1>12 DEF ContactRunFails
<1>13. CASE PatchRefused(r)
  <2> DEFINE q == [p EXCEPT !.pc = "synced"]
  <2>1. /\ q \in ContactRun /\ q.pc = "synced" /\ q.read = p.read
        /\ csRun' = [csRun EXCEPT ![r] = q]
    BY <1>g, <1>l, <1>13 DEF PatchRefused
  <2>2. /\ UNCHANGED <<csRow, csClock, csAudience>> /\ Pushes(r)
        /\ csHoles' \in BOOLEAN /\ (csHoles => csHoles')
        /\ csAudience.unsubscribed \/ csHoles'
    BY <1>u, <1>13 DEF PatchRefused, Pushes
  <2>3. csAudience.in
    BY <1>t, <1>13 DEF PatchRefused
  <2> HIDE DEF q
  <2> QED
    BY <1>t, <2>1, <2>2, <2>3, ContactRunMoves
<1> QED
  BY <1>2, <1>3, <1>4, <1>5, <1>6, <1>7, <1>9, <1>10, <1>11, <1>12,
     <1>13 DEF ContactMoves

ContactStamps(r) ==
    \/ SignupWrites(r) \/ LinkWrites(r) \/ ImportWrites(r) \/ ContactMarkWrites(r)

LEMMA ContactStampsStep ==
    ASSUME ContactInv, NEW r \in ContactRuns, ContactStamps(r)
    PROVE  ContactInv'
<1> DEFINE p == csRun[r]
<1>t. /\ p \in ContactRun /\ csRun \in [ContactRuns -> ContactRun] /\ csRow \in ContactRow
      /\ p.now \in Stamps /\ p.read \in ContactRow
      /\ csAudience \in [in: BOOLEAN, unsubscribed: BOOLEAN]
  BY ContactRows DEF ContactInv, ContactTypeOK
\* What is written over the row, and what is inserted.
<1>w. ASSUME NEW subscribed \in BOOLEAN
      PROVE  /\ [csRow EXCEPT !.subscribed = subscribed, !.updated = p.now] \in ContactRow
             /\ [csRow EXCEPT !.subscribed = subscribed, !.updated = p.now].updated = p.now
             /\ [csRow EXCEPT !.subscribed = subscribed, !.updated = p.now].synced = csRow.synced
             /\ [csRow EXCEPT !.subscribed = subscribed, !.updated = p.now].known = csRow.known
             /\ [csRow EXCEPT !.updated = p.now] \in ContactRow
             /\ [csRow EXCEPT !.updated = p.now].updated = p.now
             /\ [csRow EXCEPT !.updated = p.now].synced = csRow.synced
             /\ [csRow EXCEPT !.updated = p.now].known = csRow.known
  BY <1>t DEF ContactRow
<1>n. ASSUME NEW subscribed \in BOOLEAN
      PROVE  LET rec == [NoContact EXCEPT !.in = TRUE, !.subscribed = subscribed, !.updated = p.now]
                 new == [NoContact EXCEPT !.in = TRUE, !.updated = p.now]
             IN  /\ rec \in ContactRow /\ rec.updated = p.now /\ rec.synced = 0 /\ ~ rec.known
                 /\ new \in ContactRow /\ new.updated = p.now /\ new.synced = 0 /\ ~ new.known
  BY <1>t, ContactTyped DEF ContactRow, NoContact
<1>i. /\ ContactRunIdle \in ContactRun /\ ContactRunIdle.pc = "idle" /\ ~ ContactRunIdle.read.known
  BY ContactTyped DEF ContactRunIdle, NoContact
<1>1. CASE SignupWrites(r)
  <2> DEFINE rec == IF p.read.in THEN [csRow EXCEPT !.updated = p.now]
                    ELSE [NoContact EXCEPT !.in = TRUE, !.updated = p.now]
             q == [p EXCEPT !.pc = "post", !.read = rec]
  <2>1. /\ rec \in ContactRow /\ rec.updated = p.now /\ rec.synced \in {csRow.synced, 0}
        /\ rec.known => csRow.known
    BY <1>w, <1>n
  <2>2. Fresh(r) /\ WriteContact(rec) /\ csRun' = [csRun EXCEPT ![r] = q]
    BY <1>t, <1>1 DEF SignupWrites, Fresh
  <2> HIDE DEF rec
  <2>3. q \in ContactRun /\ q.pc = "post" /\ q.read = rec
    BY <1>t, <2>1 DEF ContactRun, ContactPCs
  <2> HIDE DEF q
  <2> QED
    BY <2>1, <2>2, <2>3, ContactWrites
<1>2. CASE LinkWrites(r)
  <2> DEFINE rec == [csRow EXCEPT !.updated = p.now]
  <2>1. /\ Fresh(r) /\ WriteContact(rec) /\ csRun' = [csRun EXCEPT ![r] = ContactRunIdle]
    BY <1>2 DEF LinkWrites, Fresh, ContactRunEnds
  <2>2. /\ rec \in ContactRow /\ rec.updated = p.now /\ rec.synced = csRow.synced
        /\ rec.known = csRow.known
    BY <1>w
  <2> HIDE DEF rec
  <2> QED
    BY <1>i, <2>1, <2>2, ContactWrites
<1>3. CASE ImportWrites(r)
  <2> DEFINE subscribed == ImportedSubscribed(p.read, p.master)
             rec == IF p.read.in THEN [csRow EXCEPT !.subscribed = subscribed, !.updated = p.now]
                    ELSE [NoContact EXCEPT !.in = TRUE, !.subscribed = subscribed, !.updated = p.now]
  <2>1. /\ Fresh(r) /\ WriteContact(rec) /\ csRun' = [csRun EXCEPT ![r] = ContactRunIdle]
    BY <1>3 DEF ImportWrites, Fresh, ContactRunEnds
  <2>2. subscribed \in BOOLEAN
    BY <1>t DEF ImportedSubscribed, ContactRun
  <2> HIDE DEF subscribed
  <2>3. /\ rec \in ContactRow /\ rec.updated = p.now /\ rec.synced \in {csRow.synced, 0}
        /\ rec.known => csRow.known
    BY <1>w, <1>n, <2>2
  <2> HIDE DEF rec
  <2> QED
    BY <1>i, <2>1, <2>3, ContactWrites
<1>4. CASE ContactMarkWrites(r)
  <2> DEFINE rec == IF p.read.subscribed
                    THEN [csRow EXCEPT !.subscribed = FALSE, !.known = TRUE, !.updated = p.now]
                    ELSE [csRow EXCEPT !.known = TRUE, !.updated = p.read.updated]
             on == IF p.pc \in {"hook_read", "hook_mark"} THEN ContactRunIdle
                   ELSE [p EXCEPT !.pc = "stale"]
  <2>1. /\ BringsBack(r) /\ csRow' = rec /\ UNCHANGED <<csAudience, csClock>>
        /\ csRun' = [csRun EXCEPT ![r] = on]
        /\ csHoles' = (csHoles \/ (rec.updated # csRow.updated /\ rec.updated <= csRow.synced))
    BY <1>t, <1>4 DEF ContactMarkWrites, WriteContact, MarkDone, ContactRunEnds, ContactRunGoto,
                      BringsBack
  <2>2. rec \in ContactRow
    BY <1>t DEF ContactRow
  <2>3. on \in ContactRun
    BY <1>t, ContactTyped DEF ContactRun, ContactPCs
  <2>4. on.pc \in {"idle", "stale"}
    BY <1>t, ContactTyped DEF ContactRun
  <2> HIDE DEF rec, on
  <2>5. /\ csRun'[r] = on /\ \A s \in ContactRuns : s # r => csRun'[s] = csRun[s]
        /\ csRun' \in [ContactRuns -> ContactRun]
    BY <1>t, <2>1, <2>3
  <2>6. csHoles' \in BOOLEAN
    BY <2>1 DEF ContactInv, ContactTypeOK
  <2>7. ContactTypeOK'
    BY <2>1, <2>2, <2>5, <2>6 DEF ContactInv, ContactTypeOK, ContactRun
  <2>8. csAudience.unsubscribed
    BY <2>1 DEF ContactInv
  <2> QED
    BY <2>1, <2>7, <2>8, ContactToldStays
<1> QED
  BY <1>1, <1>2, <1>3, <1>4 DEF ContactStamps

ContactCalls(r) ==
    \/ Signup(r) \/ LinkGithub(r) \/ SyncJob(r) \/ Webhook(r)
    \/ \E master \in BOOLEAN : Import(r, master)

LEMMA ContactCallsStep ==
    ASSUME ContactInv, NEW r \in ContactRuns, ContactCalls(r)
    PROVE  ContactInv'
<1>1. \E pc \in {"signup_read", "link_read", "list", "hook_read", "import_read"}, master \in BOOLEAN :
        ContactRunBegins(r, pc, master) /\ (pc = "hook_read" => csAudience.unsubscribed)
  BY DEF ContactCalls, Signup, LinkGithub, SyncJob, Webhook, Import
<1>2. PICK pc \in {"signup_read", "link_read", "list", "hook_read", "import_read"}, master \in BOOLEAN :
        ContactRunBegins(r, pc, master) /\ (pc = "hook_read" => csAudience.unsubscribed)
  BY <1>1
<1>3. pc \in ContactPCs
  BY DEF ContactPCs
<1> QED
  BY <1>2, <1>3, ContactBegins

LEMMA ContactKept == ContactInv /\ [ContactNext]_csVars => ContactInv'
<1> SUFFICES ASSUME ContactInv, [ContactNext]_csVars PROVE ContactInv'
  OBVIOUS
<1>1. ASSUME NEW r \in ContactRuns, ContactStep(r) PROVE ContactInv'
  <2>1. ContactCalls(r) \/ ContactStamps(r) \/ ContactMoves(r) \/ RecordSynced(r)
    BY <1>1 DEF ContactStep, ContactCalls, ContactStamps, ContactMoves
  <2> QED
    BY <2>1, ContactCallsStep, ContactStampsStep, ContactMovesStep, ContactRecords
<1>2. CASE Unsubscribes
  BY <1>2 DEF Unsubscribes, ContactInv, ContactTypeOK, UnsubscribePushed, ContactThere, BringsBack
<1>3. CASE UNCHANGED csVars
  BY <1>3 DEF csVars, ContactInv, ContactTypeOK, UnsubscribePushed, ContactThere, BringsBack,
              StampsApart, Fresh, Pushes, StaleRow
<1> QED
  BY <1>1, <1>2, <1>3 DEF ContactNext

\* Nobody is subscribed again: the provider is told of an unsubscribe only, and the row
\* is subscribed by nobody but an import that read it before.
LEMMA ContactOneWay ==
    ASSUME ContactInv, [ContactNext]_csVars
    PROVE  /\ csAudience.unsubscribed => csAudience'.unsubscribed
           /\ csRow.in /\ ~ csRow.subscribed /\ csRow'.subscribed =>
                \E r \in ContactRuns : /\ csRun[r].pc = "import_write" /\ csRun[r].master
                                       /\ csRun[r].read.in => csRun[r].read.subscribed
<1> DEFINE Kept == /\ csAudience.unsubscribed => csAudience'.unsubscribed
                   /\ csRow.in /\ ~ csRow.subscribed => ~ csRow'.subscribed
<1>t. /\ csRow \in ContactRow /\ csAudience \in [in: BOOLEAN, unsubscribed: BOOLEAN]
  BY DEF ContactInv, ContactTypeOK
<1>1. ASSUME NEW r \in ContactRuns, ContactStep(r)
      PROVE  Kept \/ (/\ csAudience' = csAudience
                      /\ csRun[r].pc = "import_write" /\ csRun[r].master
                      /\ csRun[r].read.in => csRun[r].read.subscribed)
  <2>1. CASE ContactCalls(r)
    BY <2>1 DEF ContactCalls, Signup, LinkGithub, SyncJob, Webhook, Import, ContactRunBegins
  <2>2. CASE Post(r) \/ Patch(r) \/ PatchRefused(r)
    BY <1>t, <2>2 DEF Post, Patch, PatchRefused, TellsSubscription, ContactInv, ContactThere
  <2>3. CASE ContactMoves(r) /\ ~ Post(r) /\ ~ Patch(r) /\ ~ PatchRefused(r)
    BY <2>3 DEF ContactMoves, SignupReads, LinkReads, ImportReads, SyncLists, ContactMarkReads,
                PullFails, SelectStale, ContactRunFails, ContactRunOnly
  <2>4. CASE RecordSynced(r)
    BY <1>t, <2>4 DEF RecordSynced, ContactRow
  <2>5. CASE SignupWrites(r) \/ LinkWrites(r)
    BY <1>t, <2>5 DEF SignupWrites, LinkWrites, WriteContact, ContactRow
  <2>6. CASE ContactMarkWrites(r)
    BY <1>t, <2>6 DEF ContactMarkWrites, WriteContact, ContactRow
  <2>7. CASE ImportWrites(r)
    BY <1>t, <2>7 DEF ImportWrites, WriteContact, ImportedSubscribed, ContactRow
  <2> QED
    BY <1>1, <2>1, <2>2, <2>3, <2>4, <2>5, <2>6, <2>7
    DEF ContactStep, ContactCalls, ContactMoves
<1>2. CASE Unsubscribes
  BY <1>t, <1>2 DEF Unsubscribes
<1>3. CASE UNCHANGED csVars
  BY <1>3 DEF csVars
<1> QED
  BY <1>1, <1>2, <1>3 DEF ContactNext

\* The row of a contact, the provider's and the runs between them keep their
\* types.
LEMMA ContactTypeCorrect == ContactSpec => []ContactTypeOK
<1>1. ContactInv => ContactTypeOK
  BY DEF ContactInv
<1> QED
  BY <1>1, ContactStarts, ContactKept, PTL DEF ContactSpec

\* An unsubscribe reaches the provider and is not taken back, for any number of
\* sign-ups, imports, webhooks and sync jobs and however their pushes overlap, but for
\* an import that read the row before and a write stamped before the last sync
\* (contacts/resend.ts, contacts/import.ts).
THEOREM UnsubscribeIsKept == ContactSpec => UnsubscribeKept
<1>1. ContactInv => UnsubscribePushed
  BY DEF ContactInv
<1>2. ContactInv /\ [ContactNext]_csVars =>
        [/\ csAudience.unsubscribed => csAudience'.unsubscribed
         /\ csRow.in /\ ~ csRow.subscribed /\ csRow'.subscribed =>
              \E r \in ContactRuns : /\ csRun[r].pc = "import_write" /\ csRun[r].master
                                     /\ csRun[r].read.in => csRun[r].read.subscribed]_csVars
  BY ContactOneWay
<1> QED
  BY ContactStarts, ContactKept, <1>1, <1>2, PTL
  DEF ContactSpec, UnsubscribeKept, UnsubscribeOneWay

-----------------------------------------------------------------------------
(* EmailOutbox: a mail goes out again only after something was lost          *)

\* A delivery holds a mail that it may still send, or may put back for others to
\* send: one of its batch, unless its answer was that the mail went out.
Holds(w, m) ==
    /\ m \in mailer[w].todo
    /\ ~ (mailer[w].pc = "mark" /\ mailer[w].row = m /\ mailer[w].answer = "ok")
Holders(m) == {w \in Mailers : Holds(w, m)}

MailHeld(w, m) == IF Holds(w, m) THEN 1 ELSE 0
Free(m) == IF mailRow[m].st \in {"none", "pending"} THEN 1 ELSE 0

\* Each mail that went out, each delivery that holds it and a row that is free to
\* be claimed use up the first sending or a loss of their own.
MailInv ==
    /\ MailTypeOK
    /\ \A w \in Mailers :
         /\ mailer[w].pc \in {"idle", "claim"} => mailer[w].todo = {}
         /\ mailer[w].pc \in {"send", "mark"} => mailer[w].row \in mailer[w].todo
    /\ \A m \in Mails :
         /\ IsFiniteSet(Holders(m))
         /\ mailSent[m] + Cardinality(Holders(m)) + Free(m) <= 1 + mailLost[m]

LEMMA MailStarts == MailInit => MailInv
<1> SUFFICES ASSUME MailInit PROVE MailInv
  OBVIOUS
<1>1. MailTypeOK
  BY MailAssumption DEF MailInit, MailTypeOK, MailRow, NoRowYet, MailerRecord, MailerIdle,
     Stages, MailUsers
<1>2. ASSUME NEW m \in Mails
      PROVE  /\ IsFiniteSet(Holders(m))
             /\ mailSent[m] + Cardinality(Holders(m)) + Free(m) <= 1 + mailLost[m]
  <2>1. Holders(m) = {}
    BY DEF Holders, Holds, MailInit, MailerIdle
  <2> QED
    BY <2>1, FS_EmptySet DEF Free, MailInit, NoRowYet
<1> QED
  BY <1>1, <1>2 DEF MailInv, MailInit, MailerIdle

\* The holders of a mail, when one delivery moves.
LEMMA HoldersMove ==
    ASSUME NEW w \in Mailers, NEW m \in Mails, IsFiniteSet(Holders(m)),
           \A v \in Mailers \ {w} : mailer'[v] = mailer[v]
    PROVE  /\ IsFiniteSet(Holders(m)')
           /\ Cardinality(Holders(m)) \in Nat /\ Cardinality(Holders(m)') \in Nat
           /\ Cardinality(Holders(m)') + MailHeld(w, m)
                = Cardinality(Holders(m)) + MailHeld(w, m)'
<1>1. \A v \in Mailers \ {w} : v \in Holders(m)' <=> v \in Holders(m)
  BY DEF Holders, Holds
<1>2. /\ w \in Holders(m) <=> Holds(w, m)
      /\ w \in Holders(m)' <=> Holds(w, m)'
  BY DEF Holders
<1>3. Holders(m) \subseteq Mailers /\ Holders(m)' \subseteq Mailers
  BY DEF Holders
<1>4. Cardinality(Holders(m)) \in Nat
  BY FS_CardinalityType
<1>5. CASE Holds(w, m)'
  <2>1. Holders(m)' = Holders(m) \cup {w}
    BY <1>1, <1>2, <1>3, <1>5
  <2>2. /\ IsFiniteSet(Holders(m) \cup {w})
        /\ Cardinality(Holders(m) \cup {w})
             = IF w \in Holders(m) THEN Cardinality(Holders(m)) ELSE Cardinality(Holders(m)) + 1
    BY FS_AddElement
  <2>3. MailHeld(w, m)' = 1
    BY <1>5 DEF MailHeld
  <2>4. Cardinality(Holders(m)') + MailHeld(w, m) = Cardinality(Holders(m)) + 1
    BY <2>1, <2>2, <1>2, <1>4 DEF MailHeld
  <2> QED
    BY <2>1, <2>2, <2>3, <2>4, <1>4
<1>6. CASE ~ Holds(w, m)'
  <2>1. Holders(m)' = Holders(m) \ {w}
    BY <1>1, <1>2, <1>3, <1>6
  <2>2. /\ IsFiniteSet(Holders(m) \ {w})
        /\ Cardinality(Holders(m) \ {w})
             = IF w \in Holders(m) THEN Cardinality(Holders(m)) - 1 ELSE Cardinality(Holders(m))
    BY FS_RemoveElement
  <2>3. MailHeld(w, m)' = 0
    BY <1>6 DEF MailHeld
  <2>4. Cardinality(Holders(m)') + MailHeld(w, m) = Cardinality(Holders(m))
    BY <2>1, <2>2, <1>2, <1>4 DEF MailHeld
  <2>5. Cardinality(Holders(m) \ {w}) \in Nat
    BY <2>2, FS_CardinalityType
  <2> QED
    BY <2>1, <2>2, <2>3, <2>4, <2>5, <1>4
<1> QED
  BY <1>5, <1>6

\* A step of one delivery keeps the account of every mail, when it does for what
\* that delivery holds.
LEMMA DeliveryStep ==
    ASSUME MailInv, MailTypeOK', NEW w \in Mailers, NEW q \in MailerRecord,
           mailer' = [mailer EXCEPT ![w] = q],
           q.pc \in {"idle", "claim"} => q.todo = {},
           q.pc \in {"send", "mark"} => q.row \in q.todo,
           \A m \in Mails : mailSent'[m] + MailHeld(w, m)' + Free(m)' + mailLost[m]
                              <= mailSent[m] + MailHeld(w, m) + Free(m) + mailLost'[m]
    PROVE  MailInv'
<1>1. mailer'[w] = q /\ \A v \in Mailers \ {w} : mailer'[v] = mailer[v]
  BY DEF MailInv, MailTypeOK
<1>2. ASSUME NEW v \in Mailers
      PROVE  /\ mailer'[v].pc \in {"idle", "claim"} => mailer'[v].todo = {}
             /\ mailer'[v].pc \in {"send", "mark"} => mailer'[v].row \in mailer'[v].todo
  BY <1>1 DEF MailInv
<1>3. ASSUME NEW m \in Mails
      PROVE  /\ IsFiniteSet(Holders(m)')
             /\ mailSent'[m] + Cardinality(Holders(m)') + Free(m)' <= 1 + mailLost'[m]
  <2>1. /\ IsFiniteSet(Holders(m))
        /\ mailSent[m] + Cardinality(Holders(m)) + Free(m) <= 1 + mailLost[m]
    BY DEF MailInv
  <2>2. /\ IsFiniteSet(Holders(m)')
        /\ Cardinality(Holders(m)) \in Nat /\ Cardinality(Holders(m)') \in Nat
        /\ Cardinality(Holders(m)') + MailHeld(w, m) = Cardinality(Holders(m)) + MailHeld(w, m)'
    BY <2>1, <1>1, HoldersMove
  <2>3. /\ mailSent[m] \in Nat /\ mailLost[m] \in Nat
        /\ mailSent'[m] \in Nat /\ mailLost'[m] \in Nat
    BY DEF MailInv, MailTypeOK
  <2>4. /\ MailHeld(w, m) \in Nat /\ Free(m) \in Nat
        /\ MailHeld(w, m)' \in Nat /\ Free(m)' \in Nat
    BY DEF MailHeld, Free
  <2> QED
    BY <2>1, <2>2, <2>3, <2>4
<1> QED
  BY <1>2, <1>3 DEF MailInv

\* The end of a row of the batch: the delivery does not hold it any more.
LEMMA MailRowDone ==
    ASSUME MailInv, NEW w \in Mailers, NEW m \in Mails, m \in mailer[w].todo, NextRow(w, m)
    PROVE  \E q \in MailerRecord :
             /\ mailer' = [mailer EXCEPT ![w] = q]
             /\ q.pc \in {"idle", "claim"} => q.todo = {}
             /\ q.pc \in {"send", "mark"} => q.row \in q.todo
             /\ \A n \in Mails : n \in q.todo <=> n \in mailer[w].todo /\ n # m
             /\ q.pc \in {"idle", "rows"}
<1> DEFINE q == IF mailer[w].todo = {m} THEN MailerIdle
                ELSE [mailer[w] EXCEPT !.pc = "rows", !.todo = @ \ {m}, !.row = NoMail,
                                       !.answer = "ok"]
<1>1. mailer' = [mailer EXCEPT ![w] = q]
  BY DEF NextRow
<1>2. mailer[w] \in MailerRecord
  BY DEF MailInv, MailTypeOK
<1>3. q \in MailerRecord
  BY <1>2, MailAssumption DEF MailerRecord, MailerIdle, MailUsers
<1>4. /\ q.pc \in {"idle", "rows"}
      /\ q.pc = "idle" => q.todo = {}
      /\ \A n \in Mails : n \in q.todo <=> n \in mailer[w].todo /\ n # m
  BY <1>2 DEF MailerRecord, MailerIdle
<1> QED
  BY <1>1, <1>3, <1>4

\* A row that is written for the last time, or is free to be claimed again.
LEMMA RowWritten ==
    ASSUME MailTypeOK, NEW w \in Mailers, NEW m \in Mails,
           NEW st \in {"pending", "sent", "failed"}, NEW tries \in Nat,
           UpdateRow(w, m, st, tries)
    PROVE  /\ mailRow' \in [Mails -> MailRow]
           /\ \A n \in Mails : n # m => mailRow'[n] = mailRow[n]
           /\ \A n \in Mails : mailRow[n].st # "sending" => mailRow'[n] = mailRow[n]
           /\ st # "pending" => Free(m)' <= Free(m)
<1> DEFINE rec == [st |-> st, tries |-> tries, by |-> NoMail, stale |-> FALSE]
<1>1. rec \in MailRow
  BY DEF MailRow
<1>2. mailRow' = IF Owns(w, m) THEN [mailRow EXCEPT ![m] = rec] ELSE mailRow
  BY DEF UpdateRow
<1> HIDE DEF rec
<1>3. mailRow' \in [Mails -> MailRow]
  BY <1>1, <1>2 DEF MailTypeOK
<1>4. \A n \in Mails : n # m => mailRow'[n] = mailRow[n]
  BY <1>2 DEF MailTypeOK
<1>5. \A n \in Mails : mailRow[n].st # "sending" => mailRow'[n] = mailRow[n]
  BY <1>2 DEF MailTypeOK, Owns
<1>6. ASSUME st # "pending" PROVE Free(m)' <= Free(m)
  <2>1. CASE Owns(w, m)
    <3>1. mailRow'[m].st = st
      BY <1>2, <2>1 DEF MailTypeOK, rec
    <3> QED
      BY <1>6, <3>1 DEF Free
  <2>2. CASE ~ Owns(w, m)
    BY <1>2, <2>2 DEF Free
  <2> QED
    BY <2>1, <2>2
<1> QED
  BY <1>3, <1>4, <1>5, <1>6

\* A mail that was in a batch and is left aside frees its row at most once.
LEMMA RowsDoneKept ==
    ASSUME MailInv, NEW w \in Mailers, NEW m \in Mails, m \in mailer[w].todo,
           NEW st \in {"pending", "sent", "failed"}, NEW tries \in Nat,
           UpdateRow(w, m, st, tries), NextRow(w, m),
           st = "pending" => Holds(w, m), mailer[w].pc = "mark" => mailer[w].row = m,
           UNCHANGED <<mailStage, mailWanted, mailSent, mailKnown, mailLost>>
    PROVE  MailInv'
<1>1. PICK q \in MailerRecord :
        /\ mailer' = [mailer EXCEPT ![w] = q]
        /\ q.pc \in {"idle", "claim"} => q.todo = {}
        /\ q.pc \in {"send", "mark"} => q.row \in q.todo
        /\ \A n \in Mails : n \in q.todo <=> n \in mailer[w].todo /\ n # m
        /\ q.pc \in {"idle", "rows"}
  BY MailRowDone
<1>2. /\ mailRow' \in [Mails -> MailRow]
      /\ \A n \in Mails : n # m => mailRow'[n] = mailRow[n]
      /\ st # "pending" => Free(m)' <= Free(m)
  BY RowWritten DEF MailInv
<1>3. MailTypeOK'
  BY <1>1, <1>2 DEF MailInv, MailTypeOK
<1>4. mailer'[w] = q
  BY <1>1 DEF MailInv, MailTypeOK
<1>5. ASSUME NEW n \in Mails
      PROVE  mailSent'[n] + MailHeld(w, n)' + Free(n)' + mailLost[n]
               <= mailSent[n] + MailHeld(w, n) + Free(n) + mailLost'[n]
  <2>1. mailSent[n] \in Nat /\ mailLost[n] \in Nat
        /\ mailSent'[n] = mailSent[n] /\ mailLost'[n] = mailLost[n]
    BY DEF MailInv, MailTypeOK
  <2>2. CASE n = m
    <3>1. MailHeld(w, n)' = 0
      BY <1>1, <1>4, <2>2 DEF MailHeld, Holds
    <3>2. CASE st = "pending"
      BY <2>1, <2>2, <3>1, <3>2 DEF MailHeld, Free
    <3>3. CASE st # "pending"
      BY <2>1, <2>2, <3>1, <3>3, <1>2 DEF MailHeld, Free
    <3> QED
      BY <3>2, <3>3
  <2>3. CASE n # m
    <3>1. Free(n)' = Free(n)
      BY <1>2, <2>3 DEF Free
    <3>2. MailHeld(w, n)' <= MailHeld(w, n)
      <4>1. CASE Holds(w, n)'
        <5>1. n \in mailer[w].todo
          BY <4>1, <1>1, <1>4, <2>3 DEF Holds
        <5>2. CASE Holds(w, n)
          BY <4>1, <5>2 DEF MailHeld
        <5>3. CASE mailer[w].pc = "mark" /\ mailer[w].row = n /\ mailer[w].answer = "ok"
          BY <2>3, <5>3
        <5> QED
          BY <5>1, <5>2, <5>3 DEF Holds
      <4>2. CASE ~ Holds(w, n)'
        BY <4>2 DEF MailHeld
      <4> QED
        BY <4>1, <4>2
    <3> QED
      BY <2>1, <3>1, <3>2 DEF MailHeld, Free
  <2> QED
    BY <2>2, <2>3
<1> QED
  BY <1>1, <1>3, <1>5, DeliveryStep

\* The steps of a delivery.
LEMMA MailNotify ==
    ASSUME MailInv, NEW w \in Mailers, NEW m \in Mails, Notify(w, m)
    PROVE  MailInv'
<1> DEFINE q == [MailerIdle EXCEPT !.pc = "claim", !.user = MailUser(m)]
<1>1. MailUser(m) \in MailUsers
  BY DEF MailUser, MailUsers
<1>2. /\ q \in MailerRecord /\ q.pc = "claim" /\ q.todo = {}
      /\ mailer' = [mailer EXCEPT ![w] = q]
  BY <1>1, MailAssumption DEF MailerRecord, MailerIdle, Notify, MailUsers
<1> HIDE DEF q
<1>3. /\ mailRow' \in [Mails -> MailRow]
      /\ \A n \in Mails : Free(n)' = Free(n)
  <2>1. CASE mailRow[m].st = "none"
    <3>1. [mailRow[m] EXCEPT !.st = "pending"] \in MailRow
      BY DEF MailInv, MailTypeOK, MailRow
    <3>2. mailRow' = [mailRow EXCEPT ![m] = [mailRow[m] EXCEPT !.st = "pending"]]
      BY <2>1 DEF Notify
    <3>3. mailRow' \in [Mails -> MailRow]
      BY <3>1, <3>2 DEF MailInv, MailTypeOK
    <3>4. \A n \in Mails : n # m => mailRow'[n] = mailRow[n]
      BY <3>2 DEF MailInv, MailTypeOK
    <3>5. mailRow'[m].st = "pending"
      BY <3>2 DEF MailInv, MailTypeOK, MailRow
    <3> QED
      BY <2>1, <3>3, <3>4, <3>5 DEF Free
  <2>2. CASE mailRow[m].st # "none"
    BY <2>2 DEF Notify, Free, MailInv, MailTypeOK
  <2> QED
    BY <2>1, <2>2
<1>4. MailTypeOK'
  BY <1>2, <1>3 DEF Notify, MailInv, MailTypeOK
<1>5. ASSUME NEW n \in Mails
      PROVE  mailSent'[n] + MailHeld(w, n)' + Free(n)' + mailLost[n]
               <= mailSent[n] + MailHeld(w, n) + Free(n) + mailLost'[n]
  <2>1. MailHeld(w, n)' = 0
    BY <1>2 DEF MailHeld, Holds, MailInv, MailTypeOK
  <2>2. /\ mailSent[n] \in Nat /\ mailLost[n] \in Nat
        /\ mailSent'[n] = mailSent[n] /\ mailLost'[n] = mailLost[n]
    BY DEF MailInv, MailTypeOK, Notify
  <2> QED
    BY <1>3, <2>1, <2>2 DEF MailHeld, Free
<1> QED
  BY <1>2, <1>4, <1>5, DeliveryStep

LEMMA MailClaim ==
    ASSUME MailInv, NEW w \in Mailers, ClaimEmailOutbox(w)
    PROVE  MailInv'
<1> DEFINE picked == {m \in Mails : RowClaimable(mailRow[m]) /\ MailUser(m) = mailer[w].user}
           taken == {m \in picked : mailRow[m].st = "sending"}
           q == IF picked = {} THEN MailerIdle
                ELSE [mailer[w] EXCEPT !.pc = "rows", !.todo = picked]
<1>0. mailer[w] \in MailerRecord /\ mailer[w].todo = {}
  BY DEF ClaimEmailOutbox, MailInv, MailTypeOK
<1>1. q \in MailerRecord
  BY <1>0, MailAssumption DEF MailerRecord, MailerIdle, MailUsers
<1>2. /\ q.pc \in {"idle", "rows"} /\ q.todo = picked
  BY <1>0 DEF MailerRecord, MailerIdle
<1>3. mailer' = [mailer EXCEPT ![w] = q]
  BY DEF ClaimEmailOutbox
<1>4. /\ mailRow' = [m \in Mails |->
             IF m \in picked
             THEN [st |-> "sending", tries |-> mailRow[m].tries + 1, by |-> w,
                   stale |-> FALSE]
             ELSE mailRow[m]]
      /\ mailLost' = [m \in Mails |->
             IF m \in taken /\ mailRow[m].stale THEN mailLost[m] + 1 ELSE mailLost[m]]
      /\ UNCHANGED <<mailStage, mailWanted, mailSent, mailKnown>>
  BY DEF ClaimEmailOutbox
<1>5. \A m \in picked : m \in Mails /\ RowClaimable(mailRow[m])
  OBVIOUS
<1>6. \A m \in taken : m \in picked
  OBVIOUS
<1>7. \A m \in picked : mailRow[m].st = "sending" => m \in taken /\ mailRow[m].stale
  BY DEF RowClaimable
<1> HIDE DEF picked, taken, q
<1>8. mailRow' \in [Mails -> MailRow] /\ mailLost' \in [Mails -> Nat]
  <2>1. ASSUME NEW m \in Mails
        PROVE  [st |-> "sending", tries |-> mailRow[m].tries + 1, by |-> w,
                stale |-> FALSE] \in MailRow
    BY DEF MailInv, MailTypeOK, MailRow
  <2>2. \A m \in Mails : mailRow[m] \in MailRow /\ mailLost[m] \in Nat
    BY DEF MailInv, MailTypeOK
  <2> QED
    BY <1>4, <2>1, <2>2
<1>9. MailTypeOK'
  BY <1>1, <1>3, <1>4, <1>8 DEF MailInv, MailTypeOK
<1>10. mailer'[w] = q
  BY <1>3 DEF MailInv, MailTypeOK
<1>11. ASSUME NEW n \in Mails
       PROVE  mailSent'[n] + MailHeld(w, n)' + Free(n)' + mailLost[n]
                <= mailSent[n] + MailHeld(w, n) + Free(n) + mailLost'[n]
  <2>1. mailSent[n] \in Nat /\ mailLost[n] \in Nat /\ mailSent'[n] = mailSent[n]
    BY <1>4 DEF MailInv, MailTypeOK
  <2>2. CASE n \in picked
    <3>1. MailHeld(w, n)' <= 1
      BY DEF MailHeld
    <3>2. Free(n)' = 0
      BY <1>4, <2>2 DEF Free
    <3>3. CASE mailRow[n].st = "sending"
      <4>1. mailLost'[n] = mailLost[n] + 1
        BY <1>4, <1>7, <2>2, <3>3
      <4> QED
        BY <2>1, <3>1, <3>2, <4>1 DEF MailHeld, Free
    <3>4. CASE mailRow[n].st # "sending"
      <4>1. mailRow[n].st = "pending"
        BY <1>5, <2>2, <3>4 DEF RowClaimable
      <4>2. mailLost'[n] \in {mailLost[n], mailLost[n] + 1}
        BY <1>4
      <4> QED
        BY <2>1, <3>1, <3>2, <4>1, <4>2 DEF MailHeld, Free
    <3> QED
      BY <3>3, <3>4
  <2>3. CASE n \notin picked
    <3>1. ~ Holds(w, n)'
      BY <1>2, <1>10, <2>3 DEF Holds
    <3>2. mailRow'[n] = mailRow[n] /\ mailLost'[n] = mailLost[n]
      BY <1>4, <1>6, <2>3
    <3> QED
      BY <2>1, <3>1, <3>2 DEF MailHeld, Free
  <2> QED
    BY <2>2, <2>3
<1>12. /\ q.pc \in {"idle", "claim"} => q.todo = {}
       /\ q.pc \in {"send", "mark"} => q.row \in q.todo
  <2>1. q.pc = "idle" => picked = {}
    BY <1>0 DEF q, MailerRecord
  <2> QED
    BY <1>2, <2>1
<1> QED
  BY <1>1, <1>3, <1>9, <1>11, <1>12, DeliveryStep

\* The steps that leave the rows alone: what was sent, and what the delivery that
\* sent it holds afterwards, is paid for by what was lost.
LEMMA AnswerStep ==
    ASSUME MailInv, NEW w \in Mailers, NEW q \in MailerRecord, NEW m \in Mails,
           m \in mailer[w].todo,
           mailer' = [mailer EXCEPT ![w] = q],
           q.todo = mailer[w].todo, q.row = m, q.pc \in {"send", "mark"},
           mailer[w].pc = "mark" => mailer[w].row = m,
           mailSent' \in [Mails -> Nat], mailLost' \in [Mails -> Nat],
           mailKnown' \subseteq Mails, UNCHANGED <<mailStage, mailWanted, mailRow>>,
           \A n \in Mails : n # m => mailSent'[n] = mailSent[n] /\ mailLost'[n] = mailLost[n],
           mailSent'[m] + MailHeld(w, m)' + mailLost[m]
             <= mailSent[m] + MailHeld(w, m) + mailLost'[m]
    PROVE  MailInv'
<1>1. MailTypeOK'
  BY DEF MailInv, MailTypeOK
<1>2. mailer'[w] = q
  BY DEF MailInv, MailTypeOK
<1>3. \A n \in Mails : /\ mailSent[n] \in Nat /\ mailLost[n] \in Nat
                       /\ mailSent'[n] \in Nat /\ mailLost'[n] \in Nat
                       /\ Free(n)' = Free(n)
  BY DEF MailInv, MailTypeOK, Free
<1>4. ASSUME NEW n \in Mails, n # m PROVE MailHeld(w, n)' = MailHeld(w, n)
  <2>1. Holds(w, n)' <=> n \in mailer[w].todo
    BY <1>2, <1>4 DEF Holds
  <2>2. Holds(w, n) <=> n \in mailer[w].todo
    BY <1>4 DEF Holds
  <2> QED
    BY <2>1, <2>2 DEF MailHeld
<1>5. ASSUME NEW n \in Mails
      PROVE  mailSent'[n] + MailHeld(w, n)' + Free(n)' + mailLost[n]
               <= mailSent[n] + MailHeld(w, n) + Free(n) + mailLost'[n]
  <2>1. CASE n = m
    BY <2>1, <1>3 DEF MailHeld, Free
  <2>2. CASE n # m
    BY <2>2, <1>3, <1>4 DEF MailHeld, Free
  <2> QED
    BY <2>1, <2>2
<1>6. /\ q.pc \in {"idle", "claim"} => q.todo = {}
      /\ q.pc \in {"send", "mark"} => q.row \in q.todo
  OBVIOUS
<1> QED
  BY <1>1, <1>5, <1>6, DeliveryStep

LEMMA AcceptCounts ==
    ASSUME MailInv, NEW m \in Mails, Accept(m)
    PROVE  /\ mailSent' \in [Mails -> Nat] /\ mailKnown' \subseteq Mails
           /\ mailSent'[m] <= mailSent[m] + 1
           /\ \A n \in Mails : n # m => mailSent'[n] = mailSent[n]
BY DEF Accept, MailInv, MailTypeOK

LEMMA MailAnswers ==
    ASSUME MailInv, NEW w \in Mailers,
           \/ \E m \in Mails : CheckPassed(w, m)
           \/ SendAccepted(w) \/ SendUnanswered(w) \/ MarkThrows(w)
           \/ \E answer \in {"error", "missing_secret"} : SendRefused(w, answer)
    PROVE  MailInv'
<1> USE DEF MailInv
<1>0. /\ mailer[w] \in MailerRecord
      /\ mailSent \in [Mails -> Nat] /\ mailLost \in [Mails -> Nat] /\ mailKnown \subseteq Mails
  BY DEF MailTypeOK
<1>1. ASSUME NEW m \in Mails, CheckPassed(w, m) PROVE MailInv'
  <2> DEFINE q == [mailer[w] EXCEPT !.pc = "send", !.row = m]
  <2>1. /\ mailer' = [mailer EXCEPT ![w] = q] /\ m \in mailer[w].todo
        /\ mailer[w].pc = "rows"
        /\ UNCHANGED <<mailStage, mailWanted, mailRow, mailSent, mailKnown, mailLost>>
    BY <1>1 DEF CheckPassed, MailTypeOK
  <2>2. /\ q \in MailerRecord /\ q.todo = mailer[w].todo /\ q.row = m /\ q.pc = "send"
    BY <1>0 DEF MailerRecord
  <2> HIDE DEF q
  <2>3. MailHeld(w, m)' = 1 /\ MailHeld(w, m) = 1
    BY <2>1, <2>2, <1>0 DEF MailHeld, Holds, MailTypeOK
  <2>4. mailSent'[m] + MailHeld(w, m)' + mailLost[m]
             <= mailSent[m] + MailHeld(w, m) + mailLost'[m]
    BY <2>1, <2>3, <1>0
  <2> QED
    BY <2>1, <2>2, <2>4, <1>0, AnswerStep
<1>2. ASSUME NEW answer \in {"ok", "error", "missing_secret"}, NEW m \in Mails,
             mailer[w].row = m, Answered(w, answer),
             mailer[w].pc \in {"send", "mark"}, mailer[w].pc = "mark" => mailer[w].answer = "ok",
             mailSent' \in [Mails -> Nat], mailLost' \in [Mails -> Nat],
             mailKnown' \subseteq Mails, UNCHANGED <<mailStage, mailWanted, mailRow>>,
             \A n \in Mails : n # m => mailSent'[n] = mailSent[n] /\ mailLost'[n] = mailLost[n],
             mailSent'[m] + (IF answer = "ok" THEN 0 ELSE 1) + mailLost[m]
               <= mailSent[m] + (IF mailer[w].pc = "send" THEN 1 ELSE 0) + mailLost'[m]
      PROVE  MailInv'
  <2> DEFINE q == [mailer[w] EXCEPT !.pc = "mark", !.answer = answer]
  <2>1. m \in mailer[w].todo
    BY <1>2
  <2>2. mailer' = [mailer EXCEPT ![w] = q]
    BY <1>2 DEF Answered, MailTypeOK
  <2>3. /\ q \in MailerRecord /\ q.todo = mailer[w].todo /\ q.row = m /\ q.pc = "mark"
        /\ q.answer = answer
    BY <1>0, <1>2 DEF MailerRecord
  <2>4. mailer'[w] = q
    BY <2>2 DEF MailTypeOK
  <2> HIDE DEF q
  <2>5. MailHeld(w, m)' = IF answer = "ok" THEN 0 ELSE 1
    BY <2>1, <2>3, <2>4 DEF MailHeld, Holds
  <2>6. MailHeld(w, m) = IF mailer[w].pc = "send" THEN 1 ELSE 0
    BY <2>1, <1>2 DEF MailHeld, Holds
  <2>7. mailSent'[m] + MailHeld(w, m)' + mailLost[m] <= mailSent[m] + MailHeld(w, m) + mailLost'[m]
    BY <1>2, <2>5, <2>6
  <2>8. mailer[w].pc = "mark" => mailer[w].row = m
    BY <1>2
  <2> HIDE DEF MailInv
  <2> QED
    BY <1>2, <2>1, <2>2, <2>3, <2>7, <2>8, AnswerStep
<1>3. ASSUME mailer[w].pc \in {"send", "mark"} PROVE mailer[w].row \in Mails
  BY <1>0, <1>3 DEF MailerRecord
<1>4. ASSUME SendAccepted(w) PROVE MailInv'
  <2>1. /\ mailer[w].pc = "send" /\ mailer[w].row \in Mails
        /\ Accept(mailer[w].row) /\ Answered(w, "ok")
        /\ UNCHANGED <<mailStage, mailWanted, mailRow, mailLost>>
    BY <1>3, <1>4 DEF SendAccepted
  <2>2. /\ mailSent' \in [Mails -> Nat] /\ mailKnown' \subseteq Mails
        /\ mailSent'[mailer[w].row] <= mailSent[mailer[w].row] + 1
        /\ \A n \in Mails : n # mailer[w].row => mailSent'[n] = mailSent[n]
    BY <2>1, AcceptCounts
  <2>3. /\ mailSent[mailer[w].row] \in Nat /\ mailSent'[mailer[w].row] \in Nat
        /\ mailLost[mailer[w].row] \in Nat /\ mailLost' = mailLost
    BY <1>0, <2>1, <2>2
  <2>4. mailSent'[mailer[w].row] + 0 + mailLost[mailer[w].row]
          <= mailSent[mailer[w].row] + 1 + mailLost'[mailer[w].row]
    BY <2>2, <2>3
  <2> QED
    BY <1>0, <1>2, <2>1, <2>2, <2>3, <2>4
<1>5. ASSUME SendUnanswered(w) PROVE MailInv'
  <2>1. /\ mailer[w].pc = "send" /\ mailer[w].row \in Mails
        /\ Accept(mailer[w].row) /\ Answered(w, "error")
        /\ mailLost' = [mailLost EXCEPT ![mailer[w].row] = @ + 1]
        /\ UNCHANGED <<mailStage, mailWanted, mailRow>>
    BY <1>3, <1>5 DEF SendUnanswered
  <2>2. /\ mailSent' \in [Mails -> Nat] /\ mailKnown' \subseteq Mails
        /\ mailSent'[mailer[w].row] <= mailSent[mailer[w].row] + 1
        /\ \A n \in Mails : n # mailer[w].row => mailSent'[n] = mailSent[n]
    BY <2>1, AcceptCounts
  <2>3. /\ mailLost' \in [Mails -> Nat]
        /\ mailLost'[mailer[w].row] = mailLost[mailer[w].row] + 1
        /\ \A n \in Mails : n # mailer[w].row => mailLost'[n] = mailLost[n]
    BY <1>0, <2>1
  <2>4. /\ mailSent[mailer[w].row] \in Nat /\ mailSent'[mailer[w].row] \in Nat
        /\ mailLost[mailer[w].row] \in Nat
    BY <1>0, <2>1, <2>2
  <2>5. mailSent'[mailer[w].row] + 1 + mailLost[mailer[w].row]
          <= mailSent[mailer[w].row] + 1 + mailLost'[mailer[w].row]
    BY <2>2, <2>3, <2>4
  <2> QED
    BY <1>2, <2>1, <2>2, <2>3, <2>5
<1>6. ASSUME NEW answer \in {"error", "missing_secret"}, SendRefused(w, answer) PROVE MailInv'
  <2>1. /\ mailer[w].pc = "send" /\ mailer[w].row \in Mails /\ Answered(w, answer)
        /\ UNCHANGED <<mailStage, mailWanted, mailRow, mailSent, mailKnown, mailLost>>
    BY <1>3, <1>6 DEF SendRefused
  <2>2. mailSent'[mailer[w].row] + 1 + mailLost[mailer[w].row]
          <= mailSent[mailer[w].row] + 1 + mailLost'[mailer[w].row]
    BY <1>0, <2>1
  <2> QED
    BY <1>0, <1>2, <2>1, <2>2
<1>7. ASSUME MarkThrows(w) PROVE MailInv'
  <2>1. /\ mailer[w].pc = "mark" /\ mailer[w].answer = "ok" /\ mailer[w].row \in Mails
        /\ mailLost' = [mailLost EXCEPT ![mailer[w].row] = @ + 1]
        /\ UNCHANGED <<mailStage, mailWanted, mailRow, mailSent, mailKnown>>
    BY <1>3, <1>7 DEF MarkThrows
  <2>2. Answered(w, "error")
    <3>1. mailer' = [mailer EXCEPT ![w] = [mailer[w] EXCEPT !.answer = "error"]]
      BY <1>7 DEF MarkThrows
    <3>2. [mailer[w] EXCEPT !.answer = "error"]
            = [mailer[w] EXCEPT !.pc = "mark", !.answer = "error"]
      BY <1>0, <2>1 DEF MailerRecord
    <3> QED
      BY <3>1, <3>2 DEF Answered
  <2>3. /\ mailLost' \in [Mails -> Nat]
        /\ mailLost'[mailer[w].row] = mailLost[mailer[w].row] + 1
        /\ \A n \in Mails : n # mailer[w].row => mailLost'[n] = mailLost[n]
    BY <1>0, <2>1
  <2>4. mailSent'[mailer[w].row] + (IF "error" = "ok" THEN 0 ELSE 1) + mailLost[mailer[w].row]
          <= mailSent[mailer[w].row] + (IF mailer[w].pc = "send" THEN 1 ELSE 0)
               + mailLost'[mailer[w].row]
    BY <1>0, <2>1, <2>3
  <2>5. /\ mailSent' \in [Mails -> Nat] /\ mailKnown' \subseteq Mails
        /\ UNCHANGED <<mailStage, mailWanted, mailRow>>
        /\ \A n \in Mails : n # mailer[w].row => mailSent'[n] = mailSent[n]
    BY <1>0, <2>1
  <2> HIDE DEF MailInv
  <2> QED
    BY <1>2, <2>1, <2>2, <2>3, <2>4, <2>5
<1> HIDE DEF MailInv
<1> QED
  BY <1>1, <1>4, <1>5, <1>6, <1>7

LEMMA MailMarks ==
    ASSUME MailInv, NEW w \in Mailers,
           (\E m \in Mails : CheckRefused(w, m)) \/ MarkRow(w)
    PROVE  MailInv'
<1>1. ASSUME NEW m \in Mails, CheckRefused(w, m) PROVE MailInv'
  <2>1. mailRow[m].tries \in Nat
    BY DEF MailInv, MailTypeOK, MailRow
  <2> QED
    BY <1>1, <2>1, RowsDoneKept DEF CheckRefused
<1>2. ASSUME MarkRow(w) PROVE MailInv'
  <2> DEFINE m == mailer[w].row
             tries == mailRow[m].tries
  <2>1. mailer[w] \in MailerRecord /\ mailer[w].pc = "mark" /\ m \in mailer[w].todo
    BY <1>2 DEF MailInv, MailTypeOK, MarkRow
  <2>2. m \in Mails
    BY <2>1 DEF MailerRecord
  <2>3. tries \in Nat
    BY <2>2 DEF MailInv, MailTypeOK, MailRow
  <2>4. /\ NextRow(w, m)
        /\ UNCHANGED <<mailStage, mailWanted, mailSent, mailKnown, mailLost>>
    BY <1>2 DEF MarkRow
  <2>5. CASE mailer[w].answer = "ok"
    <3>1. UpdateRow(w, m, "sent", tries)
      BY <1>2, <2>5 DEF MarkRow
    <3> QED
      BY <2>1, <2>2, <2>3, <2>4, <3>1, RowsDoneKept
  <2>6. CASE mailer[w].answer # "ok"
    <3>1. Holds(w, m)
      BY <2>1, <2>6 DEF Holds
    <3>2. PICK st \in {"pending", "failed"}, left \in Nat : UpdateRow(w, m, st, left)
      <4>1. CASE mailer[w].answer = "missing_secret"
        <5>1. (IF tries > 0 THEN tries - 1 ELSE 0) \in Nat
          BY <2>3
        <5>2. UpdateRow(w, m, "pending", IF tries > 0 THEN tries - 1 ELSE 0)
          BY <1>2, <4>1 DEF MarkRow
        <5> HIDE DEF tries
        <5> QED
          BY <5>1, <5>2
      <4>2. CASE mailer[w].answer = "error"
        <5>1. UpdateRow(w, m, IF tries >= MaxAttempts THEN "failed" ELSE "pending", tries)
          BY <1>2, <4>2 DEF MarkRow
        <5> QED
          BY <5>1, <2>3
      <4> QED
        BY <2>1, <2>6, <4>1, <4>2 DEF MailerRecord
    <3> QED
      BY <2>1, <2>2, <2>4, <3>1, <3>2, RowsDoneKept
  <2> QED
    BY <2>5, <2>6
<1> QED
  BY <1>1, <1>2

LEMMA MailDies ==
    ASSUME MailInv, NEW w \in Mailers, MailerDies(w)
    PROVE  MailInv'
<1>1. MailerIdle \in MailerRecord
  BY MailAssumption DEF MailerIdle, MailerRecord, MailUsers
<1>2. /\ mailer' = [mailer EXCEPT ![w] = MailerIdle]
      /\ mailRow' = [m \in Mails |->
           IF mailRow[m].by = w THEN [mailRow[m] EXCEPT !.by = NoMail] ELSE mailRow[m]]
      /\ UNCHANGED <<mailStage, mailWanted, mailSent, mailKnown, mailLost>>
  BY DEF MailerDies
<1>3. ASSUME NEW m \in Mails
      PROVE  mailRow'[m] \in MailRow /\ mailRow'[m].st = mailRow[m].st
  BY <1>2 DEF MailInv, MailTypeOK, MailRow
<1>4. mailRow' \in [Mails -> MailRow]
  BY <1>2, <1>3
<1>5. MailTypeOK'
  BY <1>1, <1>2, <1>4 DEF MailInv, MailTypeOK
<1>6. ASSUME NEW n \in Mails
      PROVE  mailSent'[n] + MailHeld(w, n)' + Free(n)' + mailLost[n]
               <= mailSent[n] + MailHeld(w, n) + Free(n) + mailLost'[n]
  <2>1. ~ Holds(w, n)'
    BY <1>2 DEF Holds, MailerIdle, MailInv, MailTypeOK
  <2>2. Free(n)' = Free(n)
    BY <1>3 DEF Free
  <2>3. /\ mailSent[n] \in Nat /\ mailLost[n] \in Nat
        /\ mailSent'[n] = mailSent[n] /\ mailLost'[n] = mailLost[n]
    BY <1>2 DEF MailInv, MailTypeOK
  <2> QED
    BY <2>1, <2>2, <2>3 DEF MailHeld, Free
<1> QED
  BY <1>1, <1>2, <1>5, <1>6, DeliveryStep DEF MailerIdle

\* What is around the deliveries moves no mail.
LEMMA MailAround ==
    ASSUME MailInv, MailTypeOK', UNCHANGED <<mailer, mailSent, mailLost>>,
           \A m \in Mails : mailRow'[m].st = mailRow[m].st
    PROVE  MailInv'
<1>1. \A m \in Mails : Holders(m)' = Holders(m) /\ Free(m)' = Free(m)
  BY DEF Holders, Holds, Free
<1> QED
  BY <1>1 DEF MailInv

LEMMA MailKept == MailInv /\ [MailNext]_mailVars => MailInv'
<1> SUFFICES ASSUME MailInv, [MailNext]_mailVars PROVE MailInv'
  OBVIOUS
<1>1. ASSUME NEW w \in Mailers, MailerStep(w) PROVE MailInv'
  <2>1. CASE \E m \in Mails : Notify(w, m)
    BY <2>1, MailNotify
  <2>2. CASE ClaimEmailOutbox(w)
    BY <2>2, MailClaim
  <2>3. CASE (\E m \in Mails : CheckRefused(w, m)) \/ MarkRow(w)
    BY <2>3, MailMarks
  <2>4. CASE \/ \E m \in Mails : CheckPassed(w, m)
             \/ SendAccepted(w) \/ SendUnanswered(w) \/ MarkThrows(w)
             \/ \E answer \in {"error", "missing_secret"} : SendRefused(w, answer)
    BY <2>4, MailAnswers
  <2>5. CASE MailerDies(w)
    BY <2>5, MailDies
  <2> QED
    BY <1>1, <2>1, <2>2, <2>3, <2>4, <2>5 DEF MailerStep
<1>2. CASE BountyAdvances
  <2>1. mailStage' \in Stages
    BY <1>2 DEF BountyAdvances, NextStage, Stages
  <2> QED
    BY <1>2, <2>1, MailAround DEF BountyAdvances, MailInv, MailTypeOK
<1>3. CASE OptOut
  BY <1>3, MailAround DEF OptOut, MailInv, MailTypeOK
<1>4. ASSUME NEW m \in Mails, LeaseRunsOut(m) PROVE MailInv'
  <2>1. [mailRow[m] EXCEPT !.stale = TRUE] \in MailRow
    BY DEF MailInv, MailTypeOK, MailRow
  <2>2. mailRow' = [mailRow EXCEPT ![m] = [mailRow[m] EXCEPT !.stale = TRUE]]
    BY <1>4 DEF LeaseRunsOut
  <2>3. mailRow' \in [Mails -> MailRow]
    BY <2>1, <2>2 DEF MailInv, MailTypeOK
  <2>4. \A n \in Mails : mailRow'[n].st = mailRow[n].st
    BY <2>2 DEF MailInv, MailTypeOK, MailRow
  <2> QED
    BY <1>4, <2>3, <2>4, MailAround DEF LeaseRunsOut, MailInv, MailTypeOK
<1>5. ASSUME NEW m \in Mails, ProviderForgets(m) PROVE MailInv'
  BY <1>5, MailAround DEF ProviderForgets, MailInv, MailTypeOK
<1>6. CASE UNCHANGED mailVars
  BY <1>6, MailAround DEF mailVars, MailInv, MailTypeOK
<1> QED
  BY <1>1, <1>2, <1>3, <1>4, <1>5, <1>6 DEF MailNext

\* Only the owner of a row that is being sent ends it, and nothing opens it again.
LEMMA FinalStays ==
    ASSUME MailInv, [MailNext]_mailVars, NEW m \in Mails,
           mailRow[m].st \in {"sent", "failed"}
    PROVE  mailRow'[m].st = mailRow[m].st
<1> USE DEF MailInv, MailTypeOK
<1>1. ASSUME NEW w \in Mailers, NEW n \in Mails, NEW st, NEW tries, UpdateRow(w, n, st, tries)
      PROVE  mailRow'[m] = mailRow[m]
  BY <1>1 DEF UpdateRow, Owns
<1>2. ASSUME NEW w \in Mailers, MailerStep(w) PROVE mailRow'[m].st = mailRow[m].st
  <2>1. ASSUME NEW n \in Mails, Notify(w, n) PROVE mailRow'[m].st = mailRow[m].st
    BY <2>1 DEF Notify
  <2>2. ASSUME NEW n \in Mails, CheckRefused(w, n) PROVE mailRow'[m].st = mailRow[m].st
    BY <2>2, <1>1 DEF CheckRefused
  <2>3. ASSUME NEW n \in Mails, CheckPassed(w, n) PROVE mailRow'[m].st = mailRow[m].st
    BY <2>3 DEF CheckPassed
  <2>4. CASE ClaimEmailOutbox(w)
    <3>1. ~ RowClaimable(mailRow[m])
      BY DEF RowClaimable
    <3> QED
      BY <2>4, <3>1 DEF ClaimEmailOutbox
  <2>5. CASE SendAccepted(w) \/ SendUnanswered(w) \/ MarkThrows(w)
    BY <2>5 DEF SendAccepted, SendUnanswered, MarkThrows
  <2>6. ASSUME NEW answer, SendRefused(w, answer) PROVE mailRow'[m].st = mailRow[m].st
    BY <2>6 DEF SendRefused
  <2>7. CASE MarkRow(w)
    <3>1. mailer[w].row \in Mails /\ mailer[w].answer \in {"ok", "error", "missing_secret"}
      BY <2>7 DEF MarkRow, MailerRecord
    <3> QED
      BY <2>7, <3>1, <1>1 DEF MarkRow
  <2>8. CASE MailerDies(w)
    BY <2>8 DEF MailerDies, MailRow
  <2> QED
    BY <1>2, <2>1, <2>2, <2>3, <2>4, <2>5, <2>6, <2>7, <2>8 DEF MailerStep
<1>3. CASE BountyAdvances \/ OptOut
  BY <1>3 DEF BountyAdvances, OptOut
<1>4. ASSUME NEW n \in Mails, LeaseRunsOut(n) PROVE mailRow'[m].st = mailRow[m].st
  BY <1>4 DEF LeaseRunsOut
<1>5. ASSUME NEW n \in Mails, ProviderForgets(n) PROVE mailRow'[m].st = mailRow[m].st
  BY <1>5 DEF ProviderForgets
<1>6. CASE UNCHANGED mailVars
  BY <1>6 DEF mailVars
<1> HIDE DEF MailInv, MailTypeOK
<1> QED
  BY <1>2, <1>3, <1>4, <1>5, <1>6 DEF MailNext

\* Rows of the outbox and deliveries in flight keep their types.
LEMMA MailTypeCorrect == MailSpec => []MailTypeOK
<1>1. MailInv => MailTypeOK
  BY DEF MailInv
<1> QED
  BY <1>1, MailStarts, MailKept, PTL DEF MailSpec

\* MailOnce, for any mails, any number of deliveries that overlap and any number of
\* leases that run out: a mail goes out again only after a lease ran out, an answer
\* was lost or a write failed, and what is sent or given up stays so (outbox.ts).
THEOREM MailGoesOnce == MailSpec => MailOnce
<1>1. MailInv => MailedOncePerLoss
  <2> SUFFICES ASSUME MailInv, NEW m \in Mails PROVE mailSent[m] <= 1 + mailLost[m]
    BY DEF MailedOncePerLoss
  <2>1. /\ mailSent[m] \in Nat /\ mailLost[m] \in Nat /\ IsFiniteSet(Holders(m))
        /\ mailSent[m] + Cardinality(Holders(m)) + Free(m) <= 1 + mailLost[m]
    BY DEF MailInv, MailTypeOK
  <2>2. Cardinality(Holders(m)) \in Nat
    BY <2>1, FS_CardinalityType
  <2> QED
    BY <2>1, <2>2 DEF Free
<1>2. MailInv /\ [MailNext]_mailVars =>
        [\A m \in Mails : mailRow[m].st \in {"sent", "failed"}
                            => mailRow'[m].st = mailRow[m].st]_mailVars
  BY FinalStays
<1> QED
  BY MailStarts, MailKept, <1>1, <1>2, PTL DEF MailSpec, MailOnce, MailFinal
=============================================================================
