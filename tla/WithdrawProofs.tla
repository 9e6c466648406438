--------------------------- MODULE WithdrawProofs ---------------------------
(***************************************************************************)
(* FeeWithdraw: by the inductive invariant WithdrawInv a confirm token pays *)
(* once, rows say what the chain did and an order is not repeated silently  *)
(* unless an error was wrongly taken for a rejection, and an unknown        *)
(* outcome stops the wallet, for any number of requests.                    *)
(***************************************************************************)
EXTENDS FeeWithdraw, FiniteSetTheorems, TLAPS

-----------------------------------------------------------------------------
(* FeeWithdraw: a confirm token pays once                                   *)

\* What a request looks like once it is known not to be idle.
LEMMA BusyType ==
    ASSUME TypeOK, NEW r \in Requests, req[r] # Idle
    PROVE  req[r] \in Request
BY DEF TypeOK

\* Every step keeps the types.
LEMMA TypeStep == TypeOK /\ [Next]_vars => TypeOK'
<1> SUFFICES ASSUME TypeOK, [Next]_vars PROVE TypeOK'
    OBVIOUS
<1> USE WithdrawAssumption
<1>1. ASSUME NEW t \in Tokens, NEW o \in Orders, Preview(t, o) PROVE TypeOK'
    BY <1>1 DEF TypeOK, Preview, Minted, Token
<1>2. ASSUME NEW r \in Requests, NEW t \in Tokens, NEW again \in BOOLEAN,
             Execute(r, t, again)
      PROVE TypeOK'
    <2>1. [pc |-> "claim", token |-> t, now |-> clock, again |-> again,
           outcome |-> "none"] \in Request
        BY DEF Request, Status, TypeOK
    <2> QED BY <1>2, <2>1 DEF TypeOK, Execute, Minted
<1>3. ASSUME NEW r \in Requests, Claim(r) PROVE TypeOK'
    <2>1. req[r] \in Request
        BY <1>3, BusyType DEF Claim
    <2>2. [req[r] EXCEPT !.pc = "send"] \in Request
        BY <2>1 DEF Request
    <2>3. req' \in [Requests -> Request \cup {Idle}]
        BY <1>3, <2>2 DEF Claim, TypeOK
    <2>4. row' \in [Tokens -> Row]
        BY <1>3, <2>1 DEF Claim, TypeOK, Row, Status, Request
    <2>5. Minted' = Minted /\ token' \in [Minted -> Token]
        BY <1>3, <2>1 DEF Claim, TypeOK, Minted, Token
    <2> QED BY <1>3, <2>3, <2>4, <2>5 DEF Claim, TypeOK
<1>4. ASSUME NEW r \in Requests, ClaimRefused(r) PROVE TypeOK'
    BY <1>4 DEF TypeOK, ClaimRefused, Minted
<1>5. ASSUME NEW r \in Requests, NEW pc \in {"mark", "catch"}, NEW outcome \in Status,
             req[r] # Idle, Reply(r, pc, outcome)
      PROVE req' \in [Requests -> Request \cup {Idle}]
    <2>1. req[r] \in Request
        BY <1>5, BusyType
    <2>2. [req[r] EXCEPT !.pc = pc, !.outcome = outcome] \in Request
        BY <2>1 DEF Request
    <2>3. req' = [req EXCEPT ![r] = [req[r] EXCEPT !.pc = pc, !.outcome = outcome]]
        BY <1>5 DEF Reply, TypeOK
    <2> QED BY <2>2, <2>3 DEF TypeOK
<1>6. ASSUME NEW r \in Requests, SendOk(r) PROVE TypeOK'
    <2>1. "mark" \in {"mark", "catch"} /\ "ok" \in Status
        BY DEF Status
    <2>2. req' \in [Requests -> Request \cup {Idle}]
        BY <1>5, <1>6, <2>1 DEF SendOk
    <2>3. req[r].token \in Tokens
        BY <1>6, BusyType DEF SendOk, Request
    <2>4. sent' \in [Tokens -> Nat]
        BY <1>6, <2>3 DEF SendOk, TypeOK
    <2> QED BY <1>6, <2>2, <2>4 DEF SendOk, TypeOK, Minted
<1>7. ASSUME NEW r \in Requests, NEW moved \in {0, 1}, SendNoHash(r, moved) PROVE TypeOK'
    <2>1. "mark" \in {"mark", "catch"} /\ "unknown" \in Status
        BY DEF Status
    <2>2. req' \in [Requests -> Request \cup {Idle}]
        BY <1>5, <1>7, <2>1 DEF SendNoHash
    <2>3. req[r].token \in Tokens
        BY <1>7, BusyType DEF SendNoHash, Request
    <2>4. sent' \in [Tokens -> Nat]
        BY <1>7, <2>3 DEF SendNoHash, TypeOK
    <2> QED BY <1>7, <2>2, <2>4 DEF SendNoHash, TypeOK, Minted
<1>8. ASSUME NEW r \in Requests, NEW error \in Errors,
             NEW moved \in {0, 1}, SendThrows(r, error, moved)
      PROVE TypeOK'
    <2>1. "catch" \in {"mark", "catch"} /\ FailureStatus(error) \in Status
        BY DEF Status, FailureStatus
    <2>2. req' \in [Requests -> Request \cup {Idle}]
        BY <1>5, <1>8, <2>1 DEF SendThrows
    <2>3. req[r].token \in Tokens
        BY <1>8, BusyType DEF SendThrows, Request
    <2>4. sent' \in [Tokens -> Nat]
        BY <1>8, <2>3 DEF SendThrows, TypeOK
    <2>5. misled' \subseteq Tokens
        BY <1>8, <2>3 DEF SendThrows, TypeOK
    <2> QED BY <1>8, <2>2, <2>4, <2>5 DEF SendThrows, TypeOK, Minted
<1>9. ASSUME NEW r \in Requests, Mark(r) PROVE TypeOK'
    <2>1. req[r] \in Request
        BY <1>9, BusyType DEF Mark
    <2>2. req[r].token \in Tokens /\ req[r].outcome \in Status
        BY <2>1 DEF Request
    <2>3. row' \in [Tokens -> Row]
        BY <1>9, <2>2 DEF Mark, TypeOK, Row
    <2> QED BY <1>9, <2>3 DEF Mark, TypeOK, Minted
<1>10. ASSUME NEW r \in Requests, NEW error \in {"database", "transport"},
              MarkFails(r, error)
       PROVE TypeOK'
    <2>1. "catch" \in {"mark", "catch"} /\ FailureStatus(error) \in Status
        BY DEF Status, FailureStatus
    <2>2. req' \in [Requests -> Request \cup {Idle}]
        <3>1. CASE req[r].pc = "mark"
            BY <1>5, <1>10, <2>1, <3>1 DEF MarkFails
        <3>2. CASE req[r].pc # "mark"
            BY <1>10, <3>2 DEF MarkFails, TypeOK
        <3> QED BY <3>1, <3>2
    <2>3. misled' \subseteq Tokens
        <3>1. req[r].token \in Tokens
            BY <1>10, BusyType DEF MarkFails, Request
        <3> QED BY <1>10, <3>1 DEF MarkFails, TypeOK
    <2> QED BY <1>10, <2>2, <2>3 DEF MarkFails, TypeOK, Minted
<1>11. ASSUME NEW r \in Requests, Crash(r) PROVE TypeOK'
    BY <1>11 DEF Crash, TypeOK, Minted
<1>12. CASE Tick
    BY <1>12 DEF Tick, TypeOK, Minted
<1>13. CASE UNCHANGED vars
    BY <1>13 DEF vars, TypeOK, Minted
<1> QED
    BY <1>1, <1>2, <1>3, <1>4, <1>6, <1>7, <1>8, <1>9, <1>10, <1>11, <1>12, <1>13
    DEF Next

\* The types hold in every behaviour, for any number of tokens, requests and
\* orders (the tables and the handlers of admin/withdraw.ts).
THEOREM WithdrawTypeCorrect == Spec => []TypeOK
<1>1. Init => TypeOK
    BY WithdrawAssumption DEF Init, TypeOK, Minted, Row, NoRow, Status
<1> QED BY <1>1, TypeStep, PTL DEF Spec
-----------------------------------------------------------------------------
\* A request that is past its claim, seen through the invariant.
LEMMA ClaimedFacts ==
    ASSUME TypeOK, WithdrawInv, NEW r \in Requests, req[r] # Idle, req[r].pc # "claim"
    PROVE  /\ req[r] \in Request /\ req[r].token \in Minted /\ req[r].token \in Tokens
           /\ RequestKnows(r)
           /\ \A s \in Requests : req[s] # Idle /\ req[s].pc # "claim" => s = r
           /\ req[r].token \in InFlight
<1>1. req[r] \in Request
    BY BusyType
<1>2. req[r].token \in Tokens
    BY <1>1 DEF Request
<1>3. Claimed(r)
    BY DEF Claimed
<1>4. RequestKnows(r)
    BY <1>3 DEF WithdrawInv, ClaimedKnow
<1>5. req[r].token \in Minted
    BY DEF WithdrawInv, TokensMinted
<1>6. \A s \in Requests : req[s] # Idle /\ req[s].pc # "claim" => s = r
    BY <1>3 DEF WithdrawInv, OneClaimed, Claimed
<1>7. req[r].token \in InFlight
    BY <1>2, <1>4 DEF RequestKnows, InFlight
<1> QED BY <1>1, <1>2, <1>4, <1>5, <1>6, <1>7

\* A step that leaves tokens, rows and the chain alone and in which no request
\* gets past its claim keeps the invariant.
LEMMA QuietStep ==
    ASSUME TypeOK, WithdrawInv, UNCHANGED <<token, row, sent, misled>>,
           \A r \in Requests :
              \/ req'[r] = req[r]
              \/ req'[r] = Idle
              \/ req'[r] # Idle /\ req'[r].pc = "claim" /\ req'[r].token \in Minted
    PROVE  WithdrawInv'
<1>1. Minted' = Minted /\ InFlight' = InFlight /\ \A t \in Tokens : Consumed(t)' = Consumed(t)
    BY DEF Minted, InFlight, Consumed
<1>2. \A r \in Requests : Claimed(r)' => Claimed(r) /\ req'[r] = req[r]
    BY DEF Claimed
<1>3. UnusedIsClean' /\ OneInFlight'
    BY <1>1 DEF WithdrawInv, UnusedIsClean, OneInFlight
<1>4. TokensMinted'
    BY <1>1 DEF WithdrawInv, TokensMinted
<1>5. ClaimedKnow'
    <2> SUFFICES ASSUME NEW r \in Requests, Claimed(r)' PROVE RequestKnows(r)'
        BY DEF ClaimedKnow
    <2>1. req[r] # Idle /\ req[r].pc # "claim" /\ req'[r] = req[r]
        BY <1>2 DEF Claimed
    <2>2. RequestKnows(r) /\ req[r].token \in Tokens
        BY <2>1, ClaimedFacts
    <2> QED BY <1>1, <2>1, <2>2 DEF RequestKnows
<1>6. OneClaimed'
    BY <1>2 DEF WithdrawInv, OneClaimed
<1>7. OneTransferPerToken' /\ StatusMatchesChain'
    BY DEF WithdrawInv, OneTransferPerToken, StatusMatchesChain, TypeOK
<1>8. OrdersApart'
    BY <1>1 DEF WithdrawInv, OrdersApart, Apart, Within, TypeOK
<1> QED BY <1>3, <1>4, <1>5, <1>6, <1>7, <1>8 DEF WithdrawInv

\* A new token changes nothing that the invariant says of the others.
LEMMA PreviewInv ==
    ASSUME TypeOK, WithdrawInv, NEW t \in Tokens, NEW o \in Orders, Preview(t, o)
    PROVE  WithdrawInv'
<1>1. Minted' = Minted \cup {t} /\ \A u \in Minted : token'[u] = token[u]
    BY DEF Preview, Minted
<1>2. token'[t].used = FALSE
    BY <1>1 DEF Preview, Minted
<1>3. \A u \in Tokens : Consumed(u)' <=> Consumed(u)
    BY <1>1, <1>2 DEF Consumed, Preview
<1>4. UnusedIsClean' /\ OneInFlight'
    BY <1>3 DEF WithdrawInv, UnusedIsClean, OneInFlight, InFlight, Preview
<1>5. TokensMinted'
    BY <1>1 DEF WithdrawInv, TokensMinted, Preview
<1>6. ClaimedKnow'
    <2> SUFFICES ASSUME NEW r \in Requests, Claimed(r)' PROVE RequestKnows(r)'
        BY DEF ClaimedKnow
    <2>1. req[r] # Idle /\ req[r].pc # "claim" /\ req' = req
        BY DEF Claimed, Preview
    <2>2. RequestKnows(r) /\ req[r].token \in Tokens
        BY <2>1, ClaimedFacts
    <2> QED BY <1>3, <2>1, <2>2 DEF RequestKnows, Preview
<1>7. OneClaimed'
    BY DEF WithdrawInv, OneClaimed, Claimed, Preview
<1>8. OneTransferPerToken' /\ StatusMatchesChain'
    BY DEF WithdrawInv, OneTransferPerToken, StatusMatchesChain, Preview
<1>9. OrdersApart'
    <2> SUFFICES ASSUME NEW u \in (Minted \ misled)', NEW v \in (Minted \ misled)', u # v
                 PROVE  Apart(u, v)'
        BY DEF OrdersApart, Preview
    <2>1. row' = row
        BY DEF Preview
    <2>2. row[t].status = "none"
        BY DEF WithdrawInv, UnusedIsClean, Consumed, Preview
    <2>3. CASE u = t \/ v = t
        BY <2>1, <2>2, <2>3 DEF Apart
    <2>4. CASE u # t /\ v # t
        <3>1. u \in Minted \ misled /\ v \in Minted \ misled
            BY <1>1, <2>4 DEF Preview
        <3>2. Apart(u, v)
            BY <3>1 DEF WithdrawInv, OrdersApart
        <3> QED BY <1>1, <2>1, <3>1, <3>2 DEF Apart, Within
    <2> QED BY <2>3, <2>4
<1> QED BY <1>4, <1>5, <1>6, <1>7, <1>8, <1>9 DEF WithdrawInv

\* The claim: nothing is in flight, so every withdrawal that may have moved is
\* an "ok" row, and the duplicate guard has looked at exactly those.
LEMMA ClaimInv ==
    ASSUME TypeOK, WithdrawInv, NEW r \in Requests, Claim(r)
    PROVE  WithdrawInv'
<1> DEFINE q == req[r]
           k == q.token
<1>1. q \in Request /\ k \in Minted /\ k \in Tokens /\ q.now \in Nat /\ q.again \in BOOLEAN
    <2>1. q \in Request
        BY BusyType DEF Claim
    <2>2. k \in Minted
        BY DEF Claim, WithdrawInv, TokensMinted
    <2> QED BY <2>1, <2>2 DEF Request
<1>2. InFlight = {} /\ ~ token[k].used /\ (q.again \/ ~ RecentDuplicate(q))
    BY DEF Claim, Claimable
<1>3. /\ Minted' = Minted
      /\ token'[k].used = TRUE /\ \A t \in Minted : token'[t].order = token[t].order
      /\ \A t \in Minted : t # k => token'[t] = token[t]
    BY <1>1 DEF Claim, TypeOK, Minted, Token
<1>4. /\ row'[k] = [status |-> "pending", created |-> q.now, again |-> q.again]
      /\ \A t \in Tokens : t # k => row'[t] = row[t]
      /\ sent' = sent /\ misled' = misled
    BY <1>1 DEF Claim, TypeOK
<1>5. sent[k] = 0 /\ row[k].status = "none"
    BY <1>1, <1>2 DEF WithdrawInv, UnusedIsClean, Consumed
<1>6. \A t \in Tokens : row[t].status \notin {"pending", "unknown"}
    BY <1>2 DEF InFlight
<1>7. \A s \in Requests : ~ Claimed(s)
    BY <1>2, ClaimedFacts DEF Claimed
<1>8. /\ \A s \in Requests : s # r => req'[s] = req[s]
      /\ req'[r].token = k /\ req'[r].pc = "send"
    BY <1>1 DEF Claim, TypeOK, Request
<1>9. \A s \in Requests : Claimed(s)' => s = r
    BY <1>7, <1>8 DEF Claimed
<1>10. UnusedIsClean'
    <2>1. /\ \A t \in Tokens : t = k => Consumed(t)'
          /\ row'[k].status # "none"
        BY <1>1, <1>3, <1>4 DEF Consumed
    <2>2. \A t \in Tokens : t # k => (Consumed(t)' <=> Consumed(t))
        <3> SUFFICES ASSUME NEW t \in Tokens, t # k PROVE Consumed(t)' <=> Consumed(t)
            OBVIOUS
        <3>1. CASE t \in Minted
            BY <1>3, <3>1 DEF Consumed
        <3>2. CASE t \notin Minted
            BY <1>3, <3>2 DEF Consumed
        <3> QED BY <3>1, <3>2
    <2> SUFFICES ASSUME NEW t \in Tokens
                 PROVE  /\ Consumed(t)' <=> row'[t].status # "none"
                        /\ ~ Consumed(t)' => sent'[t] = 0
        BY DEF UnusedIsClean
    <2>3. CASE t = k
        BY <1>4, <1>5, <2>1, <2>3
    <2>4. CASE t # k
        <3>1. Consumed(t) <=> row[t].status # "none"
            BY DEF WithdrawInv, UnusedIsClean
        <3>2. ~ Consumed(t) => sent[t] = 0
            BY DEF WithdrawInv, UnusedIsClean
        <3> QED BY <1>4, <2>2, <2>4, <3>1, <3>2
    <2> QED BY <2>3, <2>4
<1>11. OneInFlight'
    BY <1>4, <1>6 DEF OneInFlight, InFlight
<1>12. TokensMinted'
    BY <1>1, <1>3, <1>8 DEF WithdrawInv, TokensMinted
<1>13. ClaimedKnow'
    BY <1>1, <1>3, <1>4, <1>5, <1>8, <1>9 DEF ClaimedKnow, RequestKnows, Consumed
<1>14. OneClaimed'
    BY <1>9 DEF OneClaimed
<1>15. OneTransferPerToken' /\ StatusMatchesChain'
    BY <1>4 DEF WithdrawInv, OneTransferPerToken, StatusMatchesChain
<1>16. OrdersApart'
    <2> SUFFICES ASSUME NEW t \in (Minted \ misled)', NEW u \in (Minted \ misled)', t # u
                 PROVE  Apart(t, u)'
        BY DEF OrdersApart
    <2>0. t \in Minted \ misled /\ u \in Minted \ misled /\ t \in Tokens /\ u \in Tokens
        BY <1>3, <1>4 DEF TypeOK
    <2>1. CASE t # k /\ u # k
        BY <1>3, <1>4, <2>0, <2>1 DEF WithdrawInv, OrdersApart, Apart, Within
    <2>2. ASSUME NEW v \in Minted, v # k, row[v].status \notin {"none", "failed"},
                 token[v].order = token[k].order, ~ q.again
          PROVE  row[v].created \in Nat /\ row[v].created <= q.now - Window
        <3>1. v \in Tokens /\ row[v].created \in Nat
            BY DEF TypeOK, Row
        <3>2. row[v].status = "ok"
            BY <1>6, <2>2, <3>1 DEF TypeOK, Row, Status
        <3>3. ~ (row[v].created > q.now - Window)
            BY <1>2, <2>2, <3>2 DEF RecentDuplicate
        <3> QED BY <1>1, <3>1, <3>3, WithdrawAssumption
    <2>3. Window \in Nat
        BY WithdrawAssumption
    <2>4. CASE t = k
        <3> SUFFICES ASSUME row'[u].status \notin {"none", "failed"},
                            token'[t].order = token'[u].order, Within(t, u)', ~ q.again
                     PROVE  FALSE
            BY <1>4, <2>0, <2>4 DEF Apart
        <3>1. row[u].created \in Nat /\ row[u].created <= q.now - Window
            BY <1>3, <1>4, <2>0, <2>2, <2>4
        <3>2. q.now <= row[u].created /\ row[u].created < q.now + Window
            BY <1>4, <2>0, <2>4 DEF Within
        <3> QED BY <1>1, <2>3, <3>1, <3>2
    <2>5. CASE u = k
        <3> SUFFICES ASSUME row'[t].status \notin {"none", "failed"},
                            token'[t].order = token'[u].order, Within(t, u)', ~ q.again
                     PROVE  FALSE
            BY <1>4, <2>0, <2>5 DEF Apart
        <3>1. row[t].created \in Nat /\ row[t].created <= q.now - Window
            BY <1>3, <1>4, <2>0, <2>2, <2>5
        <3>2. q.now < row[t].created + Window
            BY <1>4, <2>0, <2>5 DEF Within
        <3> QED BY <1>1, <2>3, <3>1, <3>2
    <2> QED BY <2>1, <2>4, <2>5
<1> QED
    BY <1>10, <1>11, <1>12, <1>13, <1>14, <1>15, <1>16 DEF WithdrawInv

\* The answer of the rail: what the request will write is what happened.
LEMMA SendInv ==
    ASSUME TypeOK, WithdrawInv, NEW r \in Requests,
           req[r] # Idle, req[r].pc = "send",
           NEW moved \in {0, 1}, NEW pc \in {"mark", "catch"},
           NEW outcome \in {"ok", "failed", "unknown"},
           misled \subseteq misled',
           outcome = "ok" => moved = 1,
           outcome = "failed" => moved = 0 \/ req[r].token \in misled',
           sent' = [sent EXCEPT ![req[r].token] = @ + moved],
           Reply(r, pc, outcome), UNCHANGED <<token, row, clock, dbErrors>>
    PROVE  WithdrawInv'
<1> DEFINE k == req[r].token
<1>1. /\ req[r] \in Request /\ k \in Minted /\ k \in Tokens /\ RequestKnows(r)
      /\ \A s \in Requests : req[s] # Idle /\ req[s].pc # "claim" => s = r
    BY ClaimedFacts
<1>2. sent[k] = 0 /\ row[k].status = "pending" /\ Consumed(k)
    BY <1>1 DEF RequestKnows
<1>3. sent'[k] = moved /\ \A t \in Tokens : t # k => sent'[t] = sent[t]
    BY <1>1, <1>2 DEF TypeOK
<1>4. /\ \A s \in Requests : s # r => req'[s] = req[s]
      /\ req'[r].token = k /\ req'[r].pc = pc /\ req'[r].outcome = outcome
    BY <1>1 DEF Reply, TypeOK, Request
<1>5. \A s \in Requests : Claimed(s)' => s = r
    BY <1>1, <1>4 DEF Claimed
<1>6. UnusedIsClean' /\ OneInFlight'
    BY <1>2, <1>3 DEF WithdrawInv, UnusedIsClean, OneInFlight, InFlight, Consumed, Minted
<1>7. TokensMinted'
    BY <1>1, <1>4 DEF WithdrawInv, TokensMinted, Minted
<1>8. ClaimedKnow'
    BY <1>2, <1>3, <1>4, <1>5 DEF ClaimedKnow, RequestKnows, Consumed, Minted
<1>9. OneClaimed'
    BY <1>5 DEF OneClaimed
<1>10. OneTransferPerToken' /\ StatusMatchesChain'
    BY <1>2, <1>3 DEF WithdrawInv, OneTransferPerToken, StatusMatchesChain
<1>11. OrdersApart'
    BY DEF WithdrawInv, OrdersApart, Apart, Within, Minted
<1> QED BY <1>6, <1>7, <1>8, <1>9, <1>10, <1>11 DEF WithdrawInv

\* The status write replaces "pending" by the outcome the request knows.
LEMMA MarkInv ==
    ASSUME TypeOK, WithdrawInv, NEW r \in Requests, Mark(r)
    PROVE  WithdrawInv'
<1> DEFINE k == req[r].token
           outcome == req[r].outcome
<1>1. req[r] # Idle /\ req[r].pc \notin {"claim", "send"}
    BY DEF Mark
<1>2. /\ k \in Tokens /\ RequestKnows(r) /\ k \in InFlight
      /\ \A s \in Requests : req[s] # Idle /\ req[s].pc # "claim" => s = r
    BY <1>1, ClaimedFacts
<1>3. /\ Consumed(k)
      /\ outcome \in {"ok", "failed", "unknown"}
      /\ outcome = "ok" => sent[k] = 1
      /\ outcome = "failed" => sent[k] = 0 \/ k \in misled
    BY <1>1, <1>2 DEF RequestKnows
<1>4. /\ \A t \in Tokens : t # k => row'[t] = row[t]
      /\ row'[k].status = outcome
      /\ \A t \in Tokens : row'[t].created = row[t].created /\ row'[t].again = row[t].again
    BY <1>2 DEF Mark, TypeOK, Row
<1>5. req'[r] = Idle /\ \A s \in Requests : s # r => req'[s] = req[s]
    BY DEF Mark, TypeOK
<1>6. \A s \in Requests : ~ Claimed(s)'
    BY <1>2, <1>5 DEF Claimed
<1>7. UnusedIsClean'
    BY <1>3, <1>4 DEF WithdrawInv, UnusedIsClean, Consumed, Minted, Mark
<1>8. OneInFlight'
    BY <1>2, <1>4 DEF WithdrawInv, OneInFlight, InFlight
<1>9. TokensMinted' /\ ClaimedKnow' /\ OneClaimed'
    BY <1>5, <1>6 DEF WithdrawInv, TokensMinted, ClaimedKnow, OneClaimed, Minted, Mark
<1>10. OneTransferPerToken' /\ StatusMatchesChain'
    BY <1>3, <1>4 DEF WithdrawInv, OneTransferPerToken, StatusMatchesChain, Mark
<1>11. OrdersApart'
    <2> SUFFICES ASSUME NEW t \in Minted \ misled, NEW u \in Minted \ misled, t # u
                 PROVE  Apart(t, u)'
        BY DEF OrdersApart, Mark, Minted
    <2>1. t \in Tokens /\ u \in Tokens /\ token' = token
        BY DEF TypeOK, Mark
    <2>2. row[k].status \in {"pending"}
        BY <1>2 DEF RequestKnows
    <2>3. /\ row'[t].status \notin {"none", "failed"} => row[t].status \notin {"none", "failed"}
          /\ row'[u].status \notin {"none", "failed"} => row[u].status \notin {"none", "failed"}
        BY <1>4, <2>1, <2>2
    <2>4. Apart(t, u)
        BY DEF WithdrawInv, OrdersApart
    <2> QED BY <1>4, <2>1, <2>3, <2>4 DEF Apart, Within
<1> QED BY <1>7, <1>8, <1>9, <1>10, <1>11 DEF WithdrawInv

\* A status write that fails inside the try misleads the code, unless its error
\* is one of a broken connection: then "unknown" is what it will write.
LEMMA MarkFailsInv ==
    ASSUME TypeOK, WithdrawInv, NEW r \in Requests,
           NEW error \in {"database", "transport"}, MarkFails(r, error)
    PROVE  WithdrawInv'
<1> DEFINE k == req[r].token
<1>1. UNCHANGED <<token, row, sent>>
    BY DEF MarkFails
<1>2. CASE req[r].pc # "mark"
    <2>1. req' = [req EXCEPT ![r] = Idle] /\ misled' = misled
        BY <1>2 DEF MarkFails
    <2>2. \A s \in Requests : req'[s] = req[s] \/ req'[s] = Idle
        BY <2>1 DEF TypeOK
    <2> QED BY <1>1, <2>1, <2>2, QuietStep
<1>3. CASE req[r].pc = "mark"
    <2>1. /\ req[r] \in Request /\ k \in Minted /\ k \in Tokens /\ RequestKnows(r)
          /\ \A s \in Requests : req[s] # Idle /\ req[s].pc # "claim" => s = r
        BY <1>3, ClaimedFacts DEF MarkFails
    <2>2. /\ \A s \in Requests : s # r => req'[s] = req[s]
          /\ req'[r].token = k /\ req'[r].pc = "catch"
          /\ req'[r].outcome = FailureStatus(error)
        BY <1>3, <2>1 DEF MarkFails, Reply, TypeOK, Request
    <2>3. Consumed(k) /\ row[k].status = "pending"
        BY <2>1 DEF RequestKnows
    <2>4. \A s \in Requests : Claimed(s)' => s = r
        BY <2>1, <2>2 DEF Claimed
    <2>5. UnusedIsClean' /\ OneInFlight'
        BY <1>1 DEF WithdrawInv, UnusedIsClean, OneInFlight, InFlight, Consumed, Minted
    <2>6. TokensMinted'
        BY <1>1, <2>1, <2>2 DEF WithdrawInv, TokensMinted, Minted
    <2>11. misled \subseteq misled' /\ (error = "database" => k \in misled')
        BY <1>3 DEF MarkFails
    <2>12. /\ req'[r].outcome \in {"failed", "unknown"}
           /\ req'[r].outcome = "failed" => k \in misled'
        BY <2>2, <2>11 DEF FailureStatus
    <2>7. ClaimedKnow'
        BY <1>1, <2>2, <2>3, <2>4, <2>12 DEF ClaimedKnow, RequestKnows, Consumed, Minted
    <2>8. OneClaimed'
        BY <2>4 DEF OneClaimed
    <2>9. OneTransferPerToken' /\ StatusMatchesChain'
        BY <1>1, <2>11 DEF WithdrawInv, OneTransferPerToken, StatusMatchesChain
    <2>10. OrdersApart'
        BY <1>1, <2>11 DEF WithdrawInv, OrdersApart, Apart, Within, Minted
    <2> QED BY <2>5, <2>6, <2>7, <2>8, <2>9, <2>10 DEF WithdrawInv
<1> QED BY <1>2, <1>3

\* Nothing is minted, claimed or sent at first.
LEMMA WithdrawInit == Init => WithdrawInv
    BY DEF Init, WithdrawInv, UnusedIsClean, OneInFlight, InFlight, TokensMinted,
           ClaimedKnow, OneClaimed, Claimed, OneTransferPerToken, StatusMatchesChain,
           OrdersApart, Minted, NoRow, Consumed

\* Every step keeps the invariant.
LEMMA StepInv == TypeOK /\ WithdrawInv /\ [Next]_vars => WithdrawInv'
<1> SUFFICES ASSUME TypeOK, WithdrawInv, [Next]_vars PROVE WithdrawInv'
    OBVIOUS
<1>0. 1 \in {0, 1}
    OBVIOUS
<1>1. ASSUME NEW t \in Tokens, NEW o \in Orders, Preview(t, o) PROVE WithdrawInv'
    BY <1>1, PreviewInv
<1>2. ASSUME NEW r \in Requests, NEW t \in Tokens, NEW again \in BOOLEAN,
             Execute(r, t, again)
      PROVE WithdrawInv'
    <2> DEFINE new == [pc |-> "claim", token |-> t, now |-> clock,
                       again |-> again, outcome |-> "none"]
    <2>1. new # Idle
        <3>1. new.pc = "claim" /\ Idle.pc = "idle"
            BY DEF Idle
        <3> QED BY <3>1
    <2>2. \A s \in Requests : req'[s] = req[s] \/ req'[s] = new
        BY <1>2 DEF Execute, TypeOK
    <2>3. new.pc = "claim" /\ new.token \in Minted
        BY <1>2 DEF Execute
    <2>4. UNCHANGED <<token, row, sent, misled>>
        BY <1>2 DEF Execute
    <2> QED BY <2>1, <2>2, <2>3, <2>4, QuietStep
<1>3. ASSUME NEW r \in Requests, Claim(r) PROVE WithdrawInv'
    BY <1>3, ClaimInv
<1>4. ASSUME NEW r \in Requests, ClaimRefused(r) \/ Crash(r) PROVE WithdrawInv'
    <2>1. \A s \in Requests : req'[s] = req[s] \/ req'[s] = Idle
        BY <1>4 DEF ClaimRefused, Crash, TypeOK
    <2>2. UNCHANGED <<token, row, sent, misled>>
        BY <1>4 DEF ClaimRefused, Crash
    <2> QED BY <2>1, <2>2, QuietStep
<1>5. ASSUME NEW r \in Requests, SendOk(r) PROVE WithdrawInv'
    BY <1>0, <1>5, SendInv DEF SendOk
<1>6. ASSUME NEW r \in Requests, NEW moved \in {0, 1}, SendNoHash(r, moved)
      PROVE WithdrawInv'
    BY <1>6, SendInv DEF SendNoHash
<1>7. ASSUME NEW r \in Requests, NEW moved \in {0, 1},
             NEW error \in Errors, SendThrows(r, error, moved)
      PROVE WithdrawInv'
    <2>1. /\ FailureStatus(error) \in {"ok", "failed", "unknown"}
          /\ FailureStatus(error) # "ok"
          /\ misled \subseteq misled'
          /\ FailureStatus(error) = "failed" => moved = 0 \/ req[r].token \in misled'
        BY <1>7, WithdrawAssumption DEF SendThrows, FailureStatus
    <2> QED BY <1>7, <2>1, SendInv DEF SendThrows
<1>8. ASSUME NEW r \in Requests, Mark(r) PROVE WithdrawInv'
    BY <1>8, MarkInv
<1>9. ASSUME NEW r \in Requests, NEW error \in {"database", "transport"},
             MarkFails(r, error)
      PROVE WithdrawInv'
    BY <1>9, MarkFailsInv
<1>10. CASE Tick \/ UNCHANGED vars
    <2>1. UNCHANGED <<token, row, sent, req, misled>>
        BY <1>10 DEF Tick, vars
    <2> QED BY <2>1, QuietStep
<1> QED
    BY <1>1, <1>2, <1>3, <1>4, <1>5, <1>6, <1>7, <1>8, <1>9, <1>10 DEF Next

\* The invariant holds in every behaviour, whatever dies or fails.
THEOREM WithdrawInductive == Spec => [](TypeOK /\ WithdrawInv)
<1>1. Init => TypeOK
    BY WithdrawAssumption DEF Init, TypeOK, Minted, Row, NoRow, Status
<1> QED BY <1>1, TypeStep, WithdrawInit, StepInv, PTL DEF Spec
-----------------------------------------------------------------------------
\* A confirm token moves money at most once (claimFeeWithdraw consumes it in
\* the transaction that comes before the send).
THEOREM TokenPaysOnce == Spec => []OneTransferPerToken
<1>1. WithdrawInv => OneTransferPerToken
    BY DEF WithdrawInv
<1> QED BY <1>1, WithdrawInductive, PTL

\* The rows that markWithdrawal leaves say what the chain did: "ok" always, and
\* "failed" unless the error was taken for a rejection and was none.
THEOREM HistoryIsTrue == Spec => []StatusMatchesChain
<1>1. WithdrawInv => StatusMatchesChain
    BY DEF WithdrawInv
<1> QED BY <1>1, WithdrawInductive, PTL

\* The duplicate guard of claimFeeWithdraw lets no order through twice within
\* the window without sendAgain, for any two withdrawals of which no error was
\* wrongly taken for a rejection.
THEOREM NoRepeat == Spec => []NoSilentRepeatUnlessMisled
<1>1. TypeOK /\ WithdrawInv => NoSilentRepeatUnlessMisled
    <2> SUFFICES ASSUME TypeOK, WithdrawInv,
                        NEW t \in Minted \ misled, NEW u \in Minted \ misled, t # u,
                        sent[t] > 0, sent[u] > 0, token[t].order = token[u].order,
                        Within(t, u)
                 PROVE  row[t].again \/ row[u].again
        BY DEF NoSilentRepeatUnlessMisled, RepeatsSilently
    <2>1. ASSUME NEW v \in Minted \ misled, sent[v] > 0
          PROVE  row[v].status \notin {"none", "failed"}
        <3>1. v \in Tokens /\ sent[v] # 0
            BY <2>1 DEF TypeOK
        <3>2. row[v].status # "failed"
            BY <3>1 DEF WithdrawInv, StatusMatchesChain
        <3>3. row[v].status # "none"
            BY <3>1 DEF WithdrawInv, UnusedIsClean
        <3> QED BY <3>2, <3>3
    <2>2. Apart(t, u)
        BY DEF WithdrawInv, OrdersApart
    <2> QED BY <2>1, <2>2 DEF Apart
<1> QED BY <1>1, WithdrawInductive, PTL

\* As long as a transfer's outcome is unknown nothing else leaves the wallet
\* (claimFeeWithdraw refuses while a row is pending or unknown).
THEOREM UnknownStops == Spec => UnknownStopsTheWallet
<1>1. TypeOK /\ WithdrawInv /\ [Next]_vars
        => [(\E t \in Tokens : row[t].status = "unknown") => sent' = sent]_vars
    <2> SUFFICES ASSUME TypeOK, WithdrawInv, Next,
                        NEW t \in Tokens, row[t].status = "unknown"
                 PROVE  sent' = sent
        BY DEF vars
    <2>1. \A r \in Requests : ~ (req[r] # Idle /\ req[r].pc = "send")
        <3> SUFFICES ASSUME NEW r \in Requests, req[r] # Idle, req[r].pc = "send"
                     PROVE  FALSE
            OBVIOUS
        <3>1. RequestKnows(r) /\ req[r].token \in InFlight
            BY ClaimedFacts
        <3>2. t \in InFlight
            BY DEF InFlight
        <3>3. t = req[r].token
            BY <3>1, <3>2 DEF WithdrawInv, OneInFlight
        <3> QED BY <3>1, <3>3 DEF RequestKnows
    <2> QED
        BY <2>1 DEF Next, Preview, Execute, Claim, ClaimRefused, SendOk, SendNoHash,
                    SendThrows, Mark, MarkFails, Crash, Tick
<1> QED BY <1>1, WithdrawInductive, PTL DEF Spec, UnknownStopsTheWallet
=============================================================================
