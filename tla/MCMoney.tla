------------------------------ MODULE MCMoney ------------------------------
(***************************************************************************)
(* Instances for TLC of what brings money in, counts it and addresses it,    *)
(* and of the keys that may move it.                                        *)
(* A behaviour follows one of the components, chosen by the initial state;  *)
(* the others keep their initial states, as in MCServices.  p1 and p2 are   *)
(* the requests, runs or claims that run side by side.                      *)
(***************************************************************************)
EXTENDS Funding, FundingMarkers, PayoutAddress, Checkout, ApiGateway, AdminDesk,
        TLC

CONSTANTS p1, p2, b1, b2, h1, h2, h3, pa, pb, f1, f2, l1, l2

VARIABLE part    \* the component this behaviour is about

Parts == {"funding", "marks", "address", "checkout", "gateway", "desk"}

moneyVars == <<part, vars, fmVars, daVars, ckVars, gwVars, adVars>>

\* The receipt of h1 holds the transfer, one of another token, or two of the
\* payer and one of another wallet; h1 is on the escrow of b1, may be
\* its head, and may be credited to b1 or b2.
MarkLegacy ==
    LET pays(usdc, from, index) == [usdc |-> usdc, from |-> from, value |-> 1, index |-> index]
        receipts == {{pays(TRUE, pa, 0)}, {pays(FALSE, pa, 0)},
                     {pays(TRUE, pb, 0), pays(TRUE, pa, 1), pays(TRUE, pa, 2)}}
        credit(b) == [bounty |-> b, amount |-> 1, payer |-> pa]
        row(h, head) == [hash |-> h, amount |-> 1, payer |-> pa, head |-> head, marks |-> {}]
        states == {[chain |-> (h1 :> x @@ h2 :> {pays(TRUE, pa, 0)} @@ h3 :> {}),
                    credit |-> (h1 :> u @@ h2 :> credit(b2) @@ h3 :> NoCredit),
                    escrow |-> (b1 :> row(h1, head) @@ b2 :> row(h2, FALSE))] :
                    x \in receipts, u \in {NoCredit, credit(b1), credit(b2)}, head \in BOOLEAN}
    IN  {s \in states : LegacyState(s)}

\* Components with several initial states have one where they stand still.
MoneyInit ==
    /\ part \in Parts
    /\ Init /\ MarkInit /\ AddressInit /\ CheckoutInit /\ GatewayInit /\ DeskInit
    /\ part # "funding" => \A f \in Faces : bounty.face <= f
    /\ part # "marks" => /\ fmChain[h1] = fmChain[h2] /\ fmCredit[h1] = NoCredit
                         /\ \A b \in Funded : ~ fmEscrow[b].head
    /\ part # "address" => /\ ~ daHub /\ daWallet[Hunter] = NoAddress
                           /\ daRow["pool"].user = NoUser
    /\ part # "checkout" => \A f \in CkFaces : ckBounty.face <= f
    /\ part # "gateway" => \A u \in GwUsers : gwUser[u].wallet /\ ~ gwUser[u].admin

MoneyNext ==
    \/ part = "funding" /\ Next /\ UNCHANGED <<part, fmVars, daVars, ckVars, gwVars, adVars>>
    \/ part = "marks" /\ MarkNext /\ UNCHANGED <<part, vars, daVars, ckVars, gwVars, adVars>>
    \/ part = "address" /\ AddressNext /\ UNCHANGED <<part, vars, fmVars, ckVars, gwVars, adVars>>
    \/ part = "checkout" /\ CheckoutNext /\ UNCHANGED <<part, vars, fmVars, daVars, gwVars, adVars>>
    \/ part = "gateway" /\ GatewayNext /\ UNCHANGED <<part, vars, fmVars, daVars, ckVars, adVars>>
    \/ part = "desk" /\ DeskNext /\ UNCHANGED <<part, vars, fmVars, daVars, ckVars, gwVars>>

MoneySpec == MoneyInit /\ [][MoneyNext]_moneyVars

MoneyTypeOK ==
    CASE part = "funding" -> TypeOK [] part = "marks" -> MarkTypeOK
      [] part = "address" -> AddressTypeOK [] part = "checkout" -> CheckoutTypeOK
      [] part = "gateway" -> GatewayTypeOK [] part = "desk" -> DeskTypeOK

Symmetry == Permutations({p1, p2})

\* Contributions and legs are counted by what became of them, and of the audit log
\* there is what DeskTellsTheTruth reads.
DeskView ==
    LET counted(S, Fate(_)) == {<<Fate(x), Cardinality({y \in S : Fate(y) = Fate(x)})>> : x \in S}
        leg(l) == adLeg[l]
        funder(f) == <<f \in adOut, f \in adBack, f \in adUntold, f \in adLogged,
                       {c \in AdCalls : f \in adCall[c].leg},
                       {c \in AdCalls : f \in adCall[c].moved}>>
    IN  <<adBounty, adEscrow, counted(AdLegs, leg), counted(AdFunders, funder),
          [c \in AdCalls |-> [adCall[c] EXCEPT !.leg = {}, !.moved = {}]],
          adReport, adCrossed,
          \E row \in adAudit : row.action = "refund" /\ row.result = "ok">>

\* The price matters until the payment has settled, and the hash that was read until
\* it is written.
CheckoutView ==
    LET unpriced(q) == IF q.pc \in {"post", "settle"} THEN q
                       ELSE [q EXCEPT !.price = CkNone, !.asked = CkNone]
        unread(q) == IF q.pc = "write" THEN q ELSE [q EXCEPT !.saw = CkNone]
    IN  <<ckBounty, ckEscrow, [p \in CkPresses |-> unread(unpriced(ckPress[p]))], ckSettled>>

\* The components that stand still do not distinguish states.
MoneyView ==
    <<part, CASE part = "funding" -> vars [] part = "marks" -> fmVars
              [] part = "address" -> daVars [] part = "checkout" -> CheckoutView
              [] part = "gateway" -> gwVars [] part = "desk" -> DeskView>>
=============================================================================
