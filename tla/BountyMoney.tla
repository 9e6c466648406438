---------------------------- MODULE BountyMoney ----------------------------
(***************************************************************************)
(* What the escrow promises about the money of one bounty, without          *)
(* requests, rows, keys or retries (docs/escrow.md): the hunters' side is    *)
(* paid after the winner, what is on record has been paid and stays on      *)
(* record, the claim is paid when its winner is, and the bounty is refunded  *)
(* when everything has gone back.  Settlement implements it.                *)
(***************************************************************************)
CONSTANTS
    Winner,        \* the transfer to the winner
    Others,        \* those that wait for it: the fee and the pool shares
    Returns        \* the transfers of a refund

VARIABLES
    moved,         \* transfers that have happened
    recorded,      \* transfers the escrow's records hold as done
    won,           \* the winner's claim is closed as paid
    refunded       \* the escrow is closed as refunded

moneyVars == <<moved, recorded, won, refunded>>
-----------------------------------------------------------------------------
MoneyInit == moved = {} /\ recorded = {} /\ won = FALSE /\ refunded = FALSE

Pay(l) ==
    /\ l \in Others => Winner \in moved
    /\ moved' = moved \cup {l}
    /\ UNCHANGED <<recorded, won, refunded>>

\* One write may catch up with several transfers.
Record(S) ==
    /\ S \subseteq moved
    /\ recorded' = recorded \cup S
    /\ UNCHANGED <<moved, won, refunded>>

CloseWon ==
    /\ Winner \in moved
    /\ won' = TRUE
    /\ UNCHANGED <<moved, recorded, refunded>>

CloseRefunded ==
    /\ Returns \subseteq moved
    /\ refunded' = TRUE
    /\ UNCHANGED <<moved, recorded, won>>

MoneyNext ==
    \/ \E l \in {Winner} \cup Others \cup Returns : Pay(l)
    \/ \E S \in SUBSET ({Winner} \cup Others \cup Returns) : Record(S)
    \/ CloseWon \/ CloseRefunded

MoneySpec == MoneyInit /\ [][MoneyNext]_moneyVars
=============================================================================
