----------------------------- MODULE FlashSale -----------------------------
(***************************************************************************)
(* What the flash sale promises, whatever queues, locks and transactions     *)
(* carry it out.  A user is admitted to a voucher at most once and at most    *)
(* Stock[v] users are; an admitted user gets one order or is lost, and a      *)
(* lost admission never turns into an order.  That lost admissions exist at   *)
(* all is the code's choice: it neither acknowledges nor re-reads an entry.   *)
(***************************************************************************)
EXTENDS Integers, FiniteSets

CONSTANTS Users, Vouchers, Stock

VARIABLES
    admitted,  \* pairs <<user, voucher>> that were told their order is placed
    lost,      \* admitted pairs that no instance will ever serve
    rows       \* rows[u][v]: rows of tb_voucher_order

vars == <<admitted, lost, rows>>

Init ==
    /\ admitted = {}
    /\ lost = {}
    /\ rows = [u \in Users |-> [v \in Vouchers |-> 0]]

AdmittedTo(v) == {u \in Users : <<u, v>> \in admitted}

Admit(u, v) ==
    /\ <<u, v>> \notin admitted
    /\ Cardinality(AdmittedTo(v)) < Stock[v]
    /\ admitted' = admitted \cup {<<u, v>>}
    /\ UNCHANGED <<lost, rows>>

Waiting(u, v) == <<u, v>> \in admitted \ lost /\ rows[u][v] = 0

Fulfil(u, v) ==
    /\ Waiting(u, v)
    /\ rows' = [rows EXCEPT ![u][v] = 1]
    /\ UNCHANGED <<admitted, lost>>

Lose(u, v) ==
    /\ Waiting(u, v)
    /\ lost' = lost \cup {<<u, v>>}
    /\ UNCHANGED <<admitted, rows>>

Next == \E u \in Users, v \in Vouchers : Admit(u, v) \/ Fulfil(u, v) \/ Lose(u, v)

Spec == Init /\ [][Next]_vars

=============================================================================
