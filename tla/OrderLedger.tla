---------------------------- MODULE OrderLedger ----------------------------
(***************************************************************************)
(* What the payment system promises about one order, whatever handlers,    *)
(* retries and crashes drive it: the value is given once and only for a    *)
(* payment, the inviter's rebate is settled once and after that, and the   *)
(* order is called completed only when both have been done.                *)
(***************************************************************************)
EXTENDS Naturals

VARIABLES
    paid,      \* the payer has paid the order's amount
    given,     \* times the user got what the order buys
    settled,   \* the rebate has been decided
    rebated,   \* times the inviter was credited
    completed  \* the order is shown as completed

vars == <<paid, given, settled, rebated, completed>>

Init == paid = FALSE /\ given = 0 /\ settled = FALSE /\ rebated = 0 /\ completed = FALSE

Pay == ~paid /\ paid' = TRUE /\ UNCHANGED <<given, settled, rebated, completed>>

Give ==
    /\ paid /\ given = 0 /\ given' = 1
    /\ UNCHANGED <<paid, settled, rebated, completed>>

Settle ==
    /\ given = 1 /\ ~settled /\ settled' = TRUE /\ rebated' \in {0, 1}
    /\ UNCHANGED <<paid, given, completed>>

Complete ==
    /\ settled /\ ~completed /\ completed' = TRUE
    /\ UNCHANGED <<paid, given, settled, rebated>>

\* The label may be lost again: CreateOrder's late failure overwrites it.
Relabel ==
    /\ completed /\ completed' = FALSE
    /\ UNCHANGED <<paid, given, settled, rebated>>

Next == Pay \/ Give \/ Settle \/ Complete \/ Relabel

Spec == Init /\ [][Next]_vars
=============================================================================
