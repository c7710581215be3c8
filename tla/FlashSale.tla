----------------------------- MODULE FlashSale -----------------------------
(***************************************************************************)
(* What a flash sale promises, with no Redis, no stream, no instances: a   *)
(* user buys a voucher at most once and while stock lasts, and a purchase  *)
(* is fulfilled at most once, after the voucher has been listed.           *)
(***************************************************************************)
EXTENDS Integers, FiniteSets

CONSTANTS Users, Vouchers, Stock

VARIABLES
    onSale,     \* vouchers that can be bought
    listed,     \* vouchers the shop has in its database
    accepted,   \* accepted[v]: users whose purchase of v was accepted
    fulfilled   \* fulfilled[v]: users who have received v

saleVars == <<onSale, listed, accepted, fulfilled>>

Init ==
    /\ onSale = {}
    /\ listed = {}
    /\ accepted = [v \in Vouchers |-> {}]
    /\ fulfilled = [v \in Vouchers |-> {}]

PutOnSale(v) ==
    /\ onSale' = onSale \cup {v}
    /\ UNCHANGED <<listed, accepted, fulfilled>>

List(v) ==
    /\ v \in onSale
    /\ listed' = listed \cup {v}
    /\ UNCHANGED <<onSale, accepted, fulfilled>>

Accept(u, v) ==
    /\ v \in onSale
    /\ u \notin accepted[v]
    /\ Cardinality(accepted[v]) < Stock[v]
    /\ accepted' = [accepted EXCEPT ![v] = @ \cup {u}]
    /\ UNCHANGED <<onSale, listed, fulfilled>>

Fulfil(u, v) ==
    /\ v \in listed
    /\ u \in accepted[v] \ fulfilled[v]
    /\ fulfilled' = [fulfilled EXCEPT ![v] = @ \cup {u}]
    /\ UNCHANGED <<onSale, listed, accepted>>

Next ==
    \/ \E v \in Vouchers : PutOnSale(v) \/ List(v)
    \/ \E u \in Users, v \in Vouchers : Accept(u, v) \/ Fulfil(u, v)

Spec == Init /\ [][Next]_saleVars
=============================================================================
