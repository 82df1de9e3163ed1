--------------------------- MODULE PurchaseLedger ---------------------------
(***************************************************************************)
(* What a marketplace order promises buyer, seller and platform, without   *)
(* handlers, payments or failures: every item is credited to its creator   *)
(* and handed to the buyer while the order is unpaid, payment closes that  *)
(* phase for good, and from then on credits are only ever taken back.      *)
(*                                                                         *)
(* Nobody locks an order.  Where requests raced for it the status column   *)
(* may be written once more by one that lost; everything else still holds. *)
(***************************************************************************)
CONSTANT Items

VARIABLES
  order,    \* the order's status
  credited, \* items whose royalty stands in the creator's balance
  owned,    \* items in the buyer's possession
  raced     \* a request that is, or was, at work had its view of the order overtaken

ledger == <<order, credited, owned, raced>>

Init == order = "PENDING" /\ credited = {} /\ owned = {} /\ raced = FALSE

Credit(i) ==
  /\ order = "PENDING"
  /\ credited' = credited \cup {i}
  /\ UNCHANGED <<order, owned, raced>>

\* Nobody is given an item its creator was not credited for.
HandOver(i) ==
  /\ order = "PENDING"
  /\ i \in credited
  /\ owned' = owned \cup {i}
  /\ UNCHANGED <<order, credited, raced>>

\* Payment may overtake others that are about to pay.
Settle ==
  /\ order = "PENDING"
  /\ owned = Items
  /\ credited = Items
  /\ order' = "PAID"
  /\ raced' \in BOOLEAN
  /\ UNCHANGED <<credited, owned>>

\* Credits go back only once the order is paid.
TakeBack(i) ==
  /\ order # "PENDING"
  /\ credited' = credited \ {i}
  /\ UNCHANGED <<order, owned, raced>>

\* A partial refund has taken something back, a full one everything, and after a
\* full one there is nothing to refund.
Refund ==
  /\ \/ order \in {"PAID", "PARTIALLY_REFUNDED"}
     \/ raced /\ order = "REFUNDED"
  /\ \/ order' = "PARTIALLY_REFUNDED" /\ credited # Items /\ raced' = raced
     \/ order' = "REFUNDED" /\ credited = {} /\ raced' \in {raced, TRUE}
  /\ UNCHANGED <<credited, owned>>

\* A payment that was overtaken by another one reaches the order all the same.
SettleAgain ==
  /\ raced
  /\ order # "PENDING"
  /\ order' = "PAID"
  /\ UNCHANGED <<credited, owned, raced>>

Next == (\E i \in Items : Credit(i) \/ HandOver(i) \/ TakeBack(i)) 
        \/ Settle \/ Refund \/ SettleAgain

Spec == Init /\ [][Next]_ledger
=============================================================================
