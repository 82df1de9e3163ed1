---------------------------- MODULE Fulfillment ----------------------------
(***************************************************************************)
(* The life of ONE marketplace order after POST /orders created it:        *)
(* checkout, Stripe webhook deliveries, the "on paid" pipeline             *)
(* fulfillPaidOrder and the refund route with refundOrder                  *)
(* (services/api/src/modules/{payments,orders,royalties,moderation}).      *)
(*                                                                         *)
(* No handler runs in a database transaction: each await is a point where  *)
(* another handler may run or this one may die.  A step of this module is  *)
(* the code from one write to the next, so that every interleaving and     *)
(* every half-finished handler of the code is a behaviour of the model.    *)
(***************************************************************************)
EXTENDS RoyaltySplit, FiniteSets, Functions

CONSTANTS
  Items,        \* the OrderItem rows of the order
  SelfSold,     \* those whose creator is the buyer (self-purchase)
  Price,        \* unitPriceCents * quantity of each item
  CreatorTiers, \* the plan tiers the selling creator moves between
  Checkouts,    \* POST /payments/checkout requests for the order
  Deliveries,   \* webhook deliveries of checkout.session.completed
  Unsigned,     \* those that may come without a Stripe signature
  Refunds,      \* POST /orders/:id/refund requests
  Providers,    \* those requests resolve to: the configured one or the one they name
  MaxCrashes    \* bound: handlers that fail at one of their awaits

Fulfillers == Checkouts \cup Deliveries
Handlers   == Fulfillers \cup Refunds

TestEvent == "test event" \* what a delivery without a Stripe signature is about

ASSUME FulfillmentAssumption ==
  /\ Items # {}
  /\ IsFiniteSet(Items)
  /\ SelfSold \subseteq Items
  /\ Price \in [Items -> Nat]
  /\ CreatorTiers \subseteq Tiers
  /\ Checkouts \cap Deliveries = {}
  /\ Unsigned \subseteq Deliveries
  /\ Fulfillers \cap Refunds = {}
  /\ Providers \subseteq {"STRIPE", "MOCK"}
  /\ TestEvent \notin Checkouts \cup {"none"}
  /\ MaxCrashes \in Nat

VARIABLES
  status,     \* Order.status
  paymentRef, \* Order.paymentProvider and paymentRef: a session of the mock's, or one
              \* of Stripe's or its payment intent
  stamp,      \* OrderItem.feeCents and royaltyCents, by item
  accrual,    \* RoyaltyAccrual rows, by the run and the item they are for
  license,    \* items each run created a ProductLicense row for
  counted,    \* items each run added to Product.sales
  hold,       \* items each run placed a PAYOUT_HOLD on the creator for
  payment,    \* the Payment row each run created: its status
  session,    \* the provider's checkout sessions, by checkout
  reimbursed, \* items the provider paid the buyer back for, by refund request
  pc,         \* where each handler is
  todo,       \* items a handler's loop has still to visit
  cur,        \* the item a fulfilment loop is at
  event,      \* what a fulfilment run is about: a session's completion or a TestEvent
  request,    \* a refund request's itemIds and the paymentRef it read
  crashes,    \* handlers that have failed so far
  overtaken   \* history: handlers that were past their status check, and not yet at
              \* their status write, when another one's write made the check untrue

rowVars   == <<stamp, accrual, license, counted, hold>>
orderVars == <<status, paymentRef, payment, overtaken>>
moneyVars == <<session, reimbursed>>
localVars == <<todo, cur, event, request>>
vars == <<rowVars, orderVars, moneyVars, localVars, pc, crashes>>

NoRow  == [status |-> "none", cents |-> 0]
NoItem == "no item"
NoRef  == [kind |-> "none", of |-> "none"]
Mock(c)    == [kind |-> "mock", of |-> c]
Session(c) == [kind |-> "session", of |-> c]
Intent(c)  == [kind |-> "intent", of |-> c]
NoRequest  == [whole |-> FALSE, ids |-> {}, ref |-> NoRef]

LoopSteps    == {"items", "stamp", "license", "sales", "fraud"}
FulfillSteps == LoopSteps \cup {"payment", "announce"}
RefundSteps  == {"provider", "reverse", "notify"}
Resting      == {"idle", "done", "failed"}

\* Between a handler's check of the status and its own write of it.
InLoop(f)    == pc[f] \in LoopSteps
Refunding(r) == pc[r] \in {"provider", "reverse"}

Goto(h, step) == pc' = [pc EXCEPT ![h] = step]
-----------------------------------------------------------------------------
Init ==
  /\ status = "PENDING"
  /\ paymentRef = NoRef
  /\ stamp = [i \in Items |-> [fee |-> 0, royalty |-> 0]]
  /\ accrual = [f \in Fulfillers |-> [i \in Items |-> NoRow]]
  /\ license = [f \in Fulfillers |-> {}]
  /\ counted = [f \in Fulfillers |-> {}]
  /\ hold = [f \in Fulfillers |-> {}]
  /\ payment = [f \in Fulfillers |-> "none"]
  /\ session = [c \in Checkouts |-> "none"]
  /\ reimbursed = [r \in Refunds |-> {}]
  /\ pc = [h \in Handlers |-> "idle"]
  /\ todo = [h \in Handlers |-> {}]
  /\ cur = [f \in Fulfillers |-> NoItem]
  /\ event = [f \in Fulfillers |-> "none"]
  /\ request = [r \in Refunds |-> NoRequest]
  /\ crashes = 0
  /\ overtaken = {}
-----------------------------------------------------------------------------
(* POST /payments/checkout *)

\* Only a PENDING order is payable; the read is not repeated afterwards.
BeginCheckout(c) ==
  /\ pc[c] = "idle"
  /\ Goto(c, IF status = "PENDING" THEN "create" ELSE "done")
  /\ UNCHANGED <<rowVars, orderVars, moneyVars, localVars, crashes>>

\* provider.createCheckout.  The mock provider is paid at once and the request
\* goes on to fulfil the order; Stripe opens a session the buyer may pay later.
CreateSession(c) ==
  /\ pc[c] = "create"
  /\ \/ /\ "MOCK" \in Providers
        /\ session' = [session EXCEPT ![c] = "mock"]
        /\ event' = [event EXCEPT ![c] = c]
        /\ Goto(c, "read")
     \/ /\ "STRIPE" \in Providers
        /\ session' = [session EXCEPT ![c] = "open"]
        /\ Goto(c, "attach")
        /\ UNCHANGED event
  /\ UNCHANGED <<rowVars, orderVars, reimbursed, todo, cur, request, crashes>>

\* The order takes the session as its paymentRef, whatever became of the order
\* since BeginCheckout read it.
AttachSession(c) ==
  /\ pc[c] = "attach"
  /\ paymentRef' = Session(c)
  /\ Goto(c, "pending")
  /\ UNCHANGED <<rowVars, status, payment, overtaken, moneyVars, localVars, crashes>>

RecordPendingPayment(c) ==
  /\ pc[c] = "pending"
  /\ payment' = [payment EXCEPT ![c] = "PENDING"]
  /\ Goto(c, "done")
  /\ UNCHANGED <<rowVars, status, paymentRef, overtaken, moneyVars, localVars, crashes>>
-----------------------------------------------------------------------------
(* The provider and the buyer, outside the server *)

\* The checkout URL reaches the buyer with the response of the request.
BuyerPays(c) ==
  /\ session[c] = "open"
  /\ pc[c] = "done"
  /\ session' = [session EXCEPT ![c] = "paid"]
  /\ UNCHANGED <<rowVars, orderVars, reimbursed, localVars, pc, crashes>>

\* Stripe delivers the completion of a paid session at least once: again when
\* no 2xx came back, and sometimes again although one did.
Deliver(d, c) ==
  /\ session[c] = "paid"
  /\ pc[d] = "idle"
  /\ event' = [event EXCEPT ![d] = c]
  /\ Goto(d, "read")
  /\ UNCHANGED <<rowVars, orderVars, moneyVars, todo, cur, request, crashes>>

\* A delivery without a Stripe signature, or to a server without Stripe's keys, is
\* taken as the mock's or a test's: its checkout.session.completed fulfils the
\* order it names as paid at the mock.  No session is looked up.
DeliverTest(d) ==
  /\ d \in Unsigned
  /\ pc[d] = "idle"
  /\ event' = [event EXCEPT ![d] = TestEvent]
  /\ Goto(d, "read")
  /\ UNCHANGED <<rowVars, orderVars, moneyVars, todo, cur, request, crashes>>
-----------------------------------------------------------------------------
(* fulfillPaidOrder *)

\* Mutant of AlreadyPaid: an order some run has started on is left to that run.
AlreadyStarted ==
  \/ status # "PENDING"
  \/ \E f \in Fulfillers, i \in Items : accrual[f][i].status # "none"

AlreadyPaid == status \in {"PAID", "PARTIALLY_REFUNDED", "REFUNDED"}

\* The one guard of the pipeline: an order that is already paid or refunded is
\* left alone.  Otherwise the items are read for the loop.
ReadOrder(f) ==
  /\ pc[f] = "read"
  /\ \/ /\ AlreadyPaid
        /\ Goto(f, "done")
        /\ UNCHANGED todo
     \/ /\ ~AlreadyPaid
        /\ todo' = [todo EXCEPT ![f] = Items]
        /\ Goto(f, "items")
  /\ UNCHANGED <<rowVars, orderVars, moneyVars, cur, event, request, crashes>>

\* accrueRoyalty for the next item.  The creator's tier is read now: creators
\* change plan at any time, so two runs may split the same item differently.
Accrue(f, i) ==
  /\ pc[f] = "items"
  /\ i \in todo[f]
  /\ \E tier \in CreatorTiers :
       accrual' = [accrual EXCEPT ![f][i] =
                     [status |-> "ACCRUED", cents |-> RoyaltyCents(Price[i], tier)]]
  /\ cur' = [cur EXCEPT ![f] = i]
  /\ Goto(f, "stamp")
  /\ UNCHANGED <<stamp, license, counted, hold, orderVars, moneyVars,
                 todo, event, request, crashes>>

\* Mutant of StampItem: the split is computed again, from the tier of now.
StampFromTier(f) ==
  /\ pc[f] = "stamp"
  /\ \E tier \in CreatorTiers :
       stamp' = [stamp EXCEPT ![cur[f]] = [fee |-> FeeCents(Price[cur[f]], tier),
                                           royalty |-> RoyaltyCents(Price[cur[f]], tier)]]
  /\ Goto(f, "license")
  /\ UNCHANGED <<accrual, license, counted, hold, orderVars, moneyVars,
                 localVars, crashes>>

\* The split accrueRoyalty returned, not one recomputed from the tier.
StampItem(f) ==
  /\ pc[f] = "stamp"
  /\ LET i == cur[f]
         royalty == accrual[f][i].cents
     IN stamp' = [stamp EXCEPT ![i] = [fee |-> Price[i] - royalty, royalty |-> royalty]]
  /\ Goto(f, "license")
  /\ UNCHANGED <<accrual, license, counted, hold, orderVars, moneyVars,
                 localVars, crashes>>

GrantLicense(f) ==
  /\ pc[f] = "license"
  /\ license' = [license EXCEPT ![f] = @ \cup {cur[f]}]
  /\ Goto(f, "sales")
  /\ UNCHANGED <<stamp, accrual, counted, hold, orderVars, moneyVars,
                 localVars, crashes>>

\* product.sales += quantity, then PLAYER_PURCHASED_ASSET.
CountSale(f) ==
  /\ pc[f] = "sales"
  /\ counted' = [counted EXCEPT ![f] = @ \cup {cur[f]}]
  /\ Goto(f, "fraud")
  /\ UNCHANGED <<stamp, accrual, license, hold, orderVars, moneyVars,
                 localVars, crashes>>

\* detectPurchaseAnomaly: SELF_PURCHASE alone (score 90) is risky and places a
\* payout hold on the creator.
Held(i) == {i} \cap SelfSold

CheckFraud(f) ==
  /\ pc[f] = "fraud"
  /\ hold' = [hold EXCEPT ![f] = @ \cup Held(cur[f])]
  /\ todo' = [todo EXCEPT ![f] = @ \ {cur[f]}]
  /\ cur' = [cur EXCEPT ![f] = NoItem]
  /\ Goto(f, "items")
  /\ UNCHANGED <<stamp, accrual, license, counted, orderVars, moneyVars,
                 event, request, crashes>>

\* The reference of what the run is about.  (A checkout request that gets this
\* far was the mock's.)
PaidBy(f) ==
  IF f \in Checkouts \/ event[f] = TestEvent THEN Mock(event[f]) ELSE Intent(event[f])

\* History: the runs that are about to write over what f writes now.
OvertakeRuns(f) == overtaken' = overtaken \cup {g \in Fulfillers \ {f} : InLoop(g)}

\* Mutant of MarkPaid: the order is closed before its last item is done.
MarkPaidEarly(f) ==
  /\ pc[f] = "items"
  /\ todo[f] # Items
  /\ status' = "PAID"
  /\ paymentRef' = PaidBy(f)
  /\ OvertakeRuns(f)
  /\ Goto(f, "payment")
  /\ UNCHANGED <<rowVars, payment, moneyVars, localVars, crashes>>

\* Only after the loop, and without another look at the status.
MarkPaid(f) ==
  /\ pc[f] = "items"
  /\ todo[f] = {}
  /\ status' = "PAID"
  /\ paymentRef' = PaidBy(f)
  /\ OvertakeRuns(f)
  /\ Goto(f, "payment")
  /\ UNCHANGED <<rowVars, payment, moneyVars, localVars, crashes>>

RecordPayment(f) ==
  /\ pc[f] = "payment"
  /\ payment' = [payment EXCEPT ![f] = "SUCCEEDED"]
  /\ Goto(f, "announce")
  /\ UNCHANGED <<rowVars, status, paymentRef, overtaken, moneyVars, localVars, crashes>>

\* ORDER_PAID and the buyer's notification; the route answers 2xx.
AnnouncePaid(f) ==
  /\ pc[f] = "announce"
  /\ Goto(f, "done")
  /\ UNCHANGED <<rowVars, orderVars, moneyVars, localVars, crashes>>
-----------------------------------------------------------------------------
(* POST /orders/:id/refund and refundOrder *)

\* An absent and an empty itemIds differ: the provider is asked for the amount
\* of the listed items, refundOrder takes an empty list for the whole order.
Asked(r)   == IF request[r].whole THEN Items ELSE request[r].ids
Targets(r) == IF Asked(r) = {} THEN Items ELSE Asked(r)

Amount(S) == SumFunctionOnSet(Price, S)

BeginRefund(r) ==
  /\ pc[r] = "idle"
  /\ \/ /\ status \notin {"PAID", "PARTIALLY_REFUNDED"}
        /\ Goto(r, "done")
        /\ UNCHANGED request
     \/ /\ status \in {"PAID", "PARTIALLY_REFUNDED"}
        /\ \E whole \in BOOLEAN, ids \in SUBSET Items :
             /\ whole => ids = {}
             /\ request' = [request EXCEPT ![r] =
                              [whole |-> whole, ids |-> ids, ref |-> paymentRef]]
        /\ Goto(r, "provider")
  /\ UNCHANGED <<rowVars, orderVars, moneyVars, todo, cur, event, crashes>>

\* Stripe refunds a payment intent, a positive amount and never more than is
\* left of the charge; it may also be unreachable.  The mock never refuses.
StripeAccepts(r) ==
  /\ request[r].ref.kind = "intent"
  /\ Amount(Asked(r)) > 0
  /\ LET earlier == {q \in Refunds \ {r} : request[q].ref = request[r].ref}
         total   == [q \in earlier |-> Amount(reimbursed[q])]
     IN Amount(Asked(r)) + SumFunction(total) <= Amount(Items)

\* Mutant of RefundAtProvider: a refusal is logged and the refund goes on.
RefundRegardless(r) ==
  /\ pc[r] = "provider"
  /\ \/ /\ request[r].ref.kind = "mock" \/ StripeAccepts(r)
        /\ reimbursed' = [reimbursed EXCEPT ![r] = Asked(r)]
     \/ /\ request[r].ref.kind # "mock"
        /\ UNCHANGED reimbursed
  /\ todo' = [todo EXCEPT ![r] = Targets(r)]
  /\ Goto(r, "reverse")
  /\ UNCHANGED <<rowVars, orderVars, session, cur, event, request, crashes>>

\* The money goes back before the ledger is touched.  (A paid order always has a
\* paymentRef: the branch of the route without one is never taken.)
RefundAtProvider(r) ==
  /\ pc[r] = "provider"
  /\ \/ /\ request[r].ref.kind = "mock" \/ StripeAccepts(r)
        /\ reimbursed' = [reimbursed EXCEPT ![r] = Asked(r)]
        /\ todo' = [todo EXCEPT ![r] = Targets(r)]
        /\ Goto(r, "reverse")
     \/ /\ request[r].ref.kind # "mock"
        /\ Goto(r, "done")
        /\ UNCHANGED <<reimbursed, todo>>
  /\ UNCHANGED <<rowVars, orderVars, session, cur, event, request, crashes>>

Reversed(row) == IF row.status = "ACCRUED" THEN [row EXCEPT !.status = "REVERSED"] ELSE row

\* Mutant of ReverseItem: only one of the item's rows is reversed.
ReverseFirstRow(r, i) ==
  /\ pc[r] = "reverse"
  /\ i \in todo[r]
  /\ \E f \in Fulfillers : accrual' = [accrual EXCEPT ![f][i] = Reversed(@)]
  /\ todo' = [todo EXCEPT ![r] = @ \ {i}]
  /\ UNCHANGED <<stamp, license, counted, hold, orderVars, moneyVars,
                 cur, event, request, pc, crashes>>

\* reverseRoyaltyForOrderItem: every row of the item that is ACCRUED now.
\* (The code reverses them one await at a time; a refund that dies between two
\* rows of an item looks here like one that died before the item.)
ReverseItem(r, i) ==
  /\ pc[r] = "reverse"
  /\ i \in todo[r]
  /\ accrual' = [f \in Fulfillers |-> [accrual[f] EXCEPT ![i] = Reversed(@)]]
  /\ todo' = [todo EXCEPT ![r] = @ \ {i}]
  /\ UNCHANGED <<stamp, license, counted, hold, orderVars, moneyVars,
                 cur, event, request, pc, crashes>>

\* Mutant of FullRefund: any refund of listed items closes the order.
FullRefundAlways(r) == TRUE

\* Of every item, not of the items left: refunding them one by one never gets there.
FullRefund(r) == Targets(r) = Items

SetRefunded(r) ==
  /\ pc[r] = "reverse"
  /\ todo[r] = {}
  /\ \/ /\ FullRefund(r)
        /\ status' = "REFUNDED"
        /\ overtaken' = overtaken \cup {q \in Refunds \ {r} : Refunding(q)}
     \/ /\ ~FullRefund(r)
        /\ status' = "PARTIALLY_REFUNDED"
        /\ UNCHANGED overtaken
  /\ Goto(r, "notify")
  /\ UNCHANGED <<rowVars, paymentRef, payment, moneyVars, localVars, crashes>>

\* ORDER_REFUNDED, the notification and the refund-abuse check.
NotifyRefund(r) ==
  /\ pc[r] = "notify"
  /\ Goto(r, "done")
  /\ UNCHANGED <<rowVars, orderVars, moneyVars, localVars, crashes>>
-----------------------------------------------------------------------------
\* A rejected await or a dead process ends the handler where it is.
Fail(h) ==
  /\ pc[h] \notin Resting
  /\ crashes < MaxCrashes
  /\ crashes' = crashes + 1
  /\ Goto(h, "failed")
  /\ UNCHANGED <<rowVars, orderVars, moneyVars, localVars>>

CheckoutStep(c) ==
  CreateSession(c) \/ AttachSession(c) \/ RecordPendingPayment(c)

FulfillStep(f) ==
  \/ ReadOrder(f)
  \/ \E i \in Items : Accrue(f, i)
  \/ StampItem(f)
  \/ GrantLicense(f)
  \/ CountSale(f)
  \/ CheckFraud(f)
  \/ MarkPaid(f)
  \/ RecordPayment(f)
  \/ AnnouncePaid(f)

RefundStep(r) ==
  \/ RefundAtProvider(r)
  \/ \E i \in Items : ReverseItem(r, i)
  \/ SetRefunded(r)
  \/ NotifyRefund(r)

Next ==
  \/ \E c \in Checkouts : BeginCheckout(c) \/ CheckoutStep(c) \/ BuyerPays(c)
  \/ \E d \in Deliveries : DeliverTest(d) \/ \E c \in Checkouts : Deliver(d, c)
  \/ \E f \in Fulfillers : FulfillStep(f)
  \/ \E r \in Refunds : BeginRefund(r) \/ RefundStep(r)
  \/ \E h \in Handlers : Fail(h)

Spec == Init /\ [][Next]_vars

\* A handler that has started runs on, and Stripe keeps delivering.  Nobody is
\* obliged to check out, pay, refund or fail.
Fairness ==
  /\ \A c \in Checkouts : WF_vars(CheckoutStep(c))
  /\ \A d \in Deliveries : WF_vars(\E c \in Checkouts : Deliver(d, c))
  /\ \A f \in Fulfillers : WF_vars(FulfillStep(f))
  /\ \A r \in Refunds : WF_vars(RefundStep(r))

FairSpec == Spec /\ Fairness
-----------------------------------------------------------------------------
Row   == [status : {"none", "ACCRUED", "REVERSED"}, cents : Int]
Ref   == [kind : {"none", "mock", "session", "intent"}, of : Checkouts \cup {"none", TestEvent}]
Steps == Resting \cup FulfillSteps \cup RefundSteps
         \cup {"create", "attach", "pending", "read"}

\* Every variable keeps the shape its table column or local variable has.
TypeOK ==
  /\ status \in {"PENDING", "PAID", "PARTIALLY_REFUNDED", "REFUNDED"}
  /\ paymentRef \in Ref
  /\ stamp \in [Items -> [fee : Int, royalty : Int]]
  /\ accrual \in [Fulfillers -> [Items -> Row]]
  /\ license \in [Fulfillers -> SUBSET Items]
  /\ counted \in [Fulfillers -> SUBSET Items]
  /\ hold \in [Fulfillers -> SUBSET SelfSold]
  /\ payment \in [Fulfillers -> {"none", "PENDING", "SUCCEEDED"}]
  /\ session \in [Checkouts -> {"none", "open", "paid", "mock"}]
  /\ reimbursed \in [Refunds -> SUBSET Items]
  /\ pc \in [Handlers -> Steps]
  /\ todo \in [Handlers -> SUBSET Items]
  /\ cur \in [Fulfillers -> Items \cup {NoItem}]
  /\ event \in [Fulfillers -> Checkouts \cup {"none", TestEvent}]
  /\ request \in [Refunds -> [whole : BOOLEAN, ids : SUBSET Items, ref : Ref]]
  /\ crashes \in 0..MaxCrashes
  /\ overtaken \subseteq Handlers
-----------------------------------------------------------------------------
(* Properties of every interleaving and every crash *)

HasRow(f, i) == accrual[f][i].status # "none"

\* The run f did everything the code does for item i.
Delivered(f, i) ==
  /\ HasRow(f, i)
  /\ i \in license[f]
  /\ i \in counted[f]
  /\ i \in SelfSold => i \in hold[f]

\* Once an order is paid its creator was credited, its buyer licensed, the sale
\* counted and a self-purchase held, for every item and by one single run, no
\* matter which runs died halfway or raced it: fulfillPaidOrder writes PAID last.
PaidIsDelivered ==
  status # "PENDING" => \E f \in Fulfillers : \A i \in Items : Delivered(f, i)

\* What a paid order shows for an item, fee plus royalty, is the item's price, and
\* the royalty is one a ledger row really holds, although the creator may change
\* plan between two runs and each run overwrites the item's stamp.
StampBacked ==
  status # "PENDING" =>
    \A i \in Items :
      /\ stamp[i].fee + stamp[i].royalty = Price[i]
      /\ stamp[i].fee >= 0
      /\ \E f \in Fulfillers : HasRow(f, i) /\ accrual[f][i].cents = stamp[i].royalty

\* The ledger never runs ahead of the provider.  A run credits creators only on
\* behalf of its own session, once that is paid, or of an unsigned event that
\* claims a payment; Stripe pays back only a session it was paid for, though
\* checkouts and runs overwrite the order's reference; and a credit is taken back
\* only for an item the provider has answered for (orders/index.ts asks it first).
\* An empty list is nothing to the mock and the whole order to refundOrder.
LedgerFollowsProvider ==
  /\ \A f \in Fulfillers, i \in Items :
       /\ HasRow(f, i) =>
            \/ event[f] = TestEvent
            \/ event[f] \in Checkouts /\ session[event[f]] \in {"paid", "mock"}
       /\ accrual[f][i].status = "REVERSED" =>
            \E r \in Refunds :
              \/ i \in reimbursed[r]
              \/ request[r].ref.kind = "mock" /\ Asked(r) = {}
  /\ \A r \in Refunds :
       reimbursed[r] # {} =>
         \/ request[r].ref.kind = "mock"
         \/ /\ request[r].ref.of \in Checkouts
            /\ session[request[r].ref.of] = "paid"

\* A buyer who was charged gets the order: Stripe keeps delivering and one run
\* gets through to PAID, whatever the earlier ones left half done.
ChargedIsFulfilled ==
  (\E c \in Checkouts : session[c] = "paid") ~> (status # "PENDING")
-----------------------------------------------------------------------------
(* Properties that tell the handlers that were overtaken from the others *)

Standing(f, i) == accrual[f][i].status = "ACCRUED"

\* A completed refund leaves no royalty standing for the items it covered, also
\* the duplicates crashed and repeated runs left behind, but for the rows of runs
\* that were in their loop when another one marked the order paid: those may add
\* a row after the reversal, and nothing takes it back.
RefundReversesAll ==
  \A r \in Refunds :
    reimbursed[r] # {} /\ pc[r] \in {"notify", "done"} =>
      \A f \in Fulfillers \ overtaken, i \in Targets(r) : ~Standing(f, i)

\* The order's status only moves forward and a refunded order stays refunded,
\* unless an overtaken handler writes the status it had set out to write.
StatusForward ==
  [][/\ status' # "PENDING"
     /\ \/ /\ status = "PENDING"
           /\ status' = "PAID"
        \/ /\ status \in {"PAID", "PARTIALLY_REFUNDED"}
           /\ status' \in {"PARTIALLY_REFUNDED", "REFUNDED"}
        \/ \E h \in overtaken : pc'[h] # pc[h]]_status

\* The order implements the ledger of PurchaseLedger, whose credits are those of
\* the runs nobody has overtaken.
Ledger == INSTANCE PurchaseLedger WITH
  order    <- status,
  credited <- {i \in Items : \E f \in Fulfillers \ overtaken : Standing(f, i)},
  owned    <- UNION {license[f] : f \in Fulfillers},
  raced    <- overtaken # {}

ImplementsLedger == Ledger!Spec

\* What fulfillment.ts:19 says of fulfillPaidOrder: called twice for an order it
\* "only runs the side effects once".  No item is accrued, licensed or counted by
\* two runs and at most one payment is recorded, as long as no handler has failed.
SideEffectsOnce ==
  crashes = 0 => \A f, g \in Fulfillers : f # g =>
    /\ \A i \in Items : ~(HasRow(f, i) /\ HasRow(g, i))
    /\ license[f] \cap license[g] = {}
    /\ counted[f] \cap counted[g] = {}
    /\ ~(payment[f] = "SUCCEEDED" /\ payment[g] = "SUCCEEDED")
=============================================================================
