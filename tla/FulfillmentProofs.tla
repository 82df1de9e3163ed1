------------------------- MODULE FulfillmentProofs -------------------------
(***************************************************************************)
(* Machine-checked theorems about Fulfillment, for any number of items,    *)
(* checkouts, deliveries and refunds.                                      *)
(***************************************************************************)
EXTENDS Fulfillment, TLAPS

\* The fee of a non-negative amount is a whole number of cents between nothing
\* and the amount, on every plan (splitRevenueCents).
LEMMA SplitBounds ==
  ASSUME NEW gross \in Nat, NEW t \in Tiers
  PROVE  /\ FeeCents(gross, t) \in Nat
         /\ FeeCents(gross, t) <= gross
         /\ RoyaltyCents(gross, t) \in Nat
<1> DEFINE pct == FeePct[t]
<1>1. pct \in {20, 15, 12, 10}
  BY DEF Tiers, FeePct
<1>2. CASE pct = 20
  BY <1>2 DEF FeeCents, RoyaltyCents, RoundedHundredth
<1>3. CASE pct = 15
  BY <1>3 DEF FeeCents, RoyaltyCents, RoundedHundredth
<1>4. CASE pct = 12
  BY <1>4 DEF FeeCents, RoyaltyCents, RoundedHundredth
<1>5. CASE pct = 10
  BY <1>5 DEF FeeCents, RoyaltyCents, RoundedHundredth
<1> QED
  BY <1>1, <1>2, <1>3, <1>4, <1>5

-----------------------------------------------------------------------------
\* Inside an iteration of the fulfilment loop there is a current item, one the
\* loop has still to finish, and the run has already accrued for it.
CurIsItem ==
  \A f \in Fulfillers :
    pc[f] \in {"stamp", "license", "sales", "fraud"} => cur[f] \in Items

LEMMA TypeInit == Init => TypeOK
<1> SUFFICES ASSUME Init PROVE TypeOK
  OBVIOUS
<1> USE FulfillmentAssumption
<1>1. NoRow \in Row /\ NoRef \in Ref /\ "idle" \in Steps
  BY DEF NoRow, Row, NoRef, Ref, Steps, Resting
<1>2. NoRequest \in [whole : BOOLEAN, ids : SUBSET Items, ref : Ref]
  BY <1>1 DEF NoRequest
<1>3. accrual \in [Fulfillers -> [Items -> Row]]
  BY <1>1 DEF Init
<1>4. request \in [Refunds -> [whole : BOOLEAN, ids : SUBSET Items, ref : Ref]]
  BY <1>2 DEF Init
<1>5. pc \in [Handlers -> Steps] /\ cur \in [Fulfillers -> Items \cup {NoItem}]
  BY <1>1 DEF Init
<1>6. /\ stamp \in [Items -> [fee : Int, royalty : Int]]
      /\ license \in [Fulfillers -> SUBSET Items]
      /\ counted \in [Fulfillers -> SUBSET Items]
      /\ hold \in [Fulfillers -> SUBSET SelfSold]
      /\ payment \in [Fulfillers -> {"none", "PENDING", "SUCCEEDED"}]
  BY DEF Init
<1>7. /\ session \in [Checkouts -> {"none", "open", "paid", "mock"}]
      /\ reimbursed \in [Refunds -> SUBSET Items]
      /\ todo \in [Handlers -> SUBSET Items]
      /\ event \in [Fulfillers -> Checkouts \cup {"none", TestEvent}]
      /\ crashes \in 0..MaxCrashes
      /\ overtaken \subseteq Handlers
  BY DEF Init
<1> QED
  BY <1>1, <1>3, <1>4, <1>5, <1>6, <1>7 DEF TypeOK, Init

\* The checkout route, the buyer and Stripe.
LEMMA TypeCheckout ==
  ASSUME TypeOK, NEW c \in Checkouts,
         \/ BeginCheckout(c) \/ CheckoutStep(c) \/ BuyerPays(c)
         \/ \E d \in Deliveries : Deliver(d, c)
  PROVE  TypeOK'
<1> USE DEF TypeOK, rowVars, orderVars, moneyVars, localVars, Goto
<1>1. c \in Fulfillers /\ c \in Handlers
  BY DEF Fulfillers, Handlers
<1>2. \A s \in {"create", "done", "read", "attach", "pending"} : s \in Steps
  BY DEF Steps, Resting
<1>3. CASE BeginCheckout(c)
  BY <1>1, <1>2, <1>3 DEF BeginCheckout
<1>4. CASE CreateSession(c)
  <2>1. pc' \in [Handlers -> Steps]
    BY <1>1, <1>2, <1>4 DEF CreateSession
  <2>2. /\ session' \in [Checkouts -> {"none", "open", "paid", "mock"}]
        /\ event' \in [Fulfillers -> Checkouts \cup {"none", TestEvent}]
    <3>1. CASE pc' = [pc EXCEPT ![c] = "read"]
               /\ session' = [session EXCEPT ![c] = "mock"] /\ event' = [event EXCEPT ![c] = c]
      BY <1>1, <3>1
    <3>2. CASE session' = [session EXCEPT ![c] = "open"] /\ event' = event
      BY <1>1, <3>2
    <3> QED
      BY <1>4, <3>1, <3>2 DEF CreateSession
  <2> QED
    <3>1. UNCHANGED <<stamp, accrual, license, counted, hold, status, paymentRef,
                      payment, overtaken, reimbursed, todo, cur, request, crashes>>
      BY <1>4 DEF CreateSession
    <3> QED
      BY <2>1, <2>2, <3>1
<1>5. CASE AttachSession(c)
  <2>1. Session(c) \in Ref
    BY DEF Session, Ref
  <2> QED
    BY <1>1, <1>2, <1>5, <2>1 DEF AttachSession
<1>6. CASE RecordPendingPayment(c)
  BY <1>1, <1>2, <1>6 DEF RecordPendingPayment
<1>7. CASE BuyerPays(c)
  BY <1>7 DEF BuyerPays
<1>8. ASSUME NEW d \in Deliveries, Deliver(d, c) PROVE TypeOK'
  <2>1. d \in Fulfillers /\ d \in Handlers
    BY DEF Fulfillers, Handlers
  <2> QED
    BY <1>2, <1>8, <2>1 DEF Deliver
<1> QED
  BY <1>3, <1>4, <1>5, <1>6, <1>7, <1>8 DEF CheckoutStep

LEMMA TypeTest ==
  ASSUME TypeOK, NEW d \in Deliveries, DeliverTest(d)
  PROVE  TypeOK'
<1>1. d \in Fulfillers /\ d \in Handlers /\ "read" \in Steps
  BY DEF Fulfillers, Handlers, Steps
<1> QED
  BY <1>1 DEF TypeOK, DeliverTest, rowVars, orderVars, moneyVars, localVars, Goto

\* fulfillPaidOrder.
LEMMA TypeFulfill ==
  ASSUME TypeOK, CurIsItem, NEW f \in Fulfillers, FulfillStep(f)
  PROVE  TypeOK'
<1> USE FulfillmentAssumption
    DEF TypeOK, rowVars, orderVars, moneyVars, localVars, Goto
<1>1. f \in Handlers
  BY DEF Handlers
<1>2. \A s \in {"done"} \cup FulfillSteps : s \in Steps
  BY DEF Steps, Resting
<1>3. CASE ReadOrder(f)
  <2>1. pc' \in [Handlers -> Steps]
    BY <1>1, <1>2, <1>3 DEF ReadOrder, FulfillSteps, LoopSteps
  <2>2. todo' \in [Handlers -> SUBSET Items]
    BY <1>1, <1>3 DEF ReadOrder
  <2> QED
    BY <1>3, <2>1, <2>2 DEF ReadOrder
<1>4. ASSUME NEW i \in Items, Accrue(f, i) PROVE TypeOK'
  <2>1. PICK t \in CreatorTiers :
          accrual' = [accrual EXCEPT ![f][i] =
             [status |-> "ACCRUED", cents |-> RoyaltyCents(Price[i], t)]]
    BY <1>4 DEF Accrue
  <2>2. RoyaltyCents(Price[i], t) \in Int
    BY SplitBounds
  <2>3. accrual' \in [Fulfillers -> [Items -> Row]]
    BY <2>1, <2>2 DEF Row
  <2> QED
    BY <1>1, <1>2, <1>4, <2>3 DEF Accrue, FulfillSteps, LoopSteps
<1>5. CASE StampItem(f)
  <2>1. cur[f] \in Items
    BY <1>5 DEF StampItem, CurIsItem
  <2>2. accrual[f][cur[f]].cents \in Int /\ Price[cur[f]] \in Int
    BY <2>1 DEF Row
  <2>3. stamp' \in [Items -> [fee : Int, royalty : Int]]
    BY <1>5, <2>1, <2>2 DEF StampItem
  <2> QED
    BY <1>1, <1>2, <1>5, <2>3 DEF StampItem, FulfillSteps, LoopSteps
<1>6. CASE GrantLicense(f)
  BY <1>1, <1>2, <1>6 DEF GrantLicense, CurIsItem, FulfillSteps, LoopSteps
<1>7. CASE CountSale(f)
  BY <1>1, <1>2, <1>7 DEF CountSale, CurIsItem, FulfillSteps, LoopSteps
<1>8. CASE CheckFraud(f)
  BY <1>1, <1>2, <1>8 DEF CheckFraud, Held, FulfillSteps, LoopSteps
<1>9. CASE MarkPaid(f)
  <2>1. PaidBy(f) \in Ref
    BY DEF PaidBy, Intent, Mock, Ref
  <2>2. overtaken' \subseteq Handlers
    BY <1>9 DEF MarkPaid, OvertakeRuns, Handlers
  <2> QED
    BY <1>1, <1>2, <1>9, <2>1, <2>2 DEF MarkPaid, FulfillSteps, LoopSteps
<1>10. CASE RecordPayment(f)
  BY <1>1, <1>2, <1>10 DEF RecordPayment, FulfillSteps, LoopSteps
<1>11. CASE AnnouncePaid(f)
  BY <1>1, <1>2, <1>11 DEF AnnouncePaid
<1> QED
  BY <1>3, <1>4, <1>5, <1>6, <1>7, <1>8, <1>9, <1>10, <1>11 DEF FulfillStep

\* The refund route and refundOrder.
LEMMA TypeRefund ==
  ASSUME TypeOK, NEW r \in Refunds, BeginRefund(r) \/ RefundStep(r)
  PROVE  TypeOK'
<1> USE FulfillmentAssumption
    DEF TypeOK, rowVars, orderVars, moneyVars, localVars, Goto
<1>1. r \in Handlers
  BY DEF Handlers
<1>2. \A s \in {"done"} \cup RefundSteps : s \in Steps
  BY DEF Steps, Resting
<1>3. Asked(r) \in SUBSET Items /\ Targets(r) \in SUBSET Items
  BY DEF Asked, Targets
<1>4. CASE BeginRefund(r)
  <2>1. pc' \in [Handlers -> Steps]
    BY <1>1, <1>2, <1>4 DEF BeginRefund, RefundSteps
  <2>2. request' \in [Refunds -> [whole : BOOLEAN, ids : SUBSET Items, ref : Ref]]
    <3>1. CASE request' = request
      BY <3>1
    <3>2. ASSUME NEW whole \in BOOLEAN, NEW ids \in SUBSET Items,
                 request' = [request EXCEPT ![r] =
                              [whole |-> whole, ids |-> ids, ref |-> paymentRef]]
          PROVE  request' \in [Refunds -> [whole : BOOLEAN, ids : SUBSET Items, ref : Ref]]
      BY <3>2
    <3> QED
      BY <1>4, <3>1, <3>2 DEF BeginRefund
  <2> QED
    <3>1. UNCHANGED <<stamp, accrual, license, counted, hold, status, paymentRef,
                      payment, overtaken, session, reimbursed, todo, cur, event, crashes>>
      BY <1>4 DEF BeginRefund
    <3> QED
      BY <2>1, <2>2, <3>1
<1>5. CASE RefundAtProvider(r)
  <2>1. pc' \in [Handlers -> Steps]
    BY <1>1, <1>2, <1>5 DEF RefundAtProvider, RefundSteps
  <2>2. /\ reimbursed' \in [Refunds -> SUBSET Items]
        /\ todo' \in [Handlers -> SUBSET Items]
    <3>1. CASE reimbursed' = [reimbursed EXCEPT ![r] = Asked(r)]
               /\ todo' = [todo EXCEPT ![r] = Targets(r)]
      BY <1>1, <1>3, <3>1
    <3>2. CASE reimbursed' = reimbursed /\ todo' = todo
      BY <3>2
    <3> QED
      BY <1>5, <3>1, <3>2 DEF RefundAtProvider
  <2> QED
    <3>1. UNCHANGED <<stamp, accrual, license, counted, hold, status, paymentRef,
                      payment, overtaken, session, cur, event, request, crashes>>
      BY <1>5 DEF RefundAtProvider
    <3> QED
      BY <2>1, <2>2, <3>1
<1>6. ASSUME NEW i \in Items, ReverseItem(r, i) PROVE TypeOK'
  <2>1. \A row \in Row : Reversed(row) \in Row
    BY DEF Row, Reversed
  <2>2. accrual' \in [Fulfillers -> [Items -> Row]]
    BY <1>6, <2>1 DEF ReverseItem
  <2> QED
    BY <1>1, <1>6, <2>2 DEF ReverseItem
<1>7. CASE SetRefunded(r)
  <2>1. overtaken' \subseteq Handlers
    BY <1>7 DEF SetRefunded, Handlers
  <2>2. status' \in {"PENDING", "PAID", "PARTIALLY_REFUNDED", "REFUNDED"}
    BY <1>7 DEF SetRefunded
  <2> QED
    BY <1>1, <1>2, <1>7, <2>1, <2>2 DEF SetRefunded, RefundSteps
<1>8. CASE NotifyRefund(r)
  BY <1>1, <1>2, <1>8 DEF NotifyRefund
<1> QED
  BY <1>4, <1>5, <1>6, <1>7, <1>8 DEF RefundStep

LEMMA TypeFail ==
  ASSUME TypeOK, NEW h \in Handlers, Fail(h)
  PROVE  TypeOK'
BY FulfillmentAssumption
   DEF TypeOK, rowVars, orderVars, moneyVars, localVars, Goto, Fail, Steps, Resting
-----------------------------------------------------------------------------
\* A step moves at most one handler.
Move(h) ==
  \/ h \in Checkouts /\ (BeginCheckout(h) \/ CheckoutStep(h))
  \/ h \in Deliveries /\ (DeliverTest(h) \/ \E c \in Checkouts : Deliver(h, c))
  \/ h \in Fulfillers /\ FulfillStep(h)
  \/ h \in Refunds /\ (BeginRefund(h) \/ RefundStep(h))
  \/ Fail(h)

LEMMA NextIsMove ==
  ASSUME Next
  PROVE  (\E h \in Handlers : Move(h)) \/ (\E c \in Checkouts : BuyerPays(c))
BY DEF Next, Move, Handlers, Fulfillers

LEMMA TypeStep == TypeOK /\ CurIsItem /\ [Next]_vars => TypeOK'
<1> SUFFICES ASSUME TypeOK, CurIsItem, [Next]_vars PROVE TypeOK'
  OBVIOUS
<1>1. CASE UNCHANGED vars
  BY <1>1 DEF TypeOK, vars, rowVars, orderVars, moneyVars, localVars
<1>2. CASE Next
  BY <1>2, TypeCheckout, TypeTest, TypeFulfill, TypeRefund, TypeFail DEF Next
<1> QED
  BY <1>1, <1>2

\* What a run has done is never undone, and nobody does another run's work.
Frame(h) ==
  /\ \A g \in Handlers \ {h} : pc'[g] = pc[g] /\ todo'[g] = todo[g]
  /\ \A g \in Fulfillers \ {h} :
       /\ cur'[g] = cur[g]
       /\ license'[g] = license[g]
       /\ counted'[g] = counted[g]
       /\ hold'[g] = hold[g]
       /\ payment'[g] = payment[g]
       /\ \A i \in Items : HasRow(g, i)' <=> HasRow(g, i)
  /\ \A g \in Fulfillers :
       /\ license[g] \subseteq license'[g]
       /\ counted[g] \subseteq counted'[g]
       /\ hold[g] \subseteq hold'[g]
       /\ \A i \in Items : HasRow(g, i) => HasRow(g, i)'

LEMMA MoveFrame ==
  ASSUME TypeOK, NEW h \in Handlers, Move(h)
  PROVE  Frame(h)
<1> USE DEF TypeOK, Frame, HasRow, rowVars, orderVars, moneyVars, localVars, Goto
<1>1. ASSUME h \in Checkouts, BeginCheckout(h) \/ CheckoutStep(h) PROVE Frame(h)
  <2>1. CASE BeginCheckout(h)
    BY <2>1 DEF BeginCheckout
  <2>2. CASE CreateSession(h)
    BY <2>2 DEF CreateSession
  <2>3. CASE AttachSession(h)
    BY <2>3 DEF AttachSession
  <2>4. CASE RecordPendingPayment(h)
    BY <2>4 DEF RecordPendingPayment
  <2> QED
    BY <1>1, <2>1, <2>2, <2>3, <2>4 DEF CheckoutStep
<1>2. ASSUME h \in Deliveries, DeliverTest(h) \/ \E c \in Checkouts : Deliver(h, c)
      PROVE  Frame(h)
  BY <1>2 DEF Deliver, DeliverTest
<1>3. ASSUME h \in Fulfillers, FulfillStep(h) PROVE Frame(h)
  <2>1. CASE ReadOrder(h)
    BY <2>1 DEF ReadOrder
  <2>2. ASSUME NEW i \in Items, Accrue(h, i) PROVE Frame(h)
    <3>1. PICK t \in CreatorTiers :
            accrual' = [accrual EXCEPT ![h][i] =
               [status |-> "ACCRUED", cents |-> RoyaltyCents(Price[i], t)]]
      BY <2>2 DEF Accrue
    <3>2. accrual'[h][i].status = "ACCRUED"
      BY <1>3, <3>1
    <3>3. \A g \in Fulfillers, j \in Items : g # h \/ j # i => accrual'[g][j] = accrual[g][j]
      BY <1>3, <3>1
    <3> QED
      BY <2>2, <3>2, <3>3 DEF Accrue
  <2>3. CASE StampItem(h)
    BY <2>3 DEF StampItem
  <2>4. CASE GrantLicense(h)
    BY <2>4 DEF GrantLicense
  <2>5. CASE CountSale(h)
    BY <2>5 DEF CountSale
  <2>6. CASE CheckFraud(h)
    BY <2>6 DEF CheckFraud
  <2>7. CASE MarkPaid(h)
    BY <2>7 DEF MarkPaid
  <2>8. CASE RecordPayment(h)
    BY <2>8 DEF RecordPayment
  <2>9. CASE AnnouncePaid(h)
    BY <2>9 DEF AnnouncePaid
  <2> QED
    BY <1>3, <2>1, <2>2, <2>3, <2>4, <2>5, <2>6, <2>7, <2>8, <2>9 DEF FulfillStep
<1>4. ASSUME h \in Refunds, BeginRefund(h) \/ RefundStep(h) PROVE Frame(h)
  <2>1. CASE BeginRefund(h)
    BY <2>1 DEF BeginRefund
  <2>2. CASE RefundAtProvider(h)
    BY <2>2 DEF RefundAtProvider
  <2>3. ASSUME NEW i \in Items, ReverseItem(h, i) PROVE Frame(h)
    <3>1. \A g \in Fulfillers, j \in Items : HasRow(g, j)' <=> HasRow(g, j)
      BY <2>3 DEF ReverseItem, Reversed, Row
    <3> QED
      BY <2>3, <3>1 DEF ReverseItem
  <2>4. CASE SetRefunded(h)
    BY <2>4 DEF SetRefunded
  <2>5. CASE NotifyRefund(h)
    BY <2>5 DEF NotifyRefund
  <2> QED
    BY <1>4, <2>1, <2>2, <2>3, <2>4, <2>5 DEF RefundStep
<1>5. CASE Fail(h)
  BY <1>5 DEF Fail
<1> QED
  BY <1>1, <1>2, <1>3, <1>4, <1>5 DEF Move
-----------------------------------------------------------------------------
(* PaidIsDelivered.  The invariant follows a run through its loop: what is   *)
(* behind it in todo is delivered, and the current item is delivered up to   *)
(* the step the run is at.                                                   *)

DeliveredBehind ==
  \A f \in Fulfillers : InLoop(f) => \A i \in Items \ todo[f] : Delivered(f, i)

CurDelivered ==
  \A f \in Fulfillers :
    /\ pc[f] \in {"stamp", "license", "sales", "fraud"} => HasRow(f, cur[f])
    /\ pc[f] \in {"sales", "fraud"} => cur[f] \in license[f]
    /\ pc[f] = "fraud" => cur[f] \in counted[f]

RefundOfPaid ==
  \A r \in Refunds : pc[r] \in RefundSteps => status # "PENDING"

DeliveryInv ==
  /\ TypeOK
  /\ CurIsItem
  /\ DeliveredBehind
  /\ CurDelivered
  /\ RefundOfPaid
  /\ PaidIsDelivered

LEMMA DeliveryInit == Init => DeliveryInv
<1> SUFFICES ASSUME Init PROVE DeliveryInv
  OBVIOUS
<1>1. TypeOK
  BY TypeInit
<1>2. \A f \in Fulfillers : pc[f] = "idle"
  BY DEF Init, Handlers
<1>3. CurIsItem /\ DeliveredBehind /\ CurDelivered
  BY <1>2 DEF CurIsItem, DeliveredBehind, CurDelivered, InLoop, LoopSteps
<1>4. PaidIsDelivered /\ RefundOfPaid
  BY DEF Init, PaidIsDelivered, RefundOfPaid, Handlers, RefundSteps
<1> QED
  BY <1>1, <1>3, <1>4 DEF DeliveryInv

\* What is known of a run carries over any step another handler takes.
LEMMA DeliveryFrame ==
  ASSUME DeliveryInv, NEW h \in Handlers, Frame(h)
  PROVE  /\ \A f \in Fulfillers, i \in Items : Delivered(f, i) => Delivered(f, i)'
         /\ \A f \in Fulfillers \ {h} :
              /\ InLoop(f)' => \A i \in Items \ todo'[f] : Delivered(f, i)'
              /\ pc'[f] \in {"stamp", "license", "sales", "fraud"}
                   => cur'[f] \in Items /\ HasRow(f, cur[f])'
              /\ pc'[f] \in {"sales", "fraud"} => cur'[f] \in license'[f]
              /\ pc'[f] = "fraud" => cur'[f] \in counted'[f]
<1>1. \A f \in Fulfillers, i \in Items : Delivered(f, i) => Delivered(f, i)'
  BY DEF Frame, Delivered
<1>2. ASSUME NEW f \in Fulfillers \ {h}
      PROVE  /\ InLoop(f)' => \A i \in Items \ todo'[f] : Delivered(f, i)'
             /\ pc'[f] \in {"stamp", "license", "sales", "fraud"}
                  => cur'[f] \in Items /\ HasRow(f, cur[f])'
             /\ pc'[f] \in {"sales", "fraud"} => cur'[f] \in license'[f]
             /\ pc'[f] = "fraud" => cur'[f] \in counted'[f]
  <2>1. /\ f \in Handlers /\ f # h
        /\ pc'[f] = pc[f] /\ todo'[f] = todo[f] /\ cur'[f] = cur[f]
        /\ license'[f] = license[f] /\ counted'[f] = counted[f]
        /\ \A i \in Items : HasRow(f, i)' <=> HasRow(f, i)
    BY DEF Frame, Handlers
  <2>2. InLoop(f)' => \A i \in Items \ todo'[f] : Delivered(f, i)'
    BY <1>1, <2>1 DEF DeliveryInv, DeliveredBehind, InLoop, LoopSteps
  <2>3. pc'[f] \in {"stamp", "license", "sales", "fraud"}
          => cur'[f] \in Items /\ HasRow(f, cur[f])'
    BY <2>1 DEF DeliveryInv, CurIsItem, CurDelivered, HasRow
  <2>4. /\ pc'[f] \in {"sales", "fraud"} => cur'[f] \in license'[f]
        /\ pc'[f] = "fraud" => cur'[f] \in counted'[f]
    BY <2>1 DEF DeliveryInv, CurDelivered
  <2> QED
    BY <2>2, <2>3, <2>4
<1> QED
  BY <1>1, <1>2

\* The same for the run that takes the step.
OwnProgress(f) ==
  /\ pc'[f] \in {"stamp", "license", "sales", "fraud"}
       => cur'[f] \in Items /\ HasRow(f, cur[f])'
  /\ pc'[f] \in {"sales", "fraud"} => cur'[f] \in license'[f]
  /\ pc'[f] = "fraud" => cur'[f] \in counted'[f]
  /\ InLoop(f)' => \A i \in Items \ todo'[f] : Delivered(f, i)'

LEMMA OwnProgressStep ==
  ASSUME DeliveryInv, NEW f \in Fulfillers, Move(f)
  PROVE  OwnProgress(f)
<1> USE DEF OwnProgress, InLoop, LoopSteps, Goto, localVars, rowVars
<1>1. f \in Handlers
  BY DEF Handlers
<1>2. Frame(f) /\ TypeOK
  BY <1>1, MoveFrame DEF DeliveryInv
<1>3. \A i \in Items : Delivered(f, i) => Delivered(f, i)'
  BY <1>1, <1>2, DeliveryFrame
<1>4. CASE f \in Checkouts /\ (BeginCheckout(f) \/ CheckoutStep(f))
  <2>1. pc'[f] \in {"create", "done", "read", "attach", "pending"}
    BY <1>1, <1>2, <1>4 DEF TypeOK, BeginCheckout, CheckoutStep, CreateSession,
       AttachSession, RecordPendingPayment
  <2> QED
    BY <2>1
<1>5. CASE f \in Deliveries /\ (DeliverTest(f) \/ \E c \in Checkouts : Deliver(f, c))
  BY <1>1, <1>2, <1>5 DEF TypeOK, Deliver, DeliverTest
<1>6. CASE FulfillStep(f)
  <2>1. CASE ReadOrder(f)
    <3>1. \/ pc'[f] = "done"
          \/ pc'[f] = "items" /\ todo'[f] = Items
      BY <1>1, <1>2, <2>1 DEF TypeOK, ReadOrder
    <3> QED
      BY <3>1
  <2>2. ASSUME NEW i \in Items, Accrue(f, i) PROVE OwnProgress(f)
    <3>1. PICK t \in CreatorTiers :
            accrual' = [accrual EXCEPT ![f][i] =
               [status |-> "ACCRUED", cents |-> RoyaltyCents(Price[i], t)]]
      BY <2>2 DEF Accrue
    <3>2. accrual'[f][i].status = "ACCRUED"
      BY <1>2, <3>1 DEF TypeOK
    <3>3. pc'[f] = "stamp" /\ cur'[f] = i /\ todo'[f] = todo[f] /\ pc[f] = "items"
      BY <1>1, <1>2, <2>2 DEF TypeOK, Accrue
    <3>4. \A j \in Items \ todo'[f] : Delivered(f, j)'
      BY <1>3, <3>3 DEF DeliveryInv, DeliveredBehind
    <3> QED
      BY <3>2, <3>3, <3>4 DEF HasRow
  <2>3. CASE StampItem(f)
    <3>1. /\ pc[f] = "stamp" /\ pc'[f] = "license"
          /\ cur'[f] = cur[f] /\ todo'[f] = todo[f] /\ accrual' = accrual
      BY <1>1, <1>2, <2>3 DEF TypeOK, StampItem
    <3> QED
      BY <1>3, <3>1 DEF DeliveryInv, DeliveredBehind, CurDelivered, CurIsItem, HasRow
  <2>4. CASE GrantLicense(f)
    <3>1. /\ pc[f] = "license" /\ pc'[f] = "sales"
          /\ cur'[f] = cur[f] /\ todo'[f] = todo[f] /\ accrual' = accrual
          /\ cur[f] \in license'[f]
      BY <1>1, <1>2, <2>4 DEF TypeOK, GrantLicense
    <3> QED
      BY <1>3, <3>1 DEF DeliveryInv, DeliveredBehind, CurDelivered, CurIsItem, HasRow
  <2>5. CASE CountSale(f)
    <3>1. /\ pc[f] = "sales" /\ pc'[f] = "fraud"
          /\ cur'[f] = cur[f] /\ todo'[f] = todo[f] /\ accrual' = accrual
          /\ license'[f] = license[f]
          /\ cur[f] \in counted'[f]
      BY <1>1, <1>2, <2>5 DEF TypeOK, CountSale
    <3> QED
      BY <1>3, <3>1 DEF DeliveryInv, DeliveredBehind, CurDelivered, CurIsItem, HasRow
  <2>6. CASE CheckFraud(f)
    <3>1. /\ pc[f] = "fraud" /\ pc'[f] = "items"
          /\ todo'[f] = todo[f] \ {cur[f]} /\ accrual' = accrual
          /\ license'[f] = license[f] /\ counted'[f] = counted[f]
          /\ cur[f] \in SelfSold => cur[f] \in hold'[f]
      BY <1>1, <1>2, <2>6 DEF TypeOK, CheckFraud, Held
    <3>2. ASSUME NEW i \in Items \ todo'[f] PROVE Delivered(f, i)'
      <4>1. CASE i = cur[f]
        BY <3>1, <4>1 DEF DeliveryInv, CurDelivered, Delivered, HasRow
      <4>2. CASE i # cur[f]
        BY <1>3, <3>1, <4>2 DEF DeliveryInv, DeliveredBehind
      <4> QED
        BY <4>1, <4>2
    <3> QED
      BY <3>1, <3>2
  <2>7. CASE MarkPaid(f) \/ RecordPayment(f) \/ AnnouncePaid(f)
    <3>1. pc'[f] \in {"payment", "announce", "done"}
      BY <1>1, <1>2, <2>7 DEF TypeOK, MarkPaid, RecordPayment, AnnouncePaid
    <3> QED
      BY <3>1
  <2> QED
    BY <1>6, <2>1, <2>2, <2>3, <2>4, <2>5, <2>6, <2>7 DEF FulfillStep
<1>7. CASE Fail(f)
  BY <1>1, <1>2, <1>7 DEF TypeOK, Fail
<1> QED
  BY <1>4, <1>5, <1>6, <1>7, FulfillmentAssumption DEF Move

LEMMA DeliveryStep ==
  ASSUME DeliveryInv, [Next]_vars
  PROVE  DeliveryInv'
<1>1. TypeOK'
  BY TypeStep DEF DeliveryInv
<1>2. ASSUME NEW h \in Handlers, Move(h) PROVE DeliveryInv'
  <2>1. Frame(h)
    BY <1>2, MoveFrame DEF DeliveryInv
  <2>2. \A f \in Fulfillers : OwnProgress(f)
    <3>1. ASSUME NEW f \in Fulfillers PROVE OwnProgress(f)
      <4>1. CASE f = h
        BY <1>2, <4>1, OwnProgressStep
      <4>2. CASE f # h
        BY <2>1, <4>2, DeliveryFrame DEF OwnProgress
      <4> QED
        BY <4>1, <4>2
    <3> QED
      BY <3>1
  <2>3. (CurIsItem /\ DeliveredBehind /\ CurDelivered)'
    BY <2>2 DEF OwnProgress, CurIsItem, DeliveredBehind, CurDelivered
  <2>4. \/ h \in Fulfillers /\ MarkPaid(h)
        \/ status' = status
        \/ h \in Refunds /\ SetRefunded(h)
    BY <1>2 DEF Move, orderVars, BeginCheckout, CheckoutStep, CreateSession,
       AttachSession, RecordPendingPayment, Deliver, DeliverTest, FulfillStep, ReadOrder,
       Accrue, StampItem, GrantLicense, CountSale, CheckFraud, RecordPayment,
       AnnouncePaid, BeginRefund, RefundStep, RefundAtProvider, ReverseItem,
       NotifyRefund, Fail
  <2>5. status # "PENDING" => status' # "PENDING"
    BY <2>4 DEF MarkPaid, SetRefunded
  <2>6. ASSUME NEW r \in Refunds, pc'[r] \in RefundSteps PROVE status' # "PENDING"
    <3>1. CASE r # h
      <4>1. pc'[r] = pc[r]
        BY <2>1, <3>1 DEF Frame, Handlers
      <4> QED
        BY <2>5, <2>6, <4>1 DEF DeliveryInv, RefundOfPaid
    <3>2. CASE r = h
      <4>1. BeginRefund(r) \/ RefundStep(r) \/ Fail(r)
        BY <1>2, <3>2, FulfillmentAssumption DEF Move, Fulfillers
      <4>2. BeginRefund(r) => pc'[r] = "done" \/ status # "PENDING"
        BY <1>2, <3>2 DEF DeliveryInv, TypeOK, BeginRefund, Goto
      <4>3. Fail(r) => pc'[r] = "failed"
        BY <1>2, <3>2 DEF DeliveryInv, TypeOK, Fail, Goto
      <4>4. RefundStep(r) => pc[r] \in RefundSteps
        BY DEF RefundStep, RefundAtProvider, ReverseItem, SetRefunded, NotifyRefund,
           RefundSteps
      <4> QED
        BY <2>5, <2>6, <4>1, <4>2, <4>3, <4>4 DEF DeliveryInv, RefundOfPaid, RefundSteps
    <3> QED
      BY <3>1, <3>2
  <2>7. PaidIsDelivered'
    <3>1. CASE h \in Fulfillers /\ MarkPaid(h)
      <4>1. \A i \in Items : Delivered(h, i)
        BY <3>1 DEF DeliveryInv, DeliveredBehind, MarkPaid, InLoop, LoopSteps
      <4>2. \A i \in Items : Delivered(h, i)'
        BY <2>1, <3>1, <4>1, DeliveryFrame
      <4> QED
        BY <3>1, <4>2 DEF PaidIsDelivered
    <3>2. CASE status' = "PENDING" \/ status # "PENDING"
      BY <2>1, <3>2, DeliveryFrame DEF DeliveryInv, PaidIsDelivered
    <3>3. CASE h \in Refunds /\ SetRefunded(h)
      BY <3>2, <3>3 DEF DeliveryInv, RefundOfPaid, SetRefunded, RefundSteps
    <3> QED
      BY <2>4, <3>1, <3>2, <3>3
  <2> QED
    BY <1>1, <2>3, <2>6, <2>7 DEF DeliveryInv, RefundOfPaid
<1>3. CASE UNCHANGED <<status, accrual, license, counted, hold, pc, todo, cur>>
  BY <1>1, <1>3 DEF DeliveryInv, CurIsItem, DeliveredBehind, CurDelivered, InLoop, LoopSteps,
     RefundOfPaid, PaidIsDelivered, Delivered, HasRow
<1>4. (\E c \in Checkouts : BuyerPays(c)) \/ UNCHANGED vars
        => UNCHANGED <<status, accrual, license, counted, hold, pc, todo, cur>>
  BY DEF BuyerPays, vars, rowVars, orderVars, localVars
<1> QED
  BY <1>2, <1>3, <1>4, NextIsMove

\* Every reachable state is well typed.
THEOREM TypeCorrect == Spec => []TypeOK
<1>1. DeliveryInv => TypeOK
  BY DEF DeliveryInv
<1>2. DeliveryInv /\ [Next]_vars => DeliveryInv'
  BY DeliveryStep
<1> QED
  BY <1>1, <1>2, DeliveryInit, PTL DEF Spec

\* In every interleaving and after any crashes, an order that left PENDING has
\* been delivered in full by one run of fulfillPaidOrder.
THEOREM PaidOrdersAreDelivered == Spec => []PaidIsDelivered
<1>1. DeliveryInv => PaidIsDelivered
  BY DEF DeliveryInv
<1>2. DeliveryInv /\ [Next]_vars => DeliveryInv'
  BY DeliveryStep
<1> QED
  BY <1>1, <1>2, DeliveryInit, PTL DEF Spec-----------------------------------------------------------------------------
(* Handlers overlap as they like.  One that nobody has overtaken still knows *)
(* the status when it writes it; the overtaken ones are exactly those that   *)
(* do not.                                                                   *)

ReadsAreFresh ==
  /\ \A f \in Fulfillers : InLoop(f) => (f \in overtaken <=> status # "PENDING")
  /\ \A r \in Refunds :
       Refunding(r) /\ r \notin overtaken => status \in {"PAID", "PARTIALLY_REFUNDED"}
  /\ status = "PENDING" => overtaken = {}

FreshInv == DeliveryInv /\ ReadsAreFresh

\* The only steps that change the status or overtake anybody.
LEMMA StatusWriters ==
  ASSUME NEW h \in Handlers, Move(h)
  PROVE  \/ status' = status /\ overtaken' = overtaken
         \/ h \in Fulfillers /\ MarkPaid(h)
         \/ h \in Refunds /\ SetRefunded(h)
BY DEF Move, orderVars, BeginCheckout, CheckoutStep, CreateSession,
   AttachSession, RecordPendingPayment, Deliver, DeliverTest, FulfillStep, ReadOrder,
   Accrue, StampItem, GrantLicense, CountSale, CheckFraud, RecordPayment,
   AnnouncePaid, BeginRefund, RefundStep, RefundAtProvider, ReverseItem,
   NotifyRefund, Fail

\* A refund at work found the order paid.
LEMMA RefundingIsPaid ==
  ASSUME DeliveryInv, NEW r \in Refunds, Refunding(r)
  PROVE  status # "PENDING"
BY DEF DeliveryInv, RefundOfPaid, Refunding, RefundSteps

\* What the two writers of the status knew of it.
LEMMA PaidKnew ==
  ASSUME FreshInv, NEW f \in Fulfillers, MarkPaid(f)
  PROVE  /\ status' = "PAID"
         /\ pc'[f] = "payment"
         /\ f \in overtaken <=> status # "PENDING"
         /\ status = "PENDING" => overtaken = {}
         /\ status # "PENDING" => overtaken' = overtaken
         /\ overtaken \subseteq overtaken'
         /\ f \in overtaken' <=> f \in overtaken
<1>1. InLoop(f) /\ f \in Handlers
  BY DEF MarkPaid, InLoop, LoopSteps, Handlers
<1>2. pc'[f] = "payment"
  BY <1>1 DEF MarkPaid, Goto, FreshInv, DeliveryInv, TypeOK
<1>3. overtaken' = overtaken \cup {g \in Fulfillers \ {f} : InLoop(g)}
  BY DEF MarkPaid, OvertakeRuns
<1>4. status # "PENDING" => {g \in Fulfillers \ {f} : InLoop(g)} \subseteq overtaken
  BY DEF FreshInv, ReadsAreFresh
<1>5. status # "PENDING" => overtaken' = overtaken
  BY <1>3, <1>4
<1>6. overtaken \subseteq overtaken' /\ (f \in overtaken' <=> f \in overtaken)
  BY <1>3
<1> QED
  BY <1>1, <1>2, <1>5, <1>6 DEF MarkPaid, FreshInv, ReadsAreFresh

LEMMA RefundKnew ==
  ASSUME FreshInv, NEW r \in Refunds, SetRefunded(r)
  PROVE  /\ status # "PENDING"
         /\ r \notin overtaken => status \in {"PAID", "PARTIALLY_REFUNDED"}
         /\ status' = IF FullRefund(r) THEN "REFUNDED" ELSE "PARTIALLY_REFUNDED"
         /\ pc'[r] = "notify"
         /\ overtaken \subseteq overtaken'
         /\ ~FullRefund(r) => overtaken' = overtaken
         /\ \A f \in Fulfillers : f \in overtaken' <=> f \in overtaken
         /\ FullRefund(r) => \A q \in Refunds \ {r} : Refunding(q) => q \in overtaken'
<1>1. Refunding(r) /\ r \in Handlers
  BY DEF SetRefunded, Refunding, Handlers
<1>2. pc'[r] = "notify"
  BY <1>1 DEF SetRefunded, Goto, FreshInv, DeliveryInv, TypeOK
<1>3. \A f \in Fulfillers : f \in overtaken' <=> f \in overtaken
  BY FulfillmentAssumption DEF SetRefunded
<1>4. status # "PENDING"
  BY <1>1, RefundingIsPaid DEF FreshInv
<1>5. overtaken \subseteq overtaken' /\ (~FullRefund(r) => overtaken' = overtaken)
  BY DEF SetRefunded
<1>6. FullRefund(r) => \A q \in Refunds \ {r} : Refunding(q) => q \in overtaken'
  BY DEF SetRefunded
<1>7. status' = IF FullRefund(r) THEN "REFUNDED" ELSE "PARTIALLY_REFUNDED"
  BY DEF SetRefunded
<1> QED
  BY <1>1, <1>2, <1>3, <1>4, <1>5, <1>6, <1>7 DEF FreshInv, ReadsAreFresh

\* A handler comes to hold a read of the status only by reading it.
LEMMA NewReads ==
  ASSUME FreshInv, NEW h \in Handlers, Move(h)
  PROVE  /\ h \in Fulfillers /\ InLoop(h)' => InLoop(h) \/ (status = "PENDING" /\ status' = status)
         /\ h \in Refunds /\ Refunding(h)' =>
              \/ Refunding(h)
              \/ status \in {"PAID", "PARTIALLY_REFUNDED"} /\ status' = status
<1> USE DEF FreshInv, DeliveryInv, TypeOK, Goto, InLoop, LoopSteps, Refunding, orderVars
<1>1. ASSUME h \in Fulfillers, InLoop(h)', ~InLoop(h)
      PROVE  status = "PENDING" /\ status' = status
  <2>1. h \notin Refunds
    BY <1>1, FulfillmentAssumption
  <2>2. ReadOrder(h)
    BY <1>1, <2>1 DEF Move, BeginCheckout, CheckoutStep, CreateSession, AttachSession,
       RecordPendingPayment, Deliver, DeliverTest, FulfillStep, Accrue, StampItem,
       GrantLicense, CountSale, CheckFraud, MarkPaid, RecordPayment, AnnouncePaid, Fail
  <2> QED
    BY <1>1, <2>2 DEF ReadOrder, AlreadyPaid
<1>2. ASSUME h \in Refunds, Refunding(h)', ~Refunding(h)
      PROVE  status \in {"PAID", "PARTIALLY_REFUNDED"} /\ status' = status
  <2>1. h \notin Fulfillers
    BY <1>2, FulfillmentAssumption
  <2>2. BeginRefund(h)
    BY <1>2, <2>1 DEF Move, Fulfillers, RefundStep, RefundAtProvider, ReverseItem,
       SetRefunded, NotifyRefund, Fail
  <2> QED
    BY <1>2, <2>2 DEF BeginRefund
<1> QED
  BY <1>1, <1>2

LEMMA FreshMove ==
  ASSUME FreshInv, NEW h \in Handlers, Move(h)
  PROVE  ReadsAreFresh'
<1>1. \A g \in Handlers \ {h} : pc'[g] = pc[g]
  BY MoveFrame DEF FreshInv, DeliveryInv, Frame
<1>2. ASSUME NEW f \in Fulfillers, f # h
      PROVE  InLoop(f)' <=> InLoop(f)
  BY <1>1, <1>2 DEF InLoop, Handlers
<1>3. ASSUME NEW r \in Refunds, r # h
      PROVE  Refunding(r)' <=> Refunding(r)
  BY <1>1, <1>3 DEF Refunding, Handlers
<1>4. CASE status' = status /\ overtaken' = overtaken
  BY <1>2, <1>3, <1>4, NewReads DEF FreshInv, ReadsAreFresh
<1>5. CASE h \in Fulfillers /\ MarkPaid(h)
  <2>1. ~InLoop(h)' /\ h \notin Refunds
    BY <1>5, PaidKnew, FulfillmentAssumption DEF InLoop, LoopSteps
  <2>2. \A f \in Fulfillers \ {h} : InLoop(f) => f \in overtaken'
    BY <1>5 DEF MarkPaid, OvertakeRuns
  <2>3. status' = "PAID"
    BY <1>5, PaidKnew
  <2> QED
    BY <1>2, <2>1, <2>2, <2>3 DEF ReadsAreFresh
<1>6. CASE h \in Refunds /\ SetRefunded(h)
  <2>1. ~Refunding(h)' /\ h \notin Fulfillers
    BY <1>6, RefundKnew, FulfillmentAssumption DEF Refunding
  <2>2. status # "PENDING" /\ status' # "PENDING"
    BY <1>6, RefundKnew
  <2>3. \A f \in Fulfillers : f \in overtaken' <=> f \in overtaken
    BY <1>6, RefundKnew
  <2>4. \A f \in Fulfillers : InLoop(f)' => (f \in overtaken' <=> status' # "PENDING")
    BY <1>2, <2>1, <2>2, <2>3 DEF FreshInv, ReadsAreFresh
  <2>5. ASSUME NEW r \in Refunds, Refunding(r)', r \notin overtaken'
        PROVE  status' \in {"PAID", "PARTIALLY_REFUNDED"}
    BY <1>3, <1>6, <2>1, <2>5, RefundKnew
  <2> QED
    BY <2>2, <2>4, <2>5 DEF ReadsAreFresh
<1> QED
  BY <1>4, <1>5, <1>6, StatusWriters

LEMMA FreshInit == Init => FreshInv
<1> SUFFICES ASSUME Init PROVE ReadsAreFresh
  BY DeliveryInit DEF FreshInv
<1>1. \A h \in Handlers : pc[h] = "idle"
  BY DEF Init
<1> QED
  BY <1>1 DEF Init, ReadsAreFresh, InLoop, LoopSteps, Refunding, Handlers

LEMMA FreshStep ==
  ASSUME FreshInv, [Next]_vars
  PROVE  FreshInv'
<1>1. DeliveryInv'
  BY DeliveryStep DEF FreshInv
<1>2. CASE UNCHANGED <<status, pc, overtaken>>
  BY <1>1, <1>2 DEF FreshInv, ReadsAreFresh, InLoop, Refunding
<1>3. (\E c \in Checkouts : BuyerPays(c)) \/ UNCHANGED vars
        => UNCHANGED <<status, pc, overtaken>>
  BY DEF BuyerPays, vars, orderVars
<1> QED
  BY <1>1, <1>2, <1>3, FreshMove, NextIsMove DEF FreshInv

\* The statuses an order may step between.
Forward ==
  /\ status' # "PENDING"
  /\ \/ /\ status = "PENDING"
        /\ status' = "PAID"
     \/ /\ status \in {"PAID", "PARTIALLY_REFUNDED"}
        /\ status' \in {"PARTIALLY_REFUNDED", "REFUNDED"}
     \/ \E h \in overtaken : pc'[h] # pc[h]

\* However the handlers of an order overlap and fail, its status moves forward in
\* every step but those of a handler that another one overtook between its check of
\* the status and its write: the late run that writes PAID over REFUNDED, and the
\* late refund, are the only ones.
THEOREM StatusMovesForward == Spec => StatusForward
<1>1. FreshInv /\ [Next]_vars => FreshInv'
  BY FreshStep
<1>2. FreshInv /\ [Next]_vars => [Forward]_status
  <2> SUFFICES ASSUME FreshInv, [Next]_vars PROVE [Forward]_status
    OBVIOUS
  <2>1. (\E c \in Checkouts : BuyerPays(c)) \/ UNCHANGED vars => status' = status
    BY DEF BuyerPays, vars, orderVars
  <2>2. ASSUME NEW h \in Fulfillers, MarkPaid(h) PROVE Forward
    <3>1. pc[h] = "items"
      BY <2>2 DEF MarkPaid
    <3> QED
      BY <2>2, <3>1, PaidKnew DEF Forward
  <2>3. ASSUME NEW h \in Refunds, SetRefunded(h) PROVE Forward
    <3>1. pc[h] = "reverse"
      BY <2>3 DEF SetRefunded
    <3> QED
      BY <2>3, <3>1, RefundKnew DEF Forward
  <2> QED
    BY <2>1, <2>2, <2>3, StatusWriters, NextIsMove
<1>3. [][Forward]_status => StatusForward
  BY PTL DEF StatusForward, Forward
<1> QED
  BY <1>1, <1>2, <1>3, FreshInit, PTL DEF Spec
-----------------------------------------------------------------------------
(* RefundReversesAll.  Once the order is paid every run still in its loop is *)
(* an overtaken one, so a royalty a refund has reversed cannot be joined by  *)
(* a row of any other run behind its back.                                   *)

FreshStanding(i) == \E f \in Fulfillers \ overtaken : Standing(f, i)

RefundProgress ==
  \A r \in Refunds :
    /\ pc[r] \in {"idle", "provider"} => reimbursed[r] = {}
    /\ pc[r] = "reverse" => \A i \in Targets(r) \ todo[r] : ~FreshStanding(i)
    /\ pc[r] \in {"notify", "done"} /\ reimbursed[r] # {}
         => status # "PENDING" /\ \A i \in Targets(r) : ~FreshStanding(i)

\* Only a refund takes a royalty back, and only of an order that was paid.
NothingReversed ==
  status = "PENDING" =>
    \A f \in Fulfillers, i \in Items : accrual[f][i].status # "REVERSED"

LedgerInv == FreshInv /\ RefundProgress /\ NothingReversed

LEMMA InvIsTyped == FreshInv => TypeOK /\ DeliveryInv
BY DEF FreshInv, DeliveryInv

\* Nobody takes an order back to PENDING, and nobody who was overtaken is forgotten.
LEMMA StatusStep ==
  ASSUME FreshInv, NEW h \in Handlers, Move(h)
  PROVE  /\ status # "PENDING" => status' # "PENDING"
         /\ overtaken \subseteq overtaken'
         /\ status # "PENDING" =>
              \A f \in Fulfillers : f \in overtaken' <=> f \in overtaken
<1>1. CASE h \in Fulfillers /\ MarkPaid(h)
  BY <1>1, PaidKnew
<1>2. CASE h \in Refunds /\ SetRefunded(h)
  BY <1>2, RefundKnew
<1> QED
  BY <1>1, <1>2, StatusWriters

\* The steps that write the rows and the column the ledger consists of.
LEMMA LedgerSteps ==
  ASSUME NEW h \in Handlers, Move(h)
  PROVE  \/ /\ accrual' = accrual /\ license' = license
            /\ status' = status /\ overtaken' = overtaken
         \/ h \in Fulfillers /\ \E i \in Items : Accrue(h, i)
         \/ h \in Fulfillers /\ (GrantLicense(h) \/ MarkPaid(h))
         \/ h \in Refunds /\ \E i \in Items : ReverseItem(h, i)
         \/ h \in Refunds /\ SetRefunded(h)
BY DEF Move, orderVars, rowVars, BeginCheckout, CheckoutStep, CreateSession,
   AttachSession, RecordPendingPayment, Deliver, DeliverTest, FulfillStep, ReadOrder,
   StampItem, CountSale, CheckFraud, RecordPayment, AnnouncePaid, BeginRefund,
   RefundStep, RefundAtProvider, NotifyRefund, Fail

\* What the ledger steps do to the rows.
LEMMA AccrueRow ==
  ASSUME TypeOK, NEW f \in Fulfillers, NEW i \in Items, Accrue(f, i)
  PROVE  /\ accrual'[f][i].status = "ACCRUED"
         /\ \A g \in Fulfillers, j \in Items :
              g # f \/ j # i => accrual'[g][j] = accrual[g][j]
         /\ license' = license /\ status' = status /\ overtaken' = overtaken
<1>1. PICK t \in CreatorTiers :
        accrual' = [accrual EXCEPT ![f][i] =
           [status |-> "ACCRUED", cents |-> RoyaltyCents(Price[i], t)]]
  BY DEF Accrue
<1>2. license' = license /\ status' = status /\ overtaken' = overtaken
  BY DEF Accrue, orderVars
<1> QED
  BY <1>1, <1>2 DEF TypeOK

LEMMA ReverseRow ==
  ASSUME TypeOK, NEW r \in Refunds, NEW i \in Items, ReverseItem(r, i)
  PROVE  /\ \A f \in Fulfillers : ~Standing(f, i)'
         /\ \A f \in Fulfillers, j \in Items : Standing(f, j)' => Standing(f, j)
         /\ \A f \in Fulfillers, j \in Items \ {i} : Standing(f, j)' <=> Standing(f, j)
         /\ license' = license /\ status' = status /\ overtaken' = overtaken
<1>1. accrual' = [f \in Fulfillers |-> [accrual[f] EXCEPT ![i] = Reversed(@)]]
  BY DEF ReverseItem
<1>2. \A f \in Fulfillers :
        /\ accrual'[f][i] = Reversed(accrual[f][i])
        /\ \A j \in Items \ {i} : accrual'[f][j] = accrual[f][j]
  BY <1>1 DEF TypeOK
<1>3. \A row \in Row : Reversed(row).status # "ACCRUED"
  BY DEF Reversed, Row
<1>4. \A f \in Fulfillers : accrual'[f][i].status # "ACCRUED"
  BY <1>2, <1>3 DEF TypeOK
<1>5. license' = license /\ status' = status /\ overtaken' = overtaken
  BY DEF ReverseItem, orderVars
<1> QED
  BY <1>2, <1>4, <1>5 DEF Standing

\* Of a paid order only overtaken runs add a row.
LEMMA NothingNewStands ==
  ASSUME FreshInv, NEW h \in Handlers, Move(h), status # "PENDING"
  PROVE  \A i \in Items : FreshStanding(i)' => FreshStanding(i)
<1> SUFFICES ASSUME NEW f \in Fulfillers, f \notin overtaken, NEW i \in Items
    PROVE  Standing(f, i)' => Standing(f, i)
  BY StatusStep DEF FreshStanding
<1>1. CASE accrual' = accrual
  BY <1>1 DEF Standing
<1>2. ASSUME h \in Fulfillers, NEW j \in Items, Accrue(h, j)
      PROVE  Standing(f, i)' => Standing(f, i)
  <2>1. h \in overtaken
    BY <1>2 DEF FreshInv, ReadsAreFresh, InLoop, LoopSteps, Accrue
  <2> QED
    BY <1>2, <2>1, AccrueRow, InvIsTyped DEF Standing
<1>3. CASE h \in Fulfillers /\ (GrantLicense(h) \/ MarkPaid(h))
  BY <1>1, <1>3 DEF GrantLicense, MarkPaid, rowVars
<1>4. CASE h \in Refunds /\ \E j \in Items : ReverseItem(h, j)
  BY <1>4, ReverseRow, InvIsTyped
<1>5. CASE h \in Refunds /\ SetRefunded(h)
  BY <1>1, <1>5 DEF SetRefunded, rowVars
<1> QED
  BY <1>1, <1>2, <1>3, <1>4, <1>5, LedgerSteps

\* A refund's request and what it paid back are its own.
LEMMA RefundFrame ==
  ASSUME TypeOK, NEW h \in Handlers, Move(h), NEW r \in Refunds \ {h}
  PROVE  reimbursed'[r] = reimbursed[r] /\ request'[r] = request[r]
<1>1. CASE h \in Refunds /\ (BeginRefund(h) \/ RefundStep(h))
  BY <1>1 DEF TypeOK, BeginRefund, RefundStep, RefundAtProvider, ReverseItem,
     SetRefunded, NotifyRefund, moneyVars, localVars
<1>2. CASE reimbursed' = reimbursed /\ request' = request
  BY <1>2
<1> QED
  BY <1>1, <1>2 DEF Move, moneyVars, localVars, BeginCheckout, CheckoutStep,
     CreateSession, AttachSession, RecordPendingPayment, Deliver, DeliverTest, FulfillStep,
     ReadOrder, Accrue, StampItem, GrantLicense, CountSale, CheckFraud, MarkPaid,
     RecordPayment, AnnouncePaid, Fail

\* The refund that takes the step.
LEMMA OwnRefund ==
  ASSUME FreshInv, RefundProgress, NEW r \in Refunds,
         BeginRefund(r) \/ RefundStep(r) \/ Fail(r)
  PROVE  /\ pc'[r] \in {"idle", "provider"} => reimbursed'[r] = {}
         /\ pc'[r] = "reverse" => \A i \in Targets(r)' \ todo'[r] : ~FreshStanding(i)'
         /\ pc'[r] \in {"notify", "done"} /\ reimbursed'[r] # {}
              => status' # "PENDING" /\ \A i \in Targets(r)' : ~FreshStanding(i)'
<1> USE DEF FreshInv, DeliveryInv, TypeOK, Goto, moneyVars, localVars, orderVars, rowVars
<1>1. r \in Handlers
  BY DEF Handlers
<1>2. CASE BeginRefund(r)
  BY <1>1, <1>2 DEF BeginRefund, RefundProgress
<1>3. CASE RefundAtProvider(r)
  <2>1. CASE pc'[r] = "reverse"
    <3>1. todo'[r] = Targets(r) /\ Targets(r)' = Targets(r)
      BY <1>1, <1>3, <2>1 DEF RefundAtProvider, Targets, Asked
    <3> QED
      BY <2>1, <3>1
  <2>2. CASE pc'[r] = "done" /\ reimbursed'[r] = reimbursed[r]
    BY <1>3, <2>2 DEF RefundAtProvider, RefundProgress
  <2> QED
    BY <1>1, <1>3, <2>1, <2>2 DEF RefundAtProvider
<1>4. ASSUME NEW i \in Items, ReverseItem(r, i)
      PROVE  /\ pc[r] = "reverse" /\ pc'[r] = pc[r]
             /\ \A j \in Targets(r)' \ todo'[r] : ~FreshStanding(j)'
  <2>1. /\ pc[r] = "reverse" /\ pc' = pc
        /\ todo'[r] = todo[r] \ {i} /\ Targets(r)' = Targets(r)
    BY <1>1, <1>4 DEF ReverseItem, Targets, Asked
  <2>2. Targets(r) \subseteq Items
    BY DEF Targets, Asked
  <2>3. ~FreshStanding(i)' /\ \A j \in Items : FreshStanding(j)' => FreshStanding(j)
    BY <1>4, ReverseRow DEF FreshStanding
  <2> QED
    BY <1>4, <2>1, <2>2, <2>3 DEF RefundProgress
<1>5. CASE SetRefunded(r)
  <2>1. /\ pc[r] = "reverse" /\ todo[r] = {} /\ pc'[r] = "notify"
        /\ Targets(r)' = Targets(r) /\ accrual' = accrual /\ status' # "PENDING"
    BY <1>1, <1>5 DEF SetRefunded, Targets, Asked
  <2>2. \A i \in Items : FreshStanding(i)' => FreshStanding(i)
    BY <1>5, <2>1, RefundKnew DEF FreshStanding, Standing
  <2>3. Targets(r) \subseteq Items
    BY DEF Targets, Asked
  <2> QED
    BY <2>1, <2>2, <2>3 DEF RefundProgress
<1>6. CASE NotifyRefund(r)
  <2>1. /\ pc[r] = "notify" /\ pc'[r] = "done" /\ reimbursed' = reimbursed
        /\ Targets(r)' = Targets(r) /\ accrual' = accrual /\ status' = status
        /\ overtaken' = overtaken
    BY <1>1, <1>6 DEF NotifyRefund, Targets, Asked
  <2> QED
    BY <2>1 DEF RefundProgress, FreshStanding, Standing
<1>7. CASE Fail(r)
  BY <1>1, <1>7 DEF Fail
<1> QED
  BY <1>2, <1>3, <1>4, <1>5, <1>6, <1>7 DEF RefundStep

LEMMA RefundProgressMove ==
  ASSUME FreshInv, RefundProgress, NEW h \in Handlers, Move(h)
  PROVE  RefundProgress'
<1>1. status # "PENDING" => status' # "PENDING"
  BY StatusStep
<1>2. SUFFICES ASSUME NEW r \in Refunds
      PROVE  /\ pc'[r] \in {"idle", "provider"} => reimbursed'[r] = {}
             /\ pc'[r] = "reverse" => \A i \in Targets(r)' \ todo'[r] : ~FreshStanding(i)'
             /\ pc'[r] \in {"notify", "done"} /\ reimbursed'[r] # {}
                  => status' # "PENDING" /\ \A i \in Targets(r)' : ~FreshStanding(i)'
  BY DEF RefundProgress
<1>3. CASE r = h
  <2>1. BeginRefund(r) \/ RefundStep(r) \/ Fail(r)
    BY <1>3, FulfillmentAssumption DEF Move, Fulfillers
  <2> QED
    BY <2>1, OwnRefund
<1>4. CASE r # h
  <2>1. pc'[r] = pc[r] /\ todo'[r] = todo[r]
    BY <1>4, MoveFrame, InvIsTyped DEF Frame, Handlers
  <2>2. reimbursed'[r] = reimbursed[r] /\ request'[r] = request[r]
    BY <1>4, RefundFrame, InvIsTyped
  <2>3. Targets(r)' = Targets(r) /\ Targets(r) \subseteq Items
    BY <2>2, InvIsTyped DEF Targets, Asked, TypeOK
  <2>4. pc[r] = "reverse" => status # "PENDING"
    BY RefundingIsPaid DEF FreshInv, Refunding
  <2> QED
    BY <1>1, <2>1, <2>2, <2>3, <2>4, NothingNewStands DEF RefundProgress
<1> QED
  BY <1>3, <1>4

LEMMA NothingReversedMove ==
  ASSUME FreshInv, NothingReversed, NEW h \in Handlers, Move(h)
  PROVE  NothingReversed'
<1>1. status # "PENDING" => status' # "PENDING"
  BY StatusStep
<1>2. CASE accrual' = accrual
  BY <1>1, <1>2 DEF NothingReversed
<1>3. ASSUME h \in Fulfillers, NEW i \in Items, Accrue(h, i) PROVE NothingReversed'
  <2>1. \A g \in Fulfillers, j \in Items :
          accrual'[g][j].status \in {"ACCRUED", accrual[g][j].status}
    BY <1>3, AccrueRow, InvIsTyped
  <2> QED
    BY <1>1, <2>1 DEF NothingReversed
<1>4. CASE h \in Refunds /\ \E i \in Items : ReverseItem(h, i)
  BY <1>1, <1>4, RefundingIsPaid DEF FreshInv, ReverseItem, Refunding, NothingReversed
<1>5. CASE \/ h \in Fulfillers /\ (GrantLicense(h) \/ MarkPaid(h))
           \/ h \in Refunds /\ SetRefunded(h)
  BY <1>2, <1>5 DEF GrantLicense, MarkPaid, SetRefunded, rowVars
<1> QED
  BY <1>2, <1>3, <1>4, <1>5, LedgerSteps

LEMMA LedgerInit == Init => LedgerInv
<1> SUFFICES ASSUME Init PROVE RefundProgress /\ NothingReversed
  BY FreshInit DEF LedgerInv
<1>1. \A r \in Refunds : pc[r] = "idle" /\ reimbursed[r] = {}
  BY DEF Init, Handlers
<1>2. \A f \in Fulfillers, i \in Items : accrual[f][i].status = "none"
  BY DEF Init, NoRow
<1> QED
  BY <1>1, <1>2 DEF RefundProgress, NothingReversed

LEMMA LedgerInvStep ==
  ASSUME LedgerInv, [Next]_vars
  PROVE  LedgerInv'
<1>1. FreshInv'
  BY FreshStep DEF LedgerInv
<1>2. CASE UNCHANGED <<status, accrual, pc, todo, reimbursed, request, overtaken>>
  <2>1. RefundProgress'
    BY <1>2 DEF LedgerInv, RefundProgress, Targets, Asked, FreshStanding, Standing
  <2>2. NothingReversed'
    BY <1>2 DEF LedgerInv, NothingReversed
  <2> QED
    BY <1>1, <2>1, <2>2 DEF LedgerInv
<1>3. (\E c \in Checkouts : BuyerPays(c)) \/ UNCHANGED vars
        => UNCHANGED <<status, accrual, pc, todo, reimbursed, request, overtaken>>
  BY DEF BuyerPays, vars, rowVars, orderVars, moneyVars, localVars
<1>4. ASSUME NEW h \in Handlers, Move(h) PROVE LedgerInv'
  BY <1>1, <1>4, RefundProgressMove, NothingReversedMove DEF LedgerInv
<1> QED
  BY <1>2, <1>3, <1>4, NextIsMove

\* However the handlers of an order overlap and fail, a refund that went through
\* leaves no royalty standing for its items, also none of the duplicates that
\* crashed and repeated runs of fulfillPaidOrder left behind: but for the rows of
\* runs that were in their loop when another one marked the order paid.
THEOREM RefundsReverseEveryRow == Spec => []RefundReversesAll
<1>1. LedgerInv /\ [Next]_vars => LedgerInv'
  BY LedgerInvStep
<1>2. LedgerInv => RefundReversesAll
  BY DEF LedgerInv, RefundProgress, RefundReversesAll, FreshStanding
<1> QED
  BY <1>1, <1>2, LedgerInit, PTL DEF Spec
-----------------------------------------------------------------------------
(* ImplementsLedger.  The credited items of the ledger are those with a row  *)
(* that stands and that no overtaken run wrote; the owned ones those some    *)
(* run licensed.                                                             *)

Credited == {i \in Items : \E f \in Fulfillers \ overtaken : Standing(f, i)}
Owned == UNION {license[f] : f \in Fulfillers}
Raced == overtaken # {}

LEMMA LedgerStepSimulated ==
  ASSUME LedgerInv, NEW h \in Handlers, Move(h)
  PROVE  Ledger!Next \/ UNCHANGED <<status, Credited, Owned, Raced>>
<1> USE DEF Ledger!Next
<1>0. TypeOK /\ DeliveryInv /\ FreshInv
  BY InvIsTyped DEF LedgerInv
<1>1. CASE accrual' = accrual /\ license' = license /\ status' = status /\ overtaken' = overtaken
  BY <1>1 DEF Credited, Owned, Raced, Standing
<1>2. ASSUME h \in Fulfillers, NEW i \in Items, Accrue(h, i)
      PROVE  Ledger!Credit(i) \/ UNCHANGED <<status, Credited, Owned, Raced>>
  <2>1. Owned' = Owned /\ status' = status /\ Raced' = Raced /\ overtaken' = overtaken
    BY <1>0, <1>2, AccrueRow DEF Owned, Raced
  <2>2. InLoop(h)
    BY <1>2 DEF InLoop, LoopSteps, Accrue
  <2>3. CASE status = "PENDING"
    <3>1. h \notin overtaken
      BY <1>0, <1>2, <2>2, <2>3 DEF FreshInv, ReadsAreFresh
    <3>2. Credited' = Credited \cup {i}
      BY <1>0, <1>2, <2>1, <3>1, AccrueRow DEF Credited, Standing
    <3> QED
      BY <2>1, <2>3, <3>2 DEF Ledger!Credit, Credited, Owned, Raced
  <2>4. CASE status # "PENDING"
    <3>1. h \in overtaken
      BY <1>0, <1>2, <2>2, <2>4 DEF FreshInv, ReadsAreFresh
    <3>2. Credited' = Credited
      BY <1>0, <1>2, <2>1, <3>1, AccrueRow DEF Credited, Standing
    <3> QED
      BY <2>1, <3>2
  <2> QED
    BY <2>3, <2>4
<1>3. CASE h \in Fulfillers /\ GrantLicense(h)
  <2>1. InLoop(h) /\ cur[h] \in Items
    BY <1>0, <1>3 DEF InLoop, LoopSteps, GrantLicense, DeliveryInv, CurIsItem
  <2>2. Credited' = Credited /\ status' = status /\ Raced' = Raced
    BY <1>3 DEF GrantLicense, Credited, Standing, Raced, orderVars
  <2>3. Owned' = Owned \cup {cur[h]}
    <3>1. license'[h] = license[h] \cup {cur[h]}
      BY <1>0, <1>3 DEF GrantLicense, TypeOK
    <3>2. \A g \in Fulfillers \ {h} : license'[g] = license[g]
      BY <1>0, <1>3 DEF GrantLicense, TypeOK
    <3> QED
      BY <1>3, <3>1, <3>2 DEF Owned
  <2>4. CASE status = "PENDING"
    <3>1. h \notin overtaken
      BY <1>0, <1>3, <2>1, <2>4 DEF FreshInv, ReadsAreFresh
    <3>2. HasRow(h, cur[h]) /\ accrual[h][cur[h]] \in Row
      BY <1>0, <1>3, <2>1 DEF DeliveryInv, CurDelivered, GrantLicense, TypeOK
    <3>3. accrual[h][cur[h]].status # "REVERSED"
      BY <1>3, <2>1, <2>4 DEF LedgerInv, NothingReversed
    <3>4. cur[h] \in Credited
      BY <1>3, <2>1, <3>1, <3>2, <3>3 DEF HasRow, Row, Credited, Standing
    <3>5. PICK i \in Items : i = cur[h]
      BY <2>1
    <3>6. Ledger!HandOver(i)
      BY <2>2, <2>3, <2>4, <3>4, <3>5 DEF Ledger!HandOver, Credited, Owned, Raced
    <3> QED
      BY <3>6
  <2>5. CASE status # "PENDING"
    <3>1. \E f \in Fulfillers : cur[h] \in license[f]
      BY <1>0, <2>1, <2>5 DEF DeliveryInv, PaidIsDelivered, Delivered
    <3>2. cur[h] \in Owned
      BY <3>1 DEF Owned
    <3> QED
      BY <2>2, <2>3, <3>2
  <2> QED
    BY <2>4, <2>5
<1>4. CASE h \in Fulfillers /\ MarkPaid(h)
  <2>1. InLoop(h) /\ todo[h] = {}
    BY <1>4 DEF InLoop, LoopSteps, MarkPaid
  <2>2. accrual' = accrual /\ Owned' = Owned /\ status' = "PAID"
    BY <1>4 DEF MarkPaid, rowVars, Owned
  <2>3. CASE status = "PENDING"
    <3>1. \A i \in Items : Delivered(h, i)
      BY <1>0, <1>4, <2>1 DEF DeliveryInv, DeliveredBehind
    <3>2. h \notin overtaken /\ h \notin overtaken'
      BY <1>0, <1>4, <2>3, PaidKnew
    <3>3. \A i \in Items : accrual[h][i] \in Row /\ accrual[h][i].status # "REVERSED"
      BY <1>0, <1>4, <2>3 DEF LedgerInv, NothingReversed, TypeOK
    <3>4. \A i \in Items : accrual[h][i].status = "ACCRUED"
      BY <3>1, <3>3 DEF Delivered, HasRow, Row
    <3>5. Credited = Items /\ Credited' = Items
      BY <1>4, <2>2, <3>2, <3>4 DEF Credited, Standing
    <3>6. Owned = Items
      BY <1>0, <1>4, <3>1 DEF Owned, Delivered, TypeOK
    <3>7. Raced' \in BOOLEAN
      BY DEF Raced
    <3> QED
      BY <2>2, <2>3, <3>5, <3>6, <3>7 DEF Ledger!Settle, Credited, Owned, Raced
  <2>4. CASE status # "PENDING"
    <3>1. overtaken' = overtaken /\ h \in overtaken
      BY <1>0, <1>4, <2>4, PaidKnew
    <3>2. Credited' = Credited /\ Raced' = Raced /\ Raced
      BY <2>2, <3>1 DEF Credited, Standing, Raced
    <3> QED
      BY <2>2, <2>4, <3>2 DEF Ledger!SettleAgain, Credited, Owned, Raced
  <2> QED
    BY <2>3, <2>4
<1>5. ASSUME h \in Refunds, NEW i \in Items, ReverseItem(h, i)
      PROVE  Ledger!TakeBack(i)
  <2>1. status # "PENDING"
    BY <1>0, <1>5, RefundingIsPaid DEF ReverseItem, Refunding
  <2>2. Owned' = Owned /\ status' = status /\ overtaken' = overtaken /\ Raced' = Raced
    BY <1>0, <1>5, ReverseRow DEF Owned, Raced
  <2>3. Credited' = Credited \ {i}
    BY <1>0, <1>5, <2>2, ReverseRow DEF Credited
  <2> QED
    BY <2>1, <2>2, <2>3 DEF Ledger!TakeBack, Credited, Owned, Raced
<1>6. CASE h \in Refunds /\ SetRefunded(h)
  <2>1. status # "PENDING"
    BY <1>0, <1>6, RefundKnew
  <2>2. \/ status \in {"PAID", "PARTIALLY_REFUNDED"}
        \/ Raced /\ status = "REFUNDED"
    BY <1>0, <1>6, <2>1, RefundKnew DEF Raced, TypeOK
  <2>3. \A i \in Targets(h) : ~FreshStanding(i)
    BY <1>6 DEF LedgerInv, RefundProgress, SetRefunded
  <2>4. Credited' = Credited /\ Owned' = Owned
    <3>1. accrual' = accrual /\ license' = license
      BY <1>6 DEF SetRefunded, rowVars
    <3> QED
      BY <1>0, <1>6, <3>1, RefundKnew DEF Credited, Owned, Standing
  <2>5. CASE FullRefund(h)
    <3>1. Credited = {} /\ status' = "REFUNDED"
      BY <1>6, <2>3, <2>5 DEF FullRefund, Credited, FreshStanding, SetRefunded
    <3>2. Raced' \in {Raced, TRUE}
      BY <1>0, <1>6, RefundKnew DEF Raced
    <3> QED
      BY <2>2, <2>4, <3>1, <3>2 DEF Ledger!Refund, Credited, Owned, Raced
  <2>6. CASE ~FullRefund(h)
    <3>1. Targets(h) # {} /\ Targets(h) \subseteq Items
      BY <1>0, <1>6, FulfillmentAssumption DEF Targets, Asked, TypeOK
    <3>2. Credited # Items /\ status' = "PARTIALLY_REFUNDED"
      BY <1>6, <2>3, <2>6, <3>1 DEF Credited, FreshStanding, SetRefunded
    <3>3. Raced' = Raced
      BY <1>0, <1>6, <2>6, RefundKnew DEF Raced
    <3> QED
      BY <2>2, <2>4, <3>2, <3>3 DEF Ledger!Refund, Credited, Owned, Raced
  <2> QED
    BY <2>5, <2>6
<1> QED
  BY <1>1, <1>2, <1>3, <1>4, <1>5, <1>6, LedgerSteps

\* However its handlers overlap and fail, an order is the purchase ledger: every
\* step of the checkout, of Stripe, of fulfillPaidOrder, of a refund and of a
\* failure is a step of PurchaseLedger or none, credits being the rows of the runs
\* nobody overtook.
THEOREM OrderImplementsLedger == Spec => ImplementsLedger
<1>1. Init => Ledger!Init
  BY DEF Init, NoRow, Standing, Ledger!Init
<1>2. LedgerInv /\ [Next]_vars => LedgerInv'
  BY LedgerInvStep
<1>3. LedgerInv /\ [Next]_vars => [Ledger!Next]_(Ledger!ledger)
  <2> SUFFICES ASSUME LedgerInv, [Next]_vars
      PROVE  Ledger!Next \/ UNCHANGED <<status, Credited, Owned, Raced>>
    BY DEF Ledger!ledger, Credited, Owned, Raced
  <2>1. (\E c \in Checkouts : BuyerPays(c)) \/ UNCHANGED vars
          => UNCHANGED <<status, accrual, license, overtaken>>
    BY DEF BuyerPays, vars, rowVars, orderVars
  <2> QED
    BY <2>1, LedgerStepSimulated, NextIsMove DEF Credited, Owned, Raced, Standing
<1> QED
  BY <1>1, <1>2, <1>3, LedgerInit, PTL DEF Spec, ImplementsLedger, Ledger!Spec
-----------------------------------------------------------------------------
(* StampBacked, for handlers that overlap and crash as they like.  A run     *)
(* accrues once for an item, so the amount of a row never changes, and an    *)
(* item's stamp, whichever run wrote it last, is the amount of some row.     *)

RowsInRange ==
  \A f \in Fulfillers, i \in Items :
    HasRow(f, i) => accrual[f][i].cents \in 0..Price[i]

\* A run that has not read the order yet.
BeforeLoop == {"idle", "create", "attach", "pending", "read"}

\* A run has no row yet for what its loop has still to visit.
NoRowAhead ==
  \A f \in Fulfillers :
    /\ pc[f] \in BeforeLoop => \A i \in Items : ~HasRow(f, i)
    /\ InLoop(f) => \A i \in todo[f] : HasRow(f, i) => pc[f] # "items" /\ i = cur[f]

Backed(i) ==
  /\ stamp[i].fee + stamp[i].royalty = Price[i]
  /\ stamp[i].fee >= 0
  /\ \E f \in Fulfillers : HasRow(f, i) /\ accrual[f][i].cents = stamp[i].royalty

StampedBehind ==
  \A f \in Fulfillers :
    /\ InLoop(f) => \A i \in Items \ todo[f] : Backed(i)
    /\ pc[f] \in {"license", "sales", "fraud"} => \A i \in Items : i = cur[f] => Backed(i)

StampInv == DeliveryInv /\ RowsInRange /\ NoRowAhead /\ StampedBehind /\ StampBacked

\* A row keeps its amount, and every row's amount is in range.
LEMMA RowsKeepCents ==
  ASSUME StampInv, NEW h \in Handlers, Move(h)
  PROVE  /\ \A f \in Fulfillers, i \in Items :
              HasRow(f, i) => HasRow(f, i)' /\ accrual'[f][i].cents = accrual[f][i].cents
         /\ RowsInRange'
<1>0. TypeOK /\ Frame(h)
  BY MoveFrame DEF StampInv, DeliveryInv
<1>1. CASE accrual' = accrual
  BY <1>1 DEF StampInv, RowsInRange, HasRow
<1>2. ASSUME h \in Fulfillers, NEW i \in Items, Accrue(h, i)
      PROVE  /\ ~HasRow(h, i)
             /\ accrual'[h][i].cents \in 0..Price[i]
             /\ \A f \in Fulfillers, j \in Items :
                  f # h \/ j # i => accrual'[f][j] = accrual[f][j]
  <2>1. PICK t \in CreatorTiers :
          accrual' = [accrual EXCEPT ![h][i] =
             [status |-> "ACCRUED", cents |-> RoyaltyCents(Price[i], t)]]
    BY <1>2 DEF Accrue
  <2>2. accrual'[h][i].cents = RoyaltyCents(Price[i], t)
    BY <1>0, <1>2, <2>1 DEF TypeOK
  <2>3. RoyaltyCents(Price[i], t) \in 0..Price[i]
    <3>1. Price[i] \in Nat /\ t \in Tiers
      BY FulfillmentAssumption
    <3>2. /\ FeeCents(Price[i], t) \in Nat
          /\ RoyaltyCents(Price[i], t) \in Nat
      BY <3>1, SplitBounds
    <3>3. RoyaltyCents(Price[i], t) = Price[i] - FeeCents(Price[i], t)
      BY DEF RoyaltyCents
    <3> QED
      BY <3>1, <3>2, <3>3
  <2>4. ~HasRow(h, i)
    BY <1>2 DEF StampInv, NoRowAhead, Accrue, InLoop, LoopSteps
  <2> QED
    BY <1>0, <1>2, <2>2, <2>3, <2>4, AccrueRow
<1>3. CASE h \in Fulfillers /\ \E i \in Items : Accrue(h, i)
  <2>1. PICK i \in Items : Accrue(h, i)
    BY <1>3
  <2>2. \A f \in Fulfillers, j \in Items :
          HasRow(f, j) => accrual'[f][j] = accrual[f][j]
    BY <1>2, <1>3, <2>1
  <2> QED
    BY <1>2, <1>3, <2>1, <2>2 DEF StampInv, RowsInRange, HasRow
<1>4. ASSUME h \in Refunds, NEW i \in Items, ReverseItem(h, i)
      PROVE  \A f \in Fulfillers, j \in Items :
               /\ HasRow(f, j)' <=> HasRow(f, j)
               /\ accrual'[f][j].cents = accrual[f][j].cents
  <2>1. \A row \in Row : /\ Reversed(row).cents = row.cents
                         /\ Reversed(row).status # "none" <=> row.status # "none"
    BY DEF Reversed, Row
  <2>2. \A f \in Fulfillers, j \in Items :
          accrual'[f][j] = accrual[f][j] \/ accrual'[f][j] = Reversed(accrual[f][j])
    BY <1>0, <1>4 DEF ReverseItem, TypeOK
  <2>3. \A f \in Fulfillers, j \in Items : accrual[f][j] \in Row
    BY <1>0 DEF TypeOK
  <2> QED
    BY <2>1, <2>2, <2>3 DEF HasRow
<1>5. CASE h \in Refunds /\ \E i \in Items : ReverseItem(h, i)
  BY <1>4, <1>5 DEF StampInv, RowsInRange
<1>6. CASE \/ h \in Fulfillers /\ (GrantLicense(h) \/ MarkPaid(h))
           \/ h \in Refunds /\ SetRefunded(h)
  BY <1>1, <1>6 DEF GrantLicense, MarkPaid, SetRefunded, rowVars
<1> QED
  BY <1>1, <1>3, <1>5, <1>6, LedgerSteps

LEMMA StampWriter ==
  ASSUME NEW h \in Handlers, Move(h)
  PROVE  stamp' = stamp \/ (h \in Fulfillers /\ StampItem(h))
BY DEF Move, rowVars, BeginCheckout, CheckoutStep, CreateSession,
   AttachSession, RecordPendingPayment, Deliver, DeliverTest, FulfillStep, ReadOrder,
   Accrue, GrantLicense, CountSale, CheckFraud, MarkPaid, RecordPayment,
   AnnouncePaid, BeginRefund, RefundStep, RefundAtProvider, ReverseItem,
   SetRefunded, NotifyRefund, Fail

\* StampItem backs its item; no step takes that back.
LEMMA BackedStays ==
  ASSUME StampInv, NEW h \in Handlers, Move(h)
  PROVE  /\ \A i \in Items : Backed(i) => Backed(i)'
         /\ h \in Fulfillers /\ StampItem(h) => \A i \in Items : i = cur[h] => Backed(i)'
<1>1. ASSUME NEW i \in Items, Backed(i), stamp'[i] = stamp[i]
      PROVE  Backed(i)'
  BY <1>1, RowsKeepCents DEF Backed
<1>2. ASSUME h \in Fulfillers, StampItem(h)
      PROVE  /\ \A i \in Items : i = cur[h] => Backed(i)'
             /\ \A i \in Items \ {cur[h]} : stamp'[i] = stamp[i]
  <2> SUFFICES ASSUME NEW i \in Items, i = cur[h]
      PROVE  Backed(i)' /\ \A j \in Items \ {i} : stamp'[j] = stamp[j]
    BY <1>2 DEF StampInv, DeliveryInv, CurIsItem, StampItem
  <2>1. i \in Items /\ HasRow(h, i) /\ TypeOK
    BY <1>2 DEF StampInv, DeliveryInv, CurIsItem, CurDelivered, StampItem
  <2>2. accrual[h][i].cents \in 0..Price[i] /\ Price[i] \in Nat
    BY <1>2, <2>1, FulfillmentAssumption DEF StampInv, RowsInRange
  <2>3. /\ stamp'[i].fee = Price[i] - accrual[h][i].cents
        /\ stamp'[i].royalty = accrual[h][i].cents
        /\ \A j \in Items \ {i} : stamp'[j] = stamp[j]
    BY <1>2, <2>1 DEF StampItem, TypeOK
  <2>4. accrual' = accrual
    BY <1>2 DEF StampItem
  <2>5. HasRow(h, i)'
    BY <2>1, <2>4 DEF HasRow
  <2>6. Backed(i)'
    BY <1>2, <2>2, <2>3, <2>4, <2>5 DEF Backed, HasRow
  <2> QED
    BY <2>3, <2>6
<1> QED
  BY <1>1, <1>2, StampWriter

\* The run that takes the step.
LEMMA OwnStamps ==
  ASSUME StampInv, NEW f \in Fulfillers, Move(f)
  PROVE  /\ pc'[f] \in BeforeLoop => \A i \in Items : ~HasRow(f, i)'
         /\ InLoop(f)' => \A i \in todo'[f] : HasRow(f, i)' => pc'[f] # "items" /\ i = cur'[f]
         /\ InLoop(f)' => \A i \in Items \ todo'[f] : Backed(i)'
         /\ pc'[f] \in {"license", "sales", "fraud"}
              => \A i \in Items : i = cur'[f] => Backed(i)'
<1> USE DEF BeforeLoop, InLoop, LoopSteps, Goto, localVars, rowVars, TypeOK
<1>0. /\ f \in Handlers /\ TypeOK /\ NoRowAhead /\ StampedBehind /\ CurIsItem
      /\ \A i \in Items : Backed(i) => Backed(i)'
  BY BackedStays DEF Handlers, StampInv, DeliveryInv
<1>1. CASE f \in Checkouts /\ (BeginCheckout(f) \/ CheckoutStep(f))
  <2>1. /\ pc[f] \in BeforeLoop /\ accrual' = accrual
        /\ pc'[f] \in BeforeLoop \cup {"done"}
    BY <1>0, <1>1 DEF BeginCheckout, CheckoutStep, CreateSession, AttachSession,
       RecordPendingPayment
  <2> QED
    BY <1>0, <2>1 DEF NoRowAhead, HasRow
<1>2. CASE f \in Deliveries /\ (DeliverTest(f) \/ \E c \in Checkouts : Deliver(f, c))
  <2>1. pc[f] = "idle" /\ accrual' = accrual /\ pc'[f] = "read"
    BY <1>0, <1>2 DEF Deliver, DeliverTest
  <2> QED
    BY <1>0, <2>1 DEF NoRowAhead, HasRow
<1>3. CASE ReadOrder(f)
  <2>1. /\ pc[f] = "read" /\ accrual' = accrual
        /\ pc'[f] = "done" \/ (pc'[f] = "items" /\ todo'[f] = Items)
    BY <1>0, <1>3 DEF ReadOrder
  <2> QED
    BY <1>0, <2>1 DEF NoRowAhead, HasRow
<1>4. ASSUME NEW i \in Items, Accrue(f, i)
      PROVE  /\ pc'[f] = "stamp"
             /\ \A j \in todo'[f] : HasRow(f, j)' => j = cur'[f]
             /\ \A j \in Items \ todo'[f] : Backed(j)'
  <2>1. pc[f] = "items" /\ pc'[f] = "stamp" /\ cur'[f] = i /\ todo'[f] = todo[f]
    BY <1>0, <1>4 DEF Accrue
  <2>2. \A j \in Items \ {i} : HasRow(f, j)' <=> HasRow(f, j)
    BY <1>0, <1>4, AccrueRow DEF HasRow
  <2>3. \A j \in todo[f] : ~HasRow(f, j)
    BY <1>0, <2>1 DEF NoRowAhead
  <2>4. \A j \in todo'[f] : HasRow(f, j)' => j = cur'[f]
    BY <1>0, <2>1, <2>2, <2>3
  <2> QED
    BY <1>0, <2>1, <2>4 DEF StampedBehind
<1>5. CASE StampItem(f)
  <2>1. /\ pc[f] = "stamp" /\ pc'[f] = "license" /\ accrual' = accrual
        /\ cur'[f] = cur[f] /\ todo'[f] = todo[f]
    BY <1>0, <1>5 DEF StampItem
  <2>2. \A i \in Items : i = cur'[f] => Backed(i)'
    BY <1>0, <1>5, <2>1, BackedStays
  <2> QED
    BY <1>0, <2>1, <2>2 DEF NoRowAhead, StampedBehind, HasRow
<1>6. CASE GrantLicense(f) \/ CountSale(f)
  <2>1. /\ pc[f] \in {"license", "sales"} /\ pc'[f] \in {"sales", "fraud"}
        /\ accrual' = accrual /\ cur'[f] = cur[f] /\ todo'[f] = todo[f]
    BY <1>0, <1>6 DEF GrantLicense, CountSale
  <2>2. \A i \in Items : i = cur'[f] => Backed(i)'
    BY <1>0, <2>1 DEF StampedBehind
  <2> QED
    BY <1>0, <2>1, <2>2 DEF NoRowAhead, StampedBehind, HasRow
<1>7. CASE CheckFraud(f)
  <2>1. /\ pc[f] = "fraud" /\ pc'[f] = "items" /\ accrual' = accrual
        /\ todo'[f] = todo[f] \ {cur[f]}
    BY <1>0, <1>7 DEF CheckFraud
  <2>2. cur[f] \in Items /\ Backed(cur[f])
    BY <1>0, <2>1 DEF StampedBehind, CurIsItem
  <2> QED
    BY <1>0, <2>1, <2>2 DEF NoRowAhead, StampedBehind, HasRow
<1>8. CASE MarkPaid(f) \/ RecordPayment(f) \/ AnnouncePaid(f)
  BY <1>0, <1>8 DEF MarkPaid, RecordPayment, AnnouncePaid
<1>9. CASE Fail(f)
  BY <1>0, <1>9 DEF Fail
<1>10. CASE \E i \in Items : Accrue(f, i)
  BY <1>4, <1>10
<1> QED
  BY <1>1, <1>2, <1>3, <1>5, <1>6, <1>7, <1>8, <1>9, <1>10, FulfillmentAssumption
     DEF Move, FulfillStep

LEMMA StampMove ==
  ASSUME StampInv, DeliveryInv', NEW h \in Handlers, Move(h)
  PROVE  StampInv'
<1>1. Frame(h) /\ \A i \in Items : Backed(i) => Backed(i)'
  BY MoveFrame, BackedStays DEF StampInv, DeliveryInv
<1>2. ASSUME NEW f \in Fulfillers
      PROVE  /\ pc'[f] \in BeforeLoop => \A i \in Items : ~HasRow(f, i)'
             /\ InLoop(f)' => \A i \in todo'[f] : HasRow(f, i)' => pc'[f] # "items" /\ i = cur'[f]
             /\ InLoop(f)' => \A i \in Items \ todo'[f] : Backed(i)'
             /\ pc'[f] \in {"license", "sales", "fraud"}
              => \A i \in Items : i = cur'[f] => Backed(i)'
  <2>1. CASE f = h
    BY <2>1, OwnStamps
  <2>2. CASE f # h
    <3>1. /\ pc'[f] = pc[f] /\ todo'[f] = todo[f] /\ cur'[f] = cur[f]
          /\ (InLoop(f)' <=> InLoop(f))
          /\ \A i \in Items : HasRow(f, i)' <=> HasRow(f, i)
      BY <1>1, <2>2 DEF Frame, Handlers, InLoop, LoopSteps
    <3>2. todo[f] \subseteq Items
      BY DEF StampInv, DeliveryInv, TypeOK, Handlers
    <3>3. pc'[f] \in {"license", "sales", "fraud"}
            => \A i \in Items : i = cur'[f] => Backed(i)'
      BY <1>1, <3>1 DEF StampInv, StampedBehind
    <3>4. /\ pc[f] \in BeforeLoop => \A i \in Items : ~HasRow(f, i)
          /\ InLoop(f) => \A i \in todo[f] : HasRow(f, i) => pc[f] # "items" /\ i = cur[f]
          /\ InLoop(f) => \A i \in Items \ todo[f] : Backed(i)
      BY DEF StampInv, NoRowAhead, StampedBehind
    <3> QED
      BY <1>1, <3>1, <3>2, <3>3, <3>4
  <2> QED
    BY <2>1, <2>2
<1>3. NoRowAhead' /\ StampedBehind'
  BY <1>2 DEF NoRowAhead, StampedBehind
<1>4. StampBacked'
  <2>1. CASE status # "PENDING"
    <3>1. \A i \in Items : Backed(i)
      BY <2>1 DEF StampInv, StampBacked, Backed
    <3> QED
      BY <1>1, <3>1 DEF StampBacked, Backed
  <2>2. CASE h \in Fulfillers /\ MarkPaid(h)
    <3>1. \A i \in Items : Backed(i)
      BY <2>2 DEF StampInv, StampedBehind, MarkPaid, InLoop, LoopSteps
    <3> QED
      BY <1>1, <3>1 DEF StampBacked, Backed
  <2>3. CASE status' = "PENDING"
    BY <2>3 DEF StampBacked
  <2>4. CASE status' = status
    BY <2>1, <2>3, <2>4
  <2>5. CASE h \in Refunds /\ SetRefunded(h)
    BY <2>1, <2>5 DEF StampInv, DeliveryInv, RefundOfPaid, SetRefunded, RefundSteps
  <2>6. (\E i \in Items : Accrue(h, i) \/ ReverseItem(h, i)) \/ GrantLicense(h)
          => status' = status
    BY DEF Accrue, GrantLicense, ReverseItem, orderVars
  <2> QED
    BY <2>2, <2>4, <2>5, <2>6, LedgerSteps, FulfillmentAssumption
<1> QED
  BY <1>3, <1>4, RowsKeepCents DEF StampInv

LEMMA StampInit == Init => StampInv
<1> SUFFICES ASSUME Init PROVE StampInv
  OBVIOUS
<1>1. \A f \in Fulfillers : pc[f] = "idle" /\ \A i \in Items : ~HasRow(f, i)
  BY DEF Init, Handlers, HasRow, NoRow
<1>2. RowsInRange /\ NoRowAhead /\ StampedBehind
  BY <1>1 DEF RowsInRange, NoRowAhead, StampedBehind, InLoop, LoopSteps
<1>3. StampBacked
  BY DEF Init, StampBacked
<1> QED
  BY <1>2, <1>3, DeliveryInit DEF StampInv

LEMMA StampStep ==
  ASSUME StampInv, [Next]_vars
  PROVE  StampInv'
<1>1. DeliveryInv'
  BY DeliveryStep DEF StampInv
<1>2. CASE UNCHANGED <<status, stamp, accrual, pc, todo, cur>>
  <2>1. (RowsInRange /\ NoRowAhead /\ StampedBehind)'
    BY <1>2 DEF StampInv, RowsInRange, NoRowAhead, StampedBehind, Backed, HasRow, InLoop, LoopSteps
  <2>2. StampBacked'
    BY <1>2 DEF StampInv, StampBacked, HasRow
  <2> QED
    BY <1>1, <2>1, <2>2 DEF StampInv
<1>3. (\E c \in Checkouts : BuyerPays(c)) \/ UNCHANGED vars
        => UNCHANGED <<status, stamp, accrual, pc, todo, cur>>
  BY DEF BuyerPays, vars, rowVars, orderVars, localVars
<1> QED
  BY <1>1, <1>2, <1>3, StampMove, NextIsMove

\* In every interleaving and after any crashes, an order that left PENDING shows,
\* for each item, a fee and a royalty that add up to its price and a royalty the
\* ledger has a row for.
THEOREM StampsAreBacked == Spec => []StampBacked
<1>1. StampInv /\ [Next]_vars => StampInv'
  BY StampStep
<1>2. StampInv => StampBacked
  BY DEF StampInv
<1> QED
  BY <1>1, <1>2, StampInit, PTL DEF Spec
-----------------------------------------------------------------------------
(* LedgerFollowsProvider, for handlers that overlap and crash and for every  *)
(* provider.  Each run carries the event that set it off; the order's        *)
(* reference is that of a run, or a session nobody can be paid back from.    *)

LEMMA NothingCostsNothing == Amount({}) = 0
<1> DEFINE Pick(s) == CHOOSE x \in s : TRUE
           Body(it, s) == IF s = {} THEN 0 ELSE Price[Pick(s)] + it[s \ {Pick(s)}]
           Iter == CHOOSE it : it = [s \in SUBSET {} |-> Body(it, s)]
<1>1. Amount({}) = Iter[{}]
  BY DEF Amount, SumFunctionOnSet, FoldFunctionOnSet, MapThenFoldSet
<1>2. \E it : it = [s \in SUBSET {} |-> Body(it, s)]
  <2>1. \A it : [s \in SUBSET {} |-> 0] = [s \in SUBSET {} |-> Body(it, s)]
    BY SMT
  <2> QED
    BY <2>1
<1>3. Iter = [s \in SUBSET {} |-> Body(Iter, s)]
  BY <1>2
<1> QED
  BY <1>1, <1>3

\* What set the run off: a delivery somebody paid at Stripe for, the run's own
\* session at the mock, or an unsigned event.
Answered(f) ==
  \/ event[f] = TestEvent
  \/ f \in Checkouts /\ event[f] = f /\ session[f] = "mock"
  \/ f \notin Checkouts /\ event[f] \in Checkouts /\ session[event[f]] = "paid"

Fulfilling(f) == pc[f] \in {"read"} \cup FulfillSteps

SessionsFresh ==
  \A c \in Checkouts : pc[c] \in {"idle", "create"} => session[c] = "none"

RunsAreAnswered ==
  \A f \in Fulfillers :
    /\ Fulfilling(f) => Answered(f)
    /\ \A i \in Items : HasRow(f, i) => Answered(f)

RefIsPaid(ref) ==
  ref.kind = "intent" => ref.of \in Checkouts /\ session[ref.of] = "paid"

RefsArePaid == RefIsPaid(paymentRef) /\ \A r \in Refunds : RefIsPaid(request[r].ref)

\* The provider's answer to a refund covers the item.
CoveredBy(r, i) ==
  \/ i \in reimbursed[r]
  \/ request[r].ref.kind = "mock" /\ Asked(r) = {}

PaidBack ==
  /\ \A r \in Refunds :
       /\ pc[r] = "idle" => request[r] = NoRequest
       /\ pc[r] \in {"idle", "provider"} => reimbursed[r] = {}
       /\ pc[r] = "reverse" => \A i \in todo[r] : CoveredBy(r, i)
       /\ reimbursed[r] # {} => request[r].ref.kind \in {"mock", "intent"}
  /\ \A f \in Fulfillers, i \in Items :
       accrual[f][i].status = "REVERSED" => \E r \in Refunds : CoveredBy(r, i)

ProviderInv == StampInv /\ SessionsFresh /\ RunsAreAnswered /\ RefsArePaid /\ PaidBack

LEMMA ProviderTyped == ProviderInv => TypeOK /\ DeliveryInv /\ NoRowAhead
BY DEF ProviderInv, StampInv, DeliveryInv

\* Who writes a session, and when.
LEMMA SessionFrame ==
  ASSUME ProviderInv, NEW h \in Handlers, Move(h)
  PROVE  /\ \A c \in Checkouts \ {h} : session'[c] = session[c]
         /\ \A c \in Checkouts : session[c] # "none" => session'[c] = session[c]
<1>1. CASE session' = session
  BY <1>1
<1>2. CASE h \in Checkouts /\ CreateSession(h)
  <2>1. session[h] = "none"
    BY <1>2 DEF ProviderInv, SessionsFresh, CreateSession
  <2>2. \A c \in Checkouts \ {h} : session'[c] = session[c]
    BY <1>2, ProviderTyped DEF TypeOK, CreateSession
  <2> QED
    BY <2>1, <2>2
<1> QED
  BY <1>1, <1>2 DEF Move, moneyVars, BeginCheckout, CheckoutStep,
     AttachSession, RecordPendingPayment, Deliver, DeliverTest, FulfillStep, ReadOrder, Accrue,
     StampItem, GrantLicense, CountSale, CheckFraud, MarkPaid, RecordPayment,
     AnnouncePaid, BeginRefund, RefundStep, RefundAtProvider, ReverseItem,
     SetRefunded, NotifyRefund, Fail

\* A paid session stays paid, whoever moves.
LEMMA PaidStays ==
  ASSUME ProviderInv, [Next]_vars
  PROVE  \A c \in Checkouts :
           session[c] \in {"paid", "mock"} => session'[c] = session[c]
<1>1. ASSUME NEW h \in Handlers, Move(h)
      PROVE  \A c \in Checkouts :
               session[c] \in {"paid", "mock"} => session'[c] = session[c]
  BY <1>1, SessionFrame
<1>2. ASSUME NEW d \in Checkouts, BuyerPays(d)
      PROVE  \A c \in Checkouts :
               session[c] \in {"paid", "mock"} => session'[c] = session[c]
  BY <1>2, ProviderTyped DEF BuyerPays, TypeOK
<1>3. CASE UNCHANGED vars
  BY <1>3 DEF vars, moneyVars
<1> QED
  BY <1>1, <1>2, <1>3, NextIsMove

LEMMA EventFrame ==
  ASSUME TypeOK, NEW h \in Handlers, Move(h)
  PROVE  /\ \A f \in Fulfillers \ {h} : event'[f] = event[f]
         /\ FulfillStep(h) \/ Fail(h) \/ h \in Refunds => event' = event
<1>1. CASE event' = event
  BY <1>1
<1>2. CASE h \in Checkouts /\ CreateSession(h)
  BY <1>2, FulfillmentAssumption DEF CreateSession, TypeOK, FulfillStep, ReadOrder, Accrue,
     StampItem, GrantLicense, CountSale, CheckFraud, MarkPaid, RecordPayment, AnnouncePaid,
     Fail, localVars, Fulfillers
<1>3. CASE h \in Deliveries /\ (DeliverTest(h) \/ \E c \in Checkouts : Deliver(h, c))
  BY <1>3, FulfillmentAssumption DEF Deliver, DeliverTest, TypeOK, FulfillStep, ReadOrder, Accrue,
     StampItem, GrantLicense, CountSale, CheckFraud, MarkPaid, RecordPayment, AnnouncePaid,
     Fail, localVars, Fulfillers
<1> QED
  BY <1>1, <1>2, <1>3 DEF Move, localVars, BeginCheckout, CheckoutStep,
     AttachSession, RecordPendingPayment, FulfillStep, ReadOrder, Accrue,
     StampItem, GrantLicense, CountSale, CheckFraud, MarkPaid, RecordPayment,
     AnnouncePaid, BeginRefund, RefundStep, RefundAtProvider, ReverseItem,
     SetRefunded, NotifyRefund, Fail

LEMMA SessionsFreshMove ==
  ASSUME ProviderInv, NEW h \in Handlers, Move(h)
  PROVE  SessionsFresh'
<1> USE DEF TypeOK, Goto, moneyVars
<1> SUFFICES ASSUME NEW c \in Checkouts, pc'[c] \in {"idle", "create"}
    PROVE  session'[c] = "none"
  BY DEF SessionsFresh
<1>0. c \in Handlers /\ c \in Fulfillers /\ TypeOK /\ SessionsFresh
  BY ProviderTyped DEF Handlers, Fulfillers, ProviderInv
<1>1. CASE c # h
  <2>1. pc'[c] = pc[c] /\ session'[c] = session[c]
    BY <1>0, <1>1, MoveFrame, SessionFrame DEF Frame
  <2> QED
    BY <1>0, <2>1 DEF SessionsFresh
<1>2. CASE c = h
  <2>1. CASE BeginCheckout(c)
    BY <1>0, <2>1 DEF BeginCheckout, SessionsFresh
  <2>2. CASE CheckoutStep(c)
    BY <1>0, <2>2 DEF CheckoutStep, CreateSession, AttachSession, RecordPendingPayment
  <2>3. CASE FulfillStep(c)
    BY <1>0, <2>3 DEF FulfillStep, ReadOrder, Accrue, StampItem, GrantLicense, CountSale,
       CheckFraud, MarkPaid, RecordPayment, AnnouncePaid
  <2>4. CASE Fail(c)
    BY <1>0, <2>4 DEF Fail
  <2> QED
    BY <1>2, <2>1, <2>2, <2>3, <2>4, FulfillmentAssumption DEF Move, Fulfillers
<1> QED
  BY <1>1, <1>2

\* Whose event stays stays answered.
LEMMA AnsweredStays ==
  ASSUME ProviderInv, [Next]_vars, NEW f \in Fulfillers, event'[f] = event[f], Answered(f)
  PROVE  Answered(f)'
BY PaidStays DEF Answered

LEMMA RunsAreAnsweredMove ==
  ASSUME ProviderInv, NEW h \in Handlers, Move(h), Next
  PROVE  RunsAreAnswered'
<1> SUFFICES ASSUME NEW f \in Fulfillers
    PROVE  \/ Answered(f)'
           \/ ~Fulfilling(f)' /\ \A i \in Items : ~HasRow(f, i)'
  BY DEF RunsAreAnswered
<1> USE DEF Goto, TypeOK
<1>0. f \in Handlers /\ TypeOK /\ NoRowAhead /\ RunsAreAnswered
  BY ProviderTyped DEF Handlers, ProviderInv
<1>1. CASE f # h
  <2>1. /\ pc'[f] = pc[f] /\ event'[f] = event[f]
        /\ \A i \in Items : HasRow(f, i)' <=> HasRow(f, i)
    BY <1>0, <1>1, MoveFrame, EventFrame DEF Frame
  <2> QED
    BY <1>0, <2>1, AnsweredStays DEF RunsAreAnswered, Fulfilling
<1>2. CASE f = h /\ FulfillStep(f)
  <2>1. Fulfilling(f)
    BY <1>2 DEF Fulfilling, FulfillSteps, LoopSteps, FulfillStep, ReadOrder, Accrue, StampItem,
       GrantLicense, CountSale, CheckFraud, MarkPaid, RecordPayment, AnnouncePaid
  <2>2. event'[f] = event[f]
    BY <1>0, <1>2, EventFrame
  <2> QED
    BY <1>0, <2>1, <2>2, AnsweredStays DEF RunsAreAnswered
<1>3. CASE f = h /\ Fail(f)
  <2>1. event'[f] = event[f] /\ accrual' = accrual /\ pc'[f] = "failed"
    BY <1>0, <1>3, EventFrame DEF Fail, rowVars
  <2> QED
    BY <1>0, <2>1, AnsweredStays DEF RunsAreAnswered, Fulfilling, FulfillSteps, LoopSteps, HasRow
<1>4. CASE f \in Deliveries /\ (DeliverTest(f) \/ \E c \in Checkouts : Deliver(f, c))
  BY <1>0, <1>4, FulfillmentAssumption DEF Deliver, DeliverTest, Answered, moneyVars
<1>5. CASE f \in Checkouts /\ CreateSession(f)
  <2>1. CASE pc'[f] = "read"
    BY <1>0, <1>5, <2>1 DEF CreateSession, Answered
  <2>2. CASE pc'[f] # "read"
    <3>1. pc[f] \in BeforeLoop /\ pc'[f] = "attach" /\ accrual' = accrual
      BY <1>0, <1>5, <2>2 DEF CreateSession, BeforeLoop, rowVars
    <3> QED
      BY <1>0, <3>1 DEF NoRowAhead, HasRow, Fulfilling, FulfillSteps, LoopSteps
  <2> QED
    BY <2>1, <2>2
<1>6. CASE f \in Checkouts /\ (BeginCheckout(f) \/ AttachSession(f) \/ RecordPendingPayment(f))
  <2>1. /\ pc[f] \in BeforeLoop /\ accrual' = accrual
        /\ pc'[f] \in {"create", "done", "pending"}
    BY <1>0, <1>6 DEF BeginCheckout, AttachSession, RecordPendingPayment, BeforeLoop, rowVars
  <2> QED
    BY <1>0, <2>1 DEF NoRowAhead, HasRow, Fulfilling, FulfillSteps, LoopSteps
<1> QED
  BY <1>1, <1>2, <1>3, <1>4, <1>5, <1>6, FulfillmentAssumption DEF Move, CheckoutStep

\* What a run makes the order's reference, when it marks the order paid.
LEMMA PaidByIsPaid ==
  ASSUME ProviderInv, NEW f \in Fulfillers, Fulfilling(f)
  PROVE  /\ RefIsPaid(PaidBy(f))
         /\ PaidBy(f).kind \in {"mock", "intent"}
<1>1. Answered(f)
  BY DEF ProviderInv, RunsAreAnswered
<1> QED
  BY <1>1 DEF Answered, RefIsPaid, PaidBy, Mock, Intent

LEMMA RefsArePaidMove ==
  ASSUME ProviderInv, NEW h \in Handlers, Move(h), Next
  PROVE  RefsArePaid'
<1>0. TypeOK /\ RefsArePaid
  BY ProviderTyped DEF ProviderInv
<1>1. \A ref \in Ref : RefIsPaid(ref) =>
        (ref.kind = "intent" => ref.of \in Checkouts /\ session'[ref.of] = "paid")
  BY PaidStays DEF RefIsPaid
<1>2. RefIsPaid(paymentRef)'
  <2>1. CASE paymentRef' = paymentRef
    BY <1>0, <1>1, <2>1 DEF RefsArePaid, RefIsPaid, TypeOK
  <2>2. CASE h \in Checkouts /\ AttachSession(h)
    BY <2>2 DEF AttachSession, Session, RefIsPaid
  <2>3. CASE h \in Fulfillers /\ MarkPaid(h)
    <3>1. RefIsPaid(PaidBy(h)) /\ paymentRef' = PaidBy(h) /\ session' = session
      BY <2>3, PaidByIsPaid DEF MarkPaid, Fulfilling, FulfillSteps, LoopSteps, moneyVars
    <3> QED
      BY <3>1 DEF RefIsPaid
  <2> QED
    BY <2>1, <2>2, <2>3 DEF Move, orderVars, BeginCheckout, CheckoutStep, CreateSession,
       RecordPendingPayment, Deliver, DeliverTest, FulfillStep, ReadOrder, Accrue, StampItem,
       GrantLicense, CountSale, CheckFraud, RecordPayment, AnnouncePaid, BeginRefund,
       RefundStep, RefundAtProvider, ReverseItem, SetRefunded, NotifyRefund, Fail
<1>3. ASSUME NEW r \in Refunds PROVE RefIsPaid(request[r].ref)'
  <2>0. request[r].ref \in Ref
    BY <1>0 DEF TypeOK
  <2>1. CASE r # h \/ request' = request
    <3>1. request'[r] = request[r]
      BY <1>0, <2>1, RefundFrame
    <3> QED
      BY <1>0, <1>1, <2>0, <3>1 DEF RefsArePaid, RefIsPaid
  <2>2. CASE BeginRefund(r) /\ request' # request
    <3>1. PICK whole \in BOOLEAN, ids \in SUBSET Items :
            request' = [request EXCEPT ![r] =
                          [whole |-> whole, ids |-> ids, ref |-> paymentRef]]
      BY <2>2 DEF BeginRefund
    <3>2. request'[r].ref = paymentRef
      BY <1>0, <3>1 DEF TypeOK
    <3> QED
      BY <1>0, <1>1, <3>2 DEF RefsArePaid, RefIsPaid, TypeOK
  <2> QED
    BY <2>1, <2>2, FulfillmentAssumption DEF Move, Fulfillers, localVars, RefundStep,
       RefundAtProvider, ReverseItem, SetRefunded, NotifyRefund, Fail
<1> QED
  BY <1>2, <1>3 DEF RefsArePaid

\* The refund that asks the provider.
LEMMA ProviderAnswers ==
  ASSUME ProviderInv, NEW r \in Refunds, RefundAtProvider(r)
  PROVE  /\ pc'[r] = "reverse" => \A i \in todo'[r] : CoveredBy(r, i)'
         /\ reimbursed'[r] # {} => request'[r].ref.kind \in {"mock", "intent"}
         /\ pc'[r] \in {"reverse", "done"}
         /\ reimbursed[r] \subseteq reimbursed'[r] /\ request' = request
<1> USE DEF Goto, localVars, TypeOK
<1>0. TypeOK /\ PaidBack /\ r \in Handlers
  BY ProviderTyped DEF ProviderInv, Handlers
<1>1. request' = request /\ pc[r] = "provider" /\ Asked(r)' = Asked(r)
  BY DEF RefundAtProvider, Asked
<1>2. CASE reimbursed' = reimbursed /\ pc'[r] = "done"
  BY <1>0, <1>1, <1>2 DEF PaidBack
<1>3. CASE ~(reimbursed' = reimbursed /\ pc'[r] = "done")
  <2>1. /\ request[r].ref.kind = "mock" \/ StripeAccepts(r)
        /\ reimbursed'[r] = Asked(r) /\ todo'[r] = Targets(r) /\ pc'[r] = "reverse"
    BY <1>0, <1>3 DEF RefundAtProvider
  <2>2. StripeAccepts(r) => Asked(r) # {} /\ request[r].ref.kind = "intent"
    <3>1. StripeAccepts(r) => Amount(Asked(r)) > 0 /\ request[r].ref.kind = "intent"
      BY DEF StripeAccepts
    <3>2. Asked(r) = {} => Amount(Asked(r)) = 0
      BY NothingCostsNothing, Zenon
    <3> QED
      BY <3>1, <3>2
  <2>3. \A i \in todo'[r] : CoveredBy(r, i)'
    BY <1>1, <2>1, <2>2 DEF CoveredBy, Targets
  <2>4. reimbursed[r] \subseteq reimbursed'[r]
    BY <1>0, <1>1 DEF PaidBack
  <2> QED
    BY <1>1, <2>1, <2>2, <2>3, <2>4
<1> QED
  BY <1>2, <1>3

\* The part of PaidBack about one refund.
OwnAnswer(r) ==
  /\ pc[r] = "idle" => request[r] = NoRequest
  /\ pc[r] \in {"idle", "provider"} => reimbursed[r] = {}
  /\ pc[r] = "reverse" => \A i \in todo[r] : CoveredBy(r, i)
  /\ reimbursed[r] # {} => request[r].ref.kind \in {"mock", "intent"}

LEMMA OwnAnswerMove ==
  ASSUME ProviderInv, NEW h \in Handlers, Move(h), NEW r \in Refunds
  PROVE  /\ OwnAnswer(r)'
         /\ \A i \in Items : CoveredBy(r, i) => CoveredBy(r, i)'
<1> USE DEF Goto, moneyVars, localVars, orderVars, rowVars
<1>0. TypeOK /\ OwnAnswer(r) /\ r \in Handlers
  BY ProviderTyped DEF ProviderInv, PaidBack, OwnAnswer, Handlers
<1>1. CASE r # h
  <2>1. /\ pc'[r] = pc[r] /\ todo'[r] = todo[r]
        /\ reimbursed'[r] = reimbursed[r] /\ request'[r] = request[r]
    BY <1>0, <1>1, MoveFrame, RefundFrame DEF Frame
  <2> QED
    BY <1>0, <2>1 DEF OwnAnswer, CoveredBy, Asked
<1>2. CASE RefundAtProvider(r)
  <2>1. Asked(r)' = Asked(r)
    BY <1>2, ProviderAnswers DEF Asked
  <2> QED
    BY <1>2, <2>1, ProviderAnswers DEF OwnAnswer, CoveredBy
<1>3. CASE BeginRefund(r)
  <2>1. /\ pc[r] = "idle" /\ request[r] = NoRequest
        /\ reimbursed'[r] = {} /\ reimbursed[r] = {}
        /\ pc'[r] \in {"done", "provider"}
    BY <1>0, <1>3 DEF BeginRefund, OwnAnswer, TypeOK
  <2>2. \A i \in Items : ~CoveredBy(r, i)
    BY <2>1 DEF CoveredBy, NoRequest, NoRef
  <2> QED
    BY <2>1, <2>2 DEF OwnAnswer
<1>4. CASE \E i \in Items : ReverseItem(r, i)
  <2>1. /\ pc' = pc /\ pc[r] = "reverse" /\ todo'[r] \subseteq todo[r]
        /\ reimbursed' = reimbursed /\ request' = request
    BY <1>0, <1>4 DEF ReverseItem, TypeOK
  <2> QED
    BY <1>0, <2>1 DEF OwnAnswer, CoveredBy, Asked
<1>5. CASE SetRefunded(r) \/ NotifyRefund(r) \/ Fail(r)
  <2>1. /\ pc'[r] \in {"notify", "done", "failed"}
        /\ reimbursed' = reimbursed /\ request' = request
    BY <1>0, <1>5 DEF SetRefunded, NotifyRefund, Fail, TypeOK
  <2> QED
    BY <1>0, <2>1 DEF OwnAnswer, CoveredBy, Asked
<1> QED
  BY <1>1, <1>2, <1>3, <1>4, <1>5, FulfillmentAssumption DEF Move, Fulfillers, RefundStep

LEMMA PaidBackMove ==
  ASSUME ProviderInv, NEW h \in Handlers, Move(h)
  PROVE  PaidBack'
<1>0. TypeOK /\ PaidBack
  BY ProviderTyped DEF ProviderInv
<1>1. ASSUME NEW f \in Fulfillers, NEW i \in Items, accrual'[f][i].status = "REVERSED"
      PROVE  \E r \in Refunds : CoveredBy(r, i)'
  <2>1. CASE accrual[f][i].status = "REVERSED"
    <3>1. PICK r \in Refunds : CoveredBy(r, i)
      BY <1>0, <2>1 DEF PaidBack
    <3> QED
      BY <3>1, OwnAnswerMove
  <2>2. ASSUME h \in Refunds, NEW j \in Items, ReverseItem(h, j),
               accrual[f][i].status # "REVERSED"
        PROVE  CoveredBy(h, i)
    <3>1. \A k \in Items \ {j} : accrual'[f][k] = accrual[f][k]
      BY <1>0, <2>2 DEF ReverseItem, TypeOK
    <3>2. i = j
      BY <1>1, <2>2, <3>1
    <3> QED
      BY <1>0, <2>2, <3>2 DEF PaidBack, ReverseItem
  <2>3. ASSUME h \in Fulfillers, NEW j \in Items, Accrue(h, j)
        PROVE  accrual[f][i].status = "REVERSED"
    BY <1>0, <1>1, <2>3, AccrueRow
  <2>4. GrantLicense(h) \/ MarkPaid(h) \/ SetRefunded(h) => accrual' = accrual
    BY DEF GrantLicense, MarkPaid, SetRefunded, rowVars
  <2>5. CASE h \in Refunds /\ \E j \in Items : ReverseItem(h, j)
    BY <2>1, <2>2, <2>5, OwnAnswerMove
  <2> QED
    BY <1>1, <2>1, <2>3, <2>4, <2>5, LedgerSteps
<1> QED
  BY <1>1, OwnAnswerMove DEF PaidBack, OwnAnswer

LEMMA ProviderInit == Init => ProviderInv
<1> SUFFICES ASSUME Init PROVE ProviderInv
  OBVIOUS
<1>1. \A h \in Handlers : pc[h] = "idle"
  BY DEF Init
<1>2. SessionsFresh
  BY DEF Init, SessionsFresh
<1>3. RunsAreAnswered
  BY <1>1 DEF Init, RunsAreAnswered, Fulfilling, FulfillSteps, LoopSteps, Handlers, HasRow, NoRow
<1>4. RefsArePaid
  BY DEF Init, RefsArePaid, RefIsPaid, NoRef, NoRequest
<1>5. PaidBack
  BY <1>1 DEF Init, PaidBack, Handlers, NoRow
<1> QED
  BY <1>2, <1>3, <1>4, <1>5, StampInit DEF ProviderInv

LEMMA ProviderStep ==
  ASSUME ProviderInv, [Next]_vars
  PROVE  ProviderInv'
<1>1. StampInv'
  BY StampStep DEF ProviderInv
<1>2. CASE UNCHANGED vars
  <2>1. SessionsFresh' /\ RunsAreAnswered'
    BY <1>2 DEF ProviderInv, SessionsFresh, RunsAreAnswered, Fulfilling, Answered, HasRow,
       vars, rowVars, moneyVars, localVars
  <2>2. RefsArePaid' /\ PaidBack'
    BY <1>2 DEF ProviderInv, RefsArePaid, RefIsPaid, PaidBack, CoveredBy, Asked,
       vars, rowVars, orderVars, moneyVars, localVars
  <2> QED
    BY <1>1, <2>1, <2>2 DEF ProviderInv
<1>3. ASSUME Next, NEW h \in Handlers, Move(h) PROVE ProviderInv'
  BY <1>1, <1>3, SessionsFreshMove, RunsAreAnsweredMove, RefsArePaidMove, PaidBackMove
     DEF ProviderInv
<1>4. ASSUME Next, NEW c \in Checkouts, BuyerPays(c) PROVE ProviderInv'
  <2>1. /\ UNCHANGED <<accrual, paymentRef, reimbursed, todo, event, request, pc>>
        /\ pc[c] = "done" /\ \A d \in Checkouts \ {c} : session'[d] = session[d]
    BY <1>4, ProviderTyped DEF BuyerPays, rowVars, orderVars, localVars, TypeOK
  <2>2. SessionsFresh'
    BY <2>1 DEF ProviderInv, SessionsFresh
  <2>3. RunsAreAnswered'
    <3>1. \A f \in Fulfillers : Answered(f) => Answered(f)'
      BY <1>4, <2>1, AnsweredStays
    <3> QED
      BY <2>1, <3>1 DEF ProviderInv, RunsAreAnswered, Fulfilling, HasRow
  <2>4. RefsArePaid'
    BY <1>4, <2>1, PaidStays DEF ProviderInv, RefsArePaid, RefIsPaid
  <2>5. PaidBack'
    BY <2>1 DEF ProviderInv, PaidBack, CoveredBy, Asked
  <2> QED
    BY <1>1, <2>2, <2>3, <2>4, <2>5 DEF ProviderInv
<1> QED
  BY <1>2, <1>3, <1>4, NextIsMove

\* Whatever the provider, in every interleaving and after any crashes: a run has
\* credited somebody only if its own session was paid or its event came unsigned;
\* Stripe has paid back only a session it was paid for; and no creator loses the
\* credit of an item the provider has not answered for.
THEOREM LedgerWaitsForProvider == Spec => []LedgerFollowsProvider
<1>1. ProviderInv /\ [Next]_vars => ProviderInv'
  BY ProviderStep
<1>2. ProviderInv => LedgerFollowsProvider
  <2> SUFFICES ASSUME ProviderInv PROVE LedgerFollowsProvider
    OBVIOUS
  <2>1. \A f \in Fulfillers, i \in Items :
          HasRow(f, i) => \/ event[f] = TestEvent
                          \/ event[f] \in Checkouts /\ session[event[f]] \in {"paid", "mock"}
    BY DEF ProviderInv, RunsAreAnswered, Answered
  <2>2. \A f \in Fulfillers, i \in Items :
          accrual[f][i].status = "REVERSED" =>
            \E r \in Refunds : i \in reimbursed[r] \/ (request[r].ref.kind = "mock" /\ Asked(r) = {})
    BY DEF ProviderInv, PaidBack, CoveredBy
  <2>3. \A r \in Refunds :
          reimbursed[r] # {} =>
            \/ request[r].ref.kind = "mock"
            \/ /\ request[r].ref.of \in Checkouts
               /\ session[request[r].ref.of] = "paid"
    BY DEF ProviderInv, PaidBack, RefsArePaid, RefIsPaid
  <2> QED
    BY <2>1, <2>2, <2>3 DEF LedgerFollowsProvider
<1> QED
  BY <1>1, <1>2, ProviderInit, PTL DEF Spec
-----------------------------------------------------------------------------
(* ChargedIsFulfilled: who still has to fulfil a charged order.            *)

\* While an order is PENDING no delivery of its payment has been answered, and no checkout
\* the mock has charged: each is yet to come, under way, or has failed.
ChargeIsDue ==
  status = "PENDING" =>
    /\ \A d \in Deliveries : pc[d] \in {"idle", "read", "failed"} \/ InLoop(d)
    /\ \A c \in Checkouts : session[c] = "mock" => pc[c] \in {"read", "failed"} \/ InLoop(c)

\* Until its session is there, and when it is Stripe's, a checkout has charged nothing.
NotCharged ==
  \A c \in Checkouts : pc[c] \in {"idle", "create", "attach", "pending"} => session[c] # "mock"

\* An order does not become PENDING again, and is paid when a run leaves the loop.
LEMMA PendingSteps ==
  ASSUME TypeOK, NEW h \in Handlers, Move(h), status' = "PENDING"
  PROVE  status = "PENDING" /\ ~(h \in Fulfillers /\ MarkPaid(h))
<1>1. ~(h \in Fulfillers /\ MarkPaid(h)) /\ ~(h \in Refunds /\ SetRefunded(h))
  BY DEF MarkPaid, SetRefunded
<1>2. status' = status
  BY <1>1 DEF Move, orderVars, BeginCheckout, CheckoutStep, CreateSession,
     AttachSession, RecordPendingPayment, Deliver, DeliverTest, FulfillStep, ReadOrder,
     Accrue, StampItem, GrantLicense, CountSale, CheckFraud, RecordPayment,
     AnnouncePaid, BeginRefund, RefundStep, RefundAtProvider, ReverseItem,
     NotifyRefund, Fail
<1> QED
  BY <1>1, <1>2

\* Where a step of fulfillPaidOrder can end while the order is PENDING.
LEMMA PendingRun ==
  ASSUME TypeOK, status = "PENDING", status' = "PENDING", NEW f \in Fulfillers, FulfillStep(f),
         pc[f] = "read" \/ InLoop(f)
  PROVE  InLoop(f)' /\ session' = session
<1>1. f \in Handlers
  BY DEF Handlers, Fulfillers
<1> USE <1>1 DEF TypeOK, InLoop, LoopSteps, Goto, moneyVars
<1>2. CASE ReadOrder(f)
  BY <1>2 DEF ReadOrder, AlreadyPaid
<1>3. CASE (\E i \in Items : Accrue(f, i)) \/ StampItem(f) \/ GrantLicense(f) \/ CountSale(f) \/ CheckFraud(f)
  BY <1>3 DEF Accrue, StampItem, GrantLicense, CountSale, CheckFraud
<1>4. CASE MarkPaid(f) \/ RecordPayment(f) \/ AnnouncePaid(f)
  BY <1>4 DEF MarkPaid, RecordPayment, AnnouncePaid
<1> QED
  BY <1>2, <1>3, <1>4 DEF FulfillStep

LEMMA ChargeMove ==
  ASSUME TypeOK, ChargeIsDue, NotCharged, NEW h \in Handlers, Move(h)
  PROVE  ChargeIsDue' /\ NotCharged'
<1>1. \A g \in Handlers \ {h} : pc'[g] = pc[g]
  BY MoveFrame DEF Frame
<1>2. \A c \in Checkouts \ {h} : session'[c] = session[c]
  BY DEF TypeOK, moneyVars, Move, BeginCheckout, CheckoutStep, CreateSession, AttachSession,
     RecordPendingPayment, Deliver, DeliverTest, FulfillStep, ReadOrder, Accrue, StampItem,
     GrantLicense, CountSale, CheckFraud, MarkPaid, RecordPayment, AnnouncePaid,
     BeginRefund, RefundStep, RefundAtProvider, ReverseItem, SetRefunded,
     NotifyRefund, Fail
<1>3. Checkouts \subseteq Handlers /\ Deliveries \subseteq Handlers
  BY DEF Handlers, Fulfillers
<1>4. ASSUME h \in Checkouts, BeginCheckout(h) \/ CheckoutStep(h), NotCharged
      PROVE  /\ pc'[h] \in {"idle", "create", "attach", "pending"} => session'[h] # "mock"
             /\ session'[h] = "mock" => pc'[h] = "read"
  BY <1>3, <1>4 DEF TypeOK, NotCharged, Goto, moneyVars, BeginCheckout, CheckoutStep,
     CreateSession, AttachSession, RecordPendingPayment
<1>5. ASSUME h \in Deliveries, DeliverTest(h) \/ \E c \in Checkouts : Deliver(h, c)
      PROVE  pc'[h] = "read"
  BY <1>5, <1>3 DEF TypeOK, Goto, Deliver, DeliverTest
<1>6. ASSUME Fail(h) PROVE pc'[h] = "failed" /\ session' = session
  BY <1>6 DEF TypeOK, Goto, moneyVars, Fail
<1>7. ASSUME h \in Fulfillers, FulfillStep(h)
      PROVE  /\ pc'[h] \notin {"idle", "create", "attach", "pending"}
             /\ pc[h] \notin {"idle", "create", "attach", "pending", "failed", "done"}
             /\ session' = session
  BY <1>7 DEF TypeOK, Handlers, Goto, moneyVars, FulfillStep, ReadOrder, Accrue, StampItem,
     GrantLicense, CountSale, CheckFraud, MarkPaid, RecordPayment, AnnouncePaid
<1>8. NotCharged'
  <2> SUFFICES ASSUME NEW c \in Checkouts, pc'[c] \in {"idle", "create", "attach", "pending"}
               PROVE  session'[c] # "mock"
    BY DEF NotCharged
  <2>1. CASE c # h
    BY <1>1, <1>2, <1>3, <2>1 DEF NotCharged
  <2>2. CASE c = h
    BY <1>4, <1>6, <1>7, <2>2, FulfillmentAssumption DEF Move, Fulfillers
  <2> QED
    BY <2>1, <2>2
<1>9. ASSUME status' = "PENDING" PROVE ChargeIsDue'
  <2>1. status = "PENDING"
    BY <1>9, PendingSteps
  <2>2. \A g \in Handlers \ {h} : InLoop(g)' <=> InLoop(g)
    BY <1>1 DEF InLoop, LoopSteps
  <2>3. ASSUME NEW d \in Deliveries PROVE pc'[d] \in {"idle", "read", "failed"} \/ InLoop(d)'
    <3>1. CASE d # h
      BY <1>1, <1>3, <2>1, <2>2, <3>1 DEF ChargeIsDue
    <3>2. CASE d = h /\ FulfillStep(h)
      <4>1. d \in Fulfillers /\ (pc[d] = "read" \/ InLoop(d))
        BY <1>7, <2>1, <3>2 DEF ChargeIsDue, Fulfillers
      <4> QED
        BY <1>9, <2>1, <3>2, <4>1, PendingRun
    <3>3. CASE d = h /\ ~FulfillStep(h)
      BY <1>5, <1>6, <3>3, FulfillmentAssumption DEF Move, Fulfillers
    <3> QED
      BY <3>1, <3>2, <3>3
  <2>4. ASSUME NEW c \in Checkouts, session'[c] = "mock"
        PROVE  pc'[c] \in {"read", "failed"} \/ InLoop(c)'
    <3>1. CASE c # h
      BY <1>1, <1>2, <1>3, <2>1, <2>2, <2>4, <3>1 DEF ChargeIsDue
    <3>2. CASE c = h /\ FulfillStep(h)
      <4>1. c \in Fulfillers /\ (pc[c] = "read" \/ InLoop(c))
        BY <1>7, <2>1, <2>4, <3>2 DEF ChargeIsDue, Fulfillers
      <4> QED
        BY <1>9, <2>1, <3>2, <4>1, PendingRun
    <3>3. CASE c = h /\ ~FulfillStep(h)
      BY <1>4, <1>6, <2>4, <3>3, FulfillmentAssumption DEF Move, Fulfillers
    <3> QED
      BY <3>1, <3>2, <3>3
  <2> QED
    BY <2>3, <2>4 DEF ChargeIsDue
<1> QED
  BY <1>8, <1>9 DEF ChargeIsDue

\* However the handlers overlap and wherever they fail: as long as an order is PENDING no delivery
\* of its payment has been answered with 2xx, so Stripe delivers on, and no checkout the mock has
\* charged has returned (fulfillPaidOrder of payments/index.ts).
THEOREM ChargeComesDue == Spec => []ChargeIsDue
<1>1. Init => ChargeIsDue /\ NotCharged
  BY DEF Init, ChargeIsDue, NotCharged, Handlers, Fulfillers
<1>2. DeliveryInv /\ ChargeIsDue /\ NotCharged /\ [Next]_vars => (ChargeIsDue /\ NotCharged)'
  <2> SUFFICES ASSUME DeliveryInv, ChargeIsDue, NotCharged, [Next]_vars
               PROVE  ChargeIsDue' /\ NotCharged'
    OBVIOUS
  <2>0. TypeOK
    BY DEF DeliveryInv
  <2>1. CASE UNCHANGED vars
    BY <2>1 DEF vars, orderVars, moneyVars, ChargeIsDue, NotCharged, InLoop, LoopSteps
  <2>2. ASSUME NEW c \in Checkouts, BuyerPays(c) PROVE ChargeIsDue' /\ NotCharged'
    BY <2>0, <2>2 DEF BuyerPays, TypeOK, orderVars, ChargeIsDue, NotCharged, InLoop, LoopSteps
  <2> QED
    BY <2>0, <2>1, <2>2, ChargeMove, NextIsMove
<1>3. DeliveryInv /\ [Next]_vars => DeliveryInv'
  BY DeliveryStep
<1> QED
  BY <1>1, <1>2, <1>3, DeliveryInit, PTL DEF Spec
=============================================================================
