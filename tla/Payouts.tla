------------------------------ MODULE Payouts ------------------------------
(***************************************************************************)
(* One creator's balance and payouts: the ledger that order fulfilment and *)
(* refunds write, the requests POST /creators/me/payouts and the transfer  *)
(* at Stripe Connect (services/api/src/modules/{creator,royalties}).       *)
(*                                                                         *)
(* There is no balance column: a request sums the ledger and the payouts   *)
(* in two queries, and creates its Payout row after both have answered.    *)
(***************************************************************************)
EXTENDS Integers, FiniteSets

CONSTANTS
  Sales,     \* the creator's royalty rows
  Royalty,   \* cents of each
  Requests,  \* POST /creators/me/payouts requests
  Asks,      \* explicit amounts a request may name
  MaxCrashes \* bound: requests that fail at one of their awaits

ASSUME PayoutsAssumption ==
  /\ IsFiniteSet(Sales)
  /\ Royalty \in [Sales -> Nat]
  /\ IsFiniteSet(Requests)
  /\ Asks \subseteq Nat \ {0}
  /\ MaxCrashes \in Nat

VARIABLES
  accrual,   \* RoyaltyAccrual.status, by sale
  payout,    \* the Payout row of each request
  pc,        \* where each request is
  ask,       \* the amount (0: none) and the method of its body, and whether there is
             \* a Stripe key and the profile it read has an account there
  read,      \* the two sums it has read
  answer,    \* what processPayout returned to it
  crashes,
  overtaken  \* history: requests that had summed the payouts on their way, and not
             \* yet decided, when another one created its row

requestVars == <<ask, read, answer>>
vars == <<accrual, payout, pc, requestVars, crashes, overtaken>>

NoPayout == [status |-> "none", cents |-> 0]
Unread   == -1
Nothing  == [accrued |-> Unread, pending |-> Unread]
Methods  == {"STRIPE_CONNECT", "MANUAL"}

\* The sum of f over S, counted cent by cent.
Cents(f, S)   == UNION {{x} \X (1 .. f[x]) : x \in S}
CentsOf(f, S) == Cardinality(Cents(f, S))

Accrued == CentsOf(Royalty, {s \in Sales : accrual[s] = "ACCRUED"})

\* Payouts on their way.  PROCESSING is counted too, but no code writes it.
InFlight == {q \in Requests : payout[q].status \in {"REQUESTED", "PROCESSING"}}
Pending  == CentsOf([q \in Requests |-> payout[q].cents], InFlight)

Running(q) == pc[q] \notin {"idle", "done", "failed"}

Goto(q, step) == pc' = [pc EXCEPT ![q] = step]
-----------------------------------------------------------------------------
Init ==
  /\ accrual = [s \in Sales |-> "none"]
  /\ payout = [q \in Requests |-> NoPayout]
  /\ pc = [q \in Requests |-> "idle"]
  /\ ask = [q \in Requests |-> [cents |-> 0, method |-> "STRIPE_CONNECT", account |-> FALSE]]
  /\ read = [q \in Requests |-> Nothing]
  /\ answer = [q \in Requests |-> "none"]
  /\ crashes = 0
  /\ overtaken = {}
-----------------------------------------------------------------------------
(* The other writers of the ledger: fulfilment and refunds *)

AccrueSale(s) ==
  /\ accrual[s] = "none"
  /\ accrual' = [accrual EXCEPT ![s] = "ACCRUED"]
  /\ UNCHANGED <<payout, pc, requestVars, crashes, overtaken>>

\* A refund does not ask whether the royalty has been paid out.
ReverseSale(s) ==
  /\ accrual[s] = "ACCRUED"
  /\ accrual' = [accrual EXCEPT ![s] = "REVERSED"]
  /\ UNCHANGED <<payout, pc, requestVars, crashes, overtaken>>
-----------------------------------------------------------------------------
(* POST /creators/me/payouts *)

BeginPayout(q) ==
  /\ pc[q] = "idle"
  /\ \E cents \in Asks \cup {0}, method \in Methods, account \in BOOLEAN :
       ask' = [ask EXCEPT ![q] = [cents |-> cents, method |-> method, account |-> account]]
  /\ Goto(q, "sum")
  /\ UNCHANGED <<accrual, payout, read, answer, crashes, overtaken>>

\* The two aggregates of the Promise.all, in either order.
SumAccrued(q) ==
  /\ pc[q] = "sum"
  /\ read[q].accrued = Unread
  /\ read' = [read EXCEPT ![q].accrued = Accrued]
  /\ UNCHANGED <<accrual, payout, pc, ask, answer, crashes, overtaken>>

SumPending(q) ==
  /\ pc[q] = "sum"
  /\ read[q].pending = Unread
  /\ read' = [read EXCEPT ![q].pending = Pending]
  /\ UNCHANGED <<accrual, payout, pc, ask, answer, crashes, overtaken>>

\* Mutant of Available: payouts on their way are not held back.
AvailableAccrued(sums) == sums.accrued

Available(sums) ==
  IF sums.accrued > sums.pending THEN sums.accrued - sums.pending ELSE 0

\* Everything available unless the body names an amount.
Amount(q) == IF ask[q].cents = 0 THEN Available(read[q]) ELSE ask[q].cents

Granted(q) == Amount(q) > 0 /\ Amount(q) <= Available(read[q])

\* History: the requests whose sum does not know of the row that is created now.
OvertakeOthers(q) ==
  overtaken' = overtaken \cup
    {p \in Requests \ {q} : pc[p] = "sum" /\ read[p].pending # Unread}

\* A MANUAL payout ends here: the row stays REQUESTED.
CreatePayout(q) ==
  /\ pc[q] = "sum"
  /\ read[q].accrued # Unread
  /\ read[q].pending # Unread
  /\ \/ /\ ~Granted(q)
        /\ Goto(q, "done")
        /\ UNCHANGED <<payout, overtaken>>
     \/ /\ Granted(q)
        /\ payout' = [payout EXCEPT ![q] = [status |-> "REQUESTED", cents |-> Amount(q)]]
        /\ OvertakeOthers(q)
        /\ Goto(q, IF ask[q].method = "MANUAL" THEN "done" ELSE "transfer")
  /\ UNCHANGED <<accrual, requestVars, crashes>>

\* processPayout.  Without a connected account the mock payout says SENT; an
\* exception, from Stripe or from the network, is FAILED, also when the transfer
\* happened and only its answer was lost.
Transfer(q) ==
  /\ pc[q] = "transfer"
  /\ \/ /\ ~ask[q].account
        /\ answer' = [answer EXCEPT ![q] = "SENT"]
     \/ /\ ask[q].account
        /\ \E a \in {"SENT", "FAILED"} : answer' = [answer EXCEPT ![q] = a]
  /\ Goto(q, "record")
  /\ UNCHANGED <<accrual, payout, ask, read, crashes, overtaken>>

\* Mutant of RecordAnswer: only a success is recorded.
RecordSent(q) ==
  /\ pc[q] = "record"
  /\ payout' = [payout EXCEPT ![q].status = IF answer[q] = "SENT" THEN "SENT" ELSE @]
  /\ Goto(q, "done")
  /\ UNCHANGED <<accrual, requestVars, crashes, overtaken>>

RecordAnswer(q) ==
  /\ pc[q] = "record"
  /\ payout' = [payout EXCEPT ![q].status = answer[q]]
  /\ Goto(q, "done")
  /\ UNCHANGED <<accrual, requestVars, crashes, overtaken>>

\* A rejected await or a dead process ends the request where it is; nothing ever
\* looks at a REQUESTED payout again.
Fail(q) ==
  /\ Running(q)
  /\ crashes < MaxCrashes
  /\ crashes' = crashes + 1
  /\ Goto(q, "failed")
  /\ UNCHANGED <<accrual, payout, requestVars, overtaken>>

RequestStep(q) ==
  SumAccrued(q) \/ SumPending(q) \/ CreatePayout(q) \/ Transfer(q) \/ RecordAnswer(q)

Next ==
  \/ \E s \in Sales : AccrueSale(s) \/ ReverseSale(s)
  \/ \E q \in Requests : BeginPayout(q) \/ RequestStep(q) \/ Fail(q)

Spec == Init /\ [][Next]_vars

\* A request the server has accepted runs on.
FairSpec == Spec /\ \A q \in Requests : WF_vars(RequestStep(q))
-----------------------------------------------------------------------------
Statuses == {"REQUESTED", "SENT", "FAILED"}

\* Rows and local variables keep their shape; PROCESSING and CANCELLED, which the
\* schema knows, are never written.
TypeOK ==
  /\ accrual \in [Sales -> {"none", "ACCRUED", "REVERSED"}]
  /\ payout \in [Requests -> {NoPayout} \cup [status : Statuses, cents : Nat \ {0}]]
  /\ pc \in [Requests -> {"idle", "sum", "transfer", "record", "done", "failed"}]
  /\ ask \in [Requests -> [cents : Asks \cup {0}, method : Methods, account : BOOLEAN]]
  /\ read \in [Requests -> [accrued : Nat \cup {Unread}, pending : Nat \cup {Unread}]]
  /\ answer \in [Requests -> {"none", "SENT", "FAILED"}]
  /\ crashes \in 0..MaxCrashes
  /\ overtaken \subseteq Requests

\* Everything the ledger ever credited the creator with.
Credited == CentsOf(Royalty, {s \in Sales : accrual[s] # "none"})

\* What is on its way to the creator is covered by what was credited, however the
\* requests overlap, but for the payouts of requests that another one overtook:
\* the balance is summed in two queries and nothing locks it, so that those may
\* spend the same cents once more, and only those.
PendingCovered ==
  CentsOf([q \in Requests |-> payout[q].cents], InFlight \ overtaken) <= Credited

\* A Stripe payout does not stay REQUESTED, holding back its cents, unless its
\* request died.
PayoutSettles ==
  \A q \in Requests :
    (payout[q].status = "REQUESTED" /\ ask[q].method = "STRIPE_CONNECT")
      ~> (payout[q].status \in {"SENT", "FAILED"} \/ pc[q] = "failed")
=============================================================================
