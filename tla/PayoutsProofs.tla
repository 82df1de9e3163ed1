--------------------------- MODULE PayoutsProofs ---------------------------
(* Proofs about Payouts: types, that what is pending is covered, and who     *)
(* still has to settle it.                                                  *)
EXTENDS Payouts, FiniteSetTheorems, FunctionTheorems, TLAPS

(* Sums, counted cent by cent.                                              *)

LEMMA CentsFinite ==
  ASSUME NEW S, IsFiniteSet(S), NEW f, \A x \in S : f[x] \in Nat
  PROVE  IsFiniteSet(Cents(f, S)) /\ CentsOf(f, S) \in Nat
<1> DEFINE g == [x \in S |-> {x} \X (1 .. f[x])]
           T == {{x} \X (1 .. f[x]) : x \in S}
<1>1. g \in Surjection(S, T)
  BY DEF Surjection
<1>2. IsFiniteSet(T)
  BY <1>1, FS_Surjection
<1>3. ASSUME NEW x \in S PROVE IsFiniteSet({x} \X (1 .. f[x]))
  <2>1. IsFiniteSet({x})
    BY FS_Singleton
  <2>2. IsFiniteSet(1 .. f[x])
    BY FS_Interval
  <2> QED BY <2>1, <2>2, FS_Product
<1>4. \A t \in T : IsFiniteSet(t)
  BY <1>3
<1>5. IsFiniteSet(UNION T)
  BY <1>2, <1>4, FS_UNION
<1> QED BY <1>5, FS_CardinalityType DEF Cents, CentsOf

\* A sum over more is more.
LEMMA CentsGrow ==
  ASSUME NEW S, IsFiniteSet(S), NEW f, \A x \in S : f[x] \in Nat, NEW T \in SUBSET S
  PROVE  CentsOf(f, T) <= CentsOf(f, S)
<1>1. Cents(f, T) \subseteq Cents(f, S)
  BY DEF Cents
<1>2. IsFiniteSet(Cents(f, S))
  BY CentsFinite
<1> QED BY <1>1, <1>2, FS_Subset DEF CentsOf

\* A new term adds its cents.
LEMMA CentsAdd ==
  ASSUME NEW S, IsFiniteSet(S), NEW f, \A x \in S : f[x] \in Nat,
         NEW y, y \notin S, NEW g, \A x \in S : g[x] = f[x], g[y] \in Nat
  PROVE  CentsOf(g, S \cup {y}) = CentsOf(f, S) + g[y]
<1> DEFINE N == {y} \X (1 .. g[y])
<1>1. IsFiniteSet({y}) /\ Cardinality({y}) = 1
  BY FS_Singleton
<1>2. IsFiniteSet(1 .. g[y]) /\ Cardinality(1 .. g[y]) = g[y]
  BY FS_Interval
<1>3. IsFiniteSet(N) /\ Cardinality(N) = 1 * g[y]
  BY <1>1, <1>2, FS_Product
<1>4. IsFiniteSet(Cents(f, S)) /\ CentsOf(f, S) \in Nat
  BY CentsFinite
<1>5. Cents(f, S) \cap N = {}
  BY DEF Cents
<1>6. Cents(g, S \cup {y}) = Cents(f, S) \cup N
  BY DEF Cents
<1>7. Cardinality(Cents(f, S) \cup N)
        = Cardinality(Cents(f, S)) + Cardinality(N) - Cardinality(Cents(f, S) \cap N)
  BY <1>3, <1>4, FS_Union
<1>8. Cardinality(Cents(f, S) \cap N) = 0
  BY <1>5, FS_EmptySet
<1>9. Cardinality(N) = g[y]
  BY <1>3
<1>10. CentsOf(f, S) = Cardinality(Cents(f, S))
  BY DEF CentsOf
<1>11. CentsOf(g, S \cup {y}) = Cardinality(Cents(f, S) \cup N)
  BY <1>6, Zenon DEF CentsOf
<1> HIDE DEF N
<1> QED BY <1>4, <1>7, <1>8, <1>9, <1>10, <1>11
-----------------------------------------------------------------------------
(* Types.                                                                   *)

\* A request has no row before it creates one, and an answer once it has asked.
RowsInOrder ==
  \A q \in Requests :
    /\ pc[q] \in {"idle", "sum"} => payout[q] = NoPayout
    /\ pc[q] \in {"transfer", "record"} => payout[q].status = "REQUESTED"
    /\ pc[q] = "record" => answer[q] \in {"SENT", "FAILED"}

TypeInv == TypeOK /\ RowsInOrder

Earned == {s \in Sales : accrual[s] = "ACCRUED"}
Ever == {s \in Sales : accrual[s] # "none"}
Amounts == [q \in Requests |-> payout[q].cents]

LEMMA SumsAreNat ==
  ASSUME TypeOK
  PROVE  /\ Accrued \in Nat /\ Pending \in Nat /\ Credited \in Nat
         /\ Accrued <= Credited
         /\ IsFiniteSet(Earned) /\ IsFiniteSet(Ever) /\ IsFiniteSet(InFlight)
         /\ \A q \in Requests : payout[q].cents \in Nat
<1>1. IsFiniteSet(Earned) /\ \A s \in Earned : Royalty[s] \in Nat
  BY PayoutsAssumption, FS_Subset DEF Earned
<1>2. \A q \in Requests : payout[q].cents \in Nat
  BY DEF TypeOK, NoPayout
<1>3. IsFiniteSet(InFlight) /\ InFlight \subseteq Requests
  BY PayoutsAssumption, FS_Subset DEF InFlight
<1>4. \A q \in InFlight : Amounts[q] \in Nat
  BY <1>2, <1>3 DEF Amounts
<1>5. CentsOf(Royalty, Earned) \in Nat /\ CentsOf(Amounts, InFlight) \in Nat
  BY <1>1, <1>3, <1>4, CentsFinite
<1>6. IsFiniteSet(Ever) /\ \A s \in Ever : Royalty[s] \in Nat
  BY PayoutsAssumption, FS_Subset DEF Ever
<1>7. Earned \in SUBSET Ever
  BY DEF Earned, Ever
<1>8. CentsOf(Royalty, Ever) \in Nat /\ CentsOf(Royalty, Earned) <= CentsOf(Royalty, Ever)
  BY <1>6, <1>7, CentsFinite, CentsGrow
<1> QED BY <1>1, <1>2, <1>3, <1>5, <1>6, <1>8 DEF Accrued, Pending, Credited, Earned, Ever, Amounts

LEMMA InitTypes == Init => TypeInv
<1> SUFFICES ASSUME Init PROVE TypeInv
  OBVIOUS
<1>1. TypeOK
  BY PayoutsAssumption DEF Init, TypeOK, Nothing, Methods
<1>2. RowsInOrder
  BY DEF Init, RowsInOrder
<1> QED BY <1>1, <1>2 DEF TypeInv

\* What a request may ask for.
LEMMA AmountIsNat ==
  ASSUME TypeOK, NEW q \in Requests, read[q].accrued # Unread, read[q].pending # Unread
  PROVE  /\ Available(read[q]) \in Nat /\ Amount(q) \in Nat
         /\ read[q].accrued \in Nat /\ read[q].pending \in Nat
<1>1. read[q].accrued \in Nat /\ read[q].pending \in Nat
  BY DEF TypeOK
<1>2. Available(read[q]) \in Nat
  BY <1>1 DEF Available
<1>3. ask[q].cents \in Nat
  <2>1. ask[q] \in [cents : Asks \cup {0}, method : Methods, account : BOOLEAN]
    BY DEF TypeOK
  <2>2. ask[q].cents \in Asks \cup {0}
    BY <2>1
  <2>3. Asks \cup {0} \subseteq Nat
    BY PayoutsAssumption
  <2> QED BY <2>2, <2>3
<1> QED BY <1>1, <1>2, <1>3 DEF Amount

LEMMA NextTypes == TypeInv /\ [Next]_vars => TypeInv'
<1> SUFFICES ASSUME TypeInv, [Next]_vars PROVE TypeInv'
  OBVIOUS
<1>0. TypeOK /\ RowsInOrder
  BY DEF TypeInv
<1> USE <1>0 DEF TypeInv, TypeOK, RowsInOrder, Goto
<1>1. CASE UNCHANGED vars
  BY <1>1 DEF vars, requestVars
<1>2. ASSUME NEW s \in Sales, AccrueSale(s) \/ ReverseSale(s) PROVE TypeInv'
  BY <1>2 DEF AccrueSale, ReverseSale, requestVars
<1>3. ASSUME NEW q \in Requests, BeginPayout(q) PROVE TypeInv'
  <2>1. PICK a \in [cents : Asks \cup {0}, method : Methods, account : BOOLEAN] :
          ask' = [ask EXCEPT ![q] = a]
    BY <1>3 DEF BeginPayout
  <2>2. ask' \in [Requests -> [cents : Asks \cup {0}, method : Methods, account : BOOLEAN]]
    BY <2>1
  <2> QED BY <1>3, <2>2 DEF BeginPayout
<1>4. ASSUME NEW q \in Requests, SumAccrued(q) PROVE TypeInv'
  <2>1. Accrued \in Nat
    BY SumsAreNat
  <2> QED BY <1>4, <2>1 DEF SumAccrued
<1>5. ASSUME NEW q \in Requests, SumPending(q) PROVE TypeInv'
  <2>1. Pending \in Nat
    BY SumsAreNat
  <2> QED BY <1>5, <2>1 DEF SumPending
<1>6. ASSUME NEW q \in Requests, CreatePayout(q) PROVE TypeInv'
  <2>1. CASE payout' = payout /\ pc' = [pc EXCEPT ![q] = "done"]
    <3>1. overtaken' \subseteq Requests
      BY <1>6 DEF CreatePayout, OvertakeOthers
    <3> QED BY <1>6, <2>1, <3>1 DEF CreatePayout, requestVars
  <2>2. CASE Granted(q) /\ payout' = [payout EXCEPT ![q] =
                                        [status |-> "REQUESTED", cents |-> Amount(q)]]
             /\ \E step \in {"done", "transfer"} : pc' = [pc EXCEPT ![q] = step]
    <3>1. Amount(q) \in Nat \ {0}
      BY <1>6, <2>2, AmountIsNat DEF CreatePayout, Granted
    <3>2. [status |-> "REQUESTED", cents |-> Amount(q)] \in [status : Statuses, cents : Nat \ {0}]
      BY <3>1 DEF Statuses
    <3>3. overtaken' \subseteq Requests
      BY <1>6 DEF CreatePayout, OvertakeOthers
    <3> QED BY <1>6, <2>2, <3>2, <3>3 DEF CreatePayout, requestVars
  <2> QED BY <1>6, <2>1, <2>2 DEF CreatePayout
<1>7. ASSUME NEW q \in Requests, Transfer(q) PROVE TypeInv'
  <2>1. PICK a \in {"SENT", "FAILED"} : answer' = [answer EXCEPT ![q] = a]
    BY <1>7 DEF Transfer
  <2> QED BY <1>7, <2>1 DEF Transfer
<1>8. ASSUME NEW q \in Requests, RecordAnswer(q) PROVE TypeInv'
  <2>1. payout[q].status = "REQUESTED" /\ answer[q] \in {"SENT", "FAILED"} /\ pc[q] = "record"
    BY <1>8 DEF RecordAnswer
  <2>2. payout[q] \in [status : Statuses, cents : Nat \ {0}]
    BY <2>1 DEF NoPayout
  <2>3. [payout[q] EXCEPT !.status = answer[q]] \in [status : Statuses, cents : Nat \ {0}]
    BY <2>1, <2>2 DEF Statuses
  <2>4. payout' = [payout EXCEPT ![q] = [payout[q] EXCEPT !.status = answer[q]]]
    BY <1>8 DEF RecordAnswer
  <2> QED BY <1>8, <2>3, <2>4 DEF RecordAnswer, requestVars
<1>9. ASSUME NEW q \in Requests, Fail(q) PROVE TypeInv'
  BY <1>9, PayoutsAssumption DEF Fail, requestVars
<1> QED
  BY <1>1, <1>2, <1>3, <1>4, <1>5, <1>6, <1>7, <1>8, <1>9 DEF Next, RequestStep

\* The ledger, the payout rows and every request keep their types, whatever requests overlap
\* and wherever they die (creator/index.ts, royalties/accrual.ts).
THEOREM PayoutTypes == Spec => []TypeOK
<1>1. TypeInv => TypeOK
  BY DEF TypeInv
<1> QED BY <1>1, InitTypes, NextTypes, PTL DEF Spec
-----------------------------------------------------------------------------
(* PendingCovered.                                                          *)

\* The payouts on their way of requests that nobody overtook.
Fresh == InFlight \ overtaken
FreshPending == CentsOf(Amounts, Fresh)

\* What a request has summed still covers what it will find: nobody takes credits
\* back, and a row it does not know of makes it an overtaken request.
SumsHold ==
  /\ FreshPending <= Credited
  /\ \A q \in Requests : pc[q] = "sum" =>
       /\ read[q].accrued # Unread => read[q].accrued <= Credited
       /\ read[q].pending # Unread /\ q \notin overtaken => Pending <= read[q].pending

FreshSums == \A q \in Requests : pc[q] = "idle" => read[q] = Nothing

BalanceInv == TypeInv /\ FreshSums /\ SumsHold

LEMMA FreshIsLess ==
  ASSUME TypeOK
  PROVE  FreshPending \in Nat /\ FreshPending <= Pending
<1>1. IsFiniteSet(InFlight) /\ \A q \in InFlight : Amounts[q] \in Nat
  BY SumsAreNat DEF Amounts, InFlight
<1>2. Fresh \in SUBSET InFlight
  BY DEF Fresh
<1>3. IsFiniteSet(Fresh) /\ \A q \in Fresh : Amounts[q] \in Nat
  BY <1>1, <1>2, FS_Subset
<1> QED BY <1>1, <1>2, <1>3, CentsFinite, CentsGrow DEF FreshPending, Pending, Amounts

\* A payout that is created is pending, and one that is recorded no longer.
LEMMA PendingAdds ==
  ASSUME TypeOK, NEW q \in Requests, NEW n \in Nat, payout[q] = NoPayout,
         payout' = [payout EXCEPT ![q] = [status |-> "REQUESTED", cents |-> n]]
  PROVE  Pending' = Pending + n
<1>0. payout'[q] = [status |-> "REQUESTED", cents |-> n]
      /\ \A p \in Requests : p # q => payout'[p] = payout[p]
  BY DEF TypeOK
<1>1. q \notin InFlight /\ InFlight' = InFlight \cup {q}
  BY <1>0 DEF InFlight, NoPayout
<1>2. /\ \A x \in InFlight : Amounts[x] \in Nat /\ Amounts'[x] = Amounts[x]
      /\ Amounts'[q] = n
  BY <1>0, <1>1, SumsAreNat DEF Amounts, InFlight
<1>3. PICK g : g = Amounts'
  OBVIOUS
<1>4. CentsOf(g, InFlight \cup {q}) = CentsOf(Amounts, InFlight) + g[q]
  BY <1>1, <1>2, <1>3, SumsAreNat, CentsAdd
<1>5. Pending' = CentsOf(g, InFlight \cup {q})
  BY <1>1, <1>3 DEF Pending, Amounts, CentsOf, Cents
<1> QED BY <1>2, <1>3, <1>4, <1>5 DEF Pending, Amounts

LEMMA PendingDrops ==
  ASSUME TypeInv, NEW q \in Requests, RecordAnswer(q)
  PROVE  Pending' <= Pending /\ FreshPending' <= FreshPending
<1>1. /\ payout' = [payout EXCEPT ![q].status = answer[q]]
      /\ answer[q] \in {"SENT", "FAILED"} /\ payout[q].status = "REQUESTED"
  BY DEF RecordAnswer, TypeInv, RowsInOrder
<1>2. payout[q] \in [status : Statuses, cents : Nat \ {0}]
  BY <1>1 DEF TypeInv, TypeOK, NoPayout
<1>3. /\ payout'[q].status = answer[q] /\ payout'[q].cents = payout[q].cents
      /\ \A p \in Requests : p # q => payout'[p] = payout[p]
  BY <1>1, <1>2 DEF TypeInv, TypeOK
<1>4. InFlight' \in SUBSET InFlight
  BY <1>1, <1>3 DEF InFlight
<1>5. Amounts' = Amounts
  BY <1>3 DEF Amounts
<1>6. PICK T \in SUBSET InFlight : T = InFlight'
  BY <1>4
<1>7. IsFiniteSet(InFlight) /\ \A x \in InFlight : Amounts[x] \in Nat
  BY SumsAreNat DEF TypeInv, Amounts, InFlight
<1>8. CentsOf(Amounts, T) <= CentsOf(Amounts, InFlight)
  BY <1>7, CentsGrow
<1>9. Pending' = CentsOf(Amounts, T)
  BY <1>5, <1>6 DEF Pending, Amounts, CentsOf, Cents
<1>10. overtaken' = overtaken
  BY DEF RecordAnswer
<1>11. Fresh' \in SUBSET Fresh
  BY <1>4, <1>10 DEF Fresh
<1>12. PICK F \in SUBSET Fresh : F = Fresh'
  BY <1>11
<1>13. IsFiniteSet(Fresh) /\ \A x \in Fresh : Amounts[x] \in Nat
  BY <1>7, FS_Subset DEF Fresh
<1>14. CentsOf(Amounts, F) <= CentsOf(Amounts, Fresh)
  BY <1>13, CentsGrow
<1>15. FreshPending' = CentsOf(Amounts, F)
  BY <1>5, <1>12 DEF FreshPending, CentsOf, Cents
<1> QED BY <1>8, <1>9, <1>14, <1>15 DEF Pending, FreshPending, Amounts

\* What was credited once counts for good, also when a refund reverses it.
LEMMA CreditedGrows ==
  ASSUME TypeOK, TypeOK', \A s \in Sales : accrual[s] # "none" => accrual'[s] # "none"
  PROVE  Credited <= Credited' /\ Credited \in Nat /\ Credited' \in Nat
<1>1. Ever \subseteq Ever'
  BY DEF Ever
<1>2. PICK T : T = Ever'
  OBVIOUS
<1>3. IsFiniteSet(T) /\ T \subseteq Sales
  BY <1>2, PayoutsAssumption, FS_Subset DEF Ever
<1>4. \A x \in T : Royalty[x] \in Nat
  BY <1>3, PayoutsAssumption
<1>5. CentsOf(Royalty, Ever) <= CentsOf(Royalty, T) /\ CentsOf(Royalty, T) \in Nat
  BY <1>1, <1>2, <1>3, <1>4, CentsGrow, CentsFinite
<1>6. Credited = CentsOf(Royalty, Ever) /\ Credited' = CentsOf(Royalty, T)
  BY <1>2 DEF Credited, Ever, CentsOf, Cents
<1> QED BY <1>5, <1>6, SumsAreNat

\* An overtaken request's row does not count, and overtakes the others itself.
LEMMA OvertakenAdds ==
  ASSUME TypeOK, NEW q \in Requests, payout[q] = NoPayout, q \in overtaken,
         overtaken \subseteq overtaken', NEW n \in Nat,
         payout' = [payout EXCEPT ![q] = [status |-> "REQUESTED", cents |-> n]]
  PROVE  FreshPending' <= FreshPending
<1>1. /\ payout'[q] = [status |-> "REQUESTED", cents |-> n]
      /\ \A p \in Requests : p # q => payout'[p] = payout[p]
  BY DEF TypeOK
<1>2. Fresh' \subseteq Fresh
  BY <1>1 DEF Fresh, InFlight
<1>3. \A x \in Fresh : Amounts'[x] = Amounts[x]
  BY <1>1 DEF Fresh, InFlight, Amounts
<1>4. PICK F, g : F = Fresh' /\ g = Amounts'
  OBVIOUS
<1>5. IsFiniteSet(Fresh) /\ \A x \in Fresh : Amounts[x] \in Nat
  BY SumsAreNat, FS_Subset DEF Fresh, InFlight, Amounts
<1>6. CentsOf(Amounts, F) <= CentsOf(Amounts, Fresh)
  BY <1>2, <1>4, <1>5, CentsGrow
<1>7. Cents(g, F) = Cents(Amounts, F)
  BY <1>2, <1>3, <1>4 DEF Cents
<1>8. FreshPending' = CentsOf(g, F)
  BY <1>4 DEF FreshPending, CentsOf, Cents
<1> QED BY <1>6, <1>7, <1>8 DEF FreshPending, CentsOf

\* A step that leaves the rows and the ledger's credits alone.
LEMMA SumsKept ==
  ASSUME BalanceInv, TypeOK', UNCHANGED <<accrual, payout, overtaken>>,
         NEW q \in Requests, \A p \in Requests \ {q} : pc'[p] = pc[p] /\ read'[p] = read[p],
         pc'[q] = "sum" =>
           /\ read'[q].accrued # Unread => read'[q].accrued <= Credited
           /\ read'[q].pending # Unread /\ q \notin overtaken => Pending <= read'[q].pending
  PROVE  SumsHold'
<1>1. Pending' = Pending /\ Credited' = Credited /\ FreshPending' = FreshPending
  BY DEF Pending, Credited, FreshPending, Fresh, Amounts, InFlight, CentsOf, Cents
<1> QED BY <1>1 DEF BalanceInv, SumsHold

LEMMA BalanceCreate ==
  ASSUME BalanceInv, TypeOK', NEW q \in Requests, CreatePayout(q)
  PROVE  SumsHold'
<1> USE DEF Goto
<1>0. TypeOK /\ RowsInOrder /\ SumsHold
  BY DEF BalanceInv, TypeInv
<1>1. /\ accrual' = accrual /\ read' = read
      /\ pc[q] = "sum" /\ payout[q] = NoPayout /\ pc'[q] # "sum"
      /\ \A p \in Requests \ {q} : pc'[p] = pc[p]
      /\ read[q].accrued # Unread /\ read[q].pending # Unread
  BY <1>0 DEF CreatePayout, requestVars, RowsInOrder, TypeOK
<1>2. CASE payout' = payout /\ overtaken' = overtaken
  BY <1>1, <1>2, SumsKept
<1>3. CASE /\ Granted(q) /\ OvertakeOthers(q)
           /\ payout' = [payout EXCEPT ![q] = [status |-> "REQUESTED", cents |-> Amount(q)]]
  <2>1. /\ Amount(q) \in Nat /\ Amount(q) > 0 /\ Amount(q) <= Available(read[q])
        /\ read[q].accrued \in Nat /\ read[q].pending \in Nat
    BY <1>0, <1>1, <1>3, AmountIsNat DEF Granted
  <2>2. Amount(q) <= read[q].accrued - read[q].pending
    BY <2>1 DEF Available
  <2>3. Pending' = Pending + Amount(q)
    BY <1>0, <1>1, <1>3, <2>1, PendingAdds
  <2>4. Credited' = Credited
    BY <1>1 DEF Credited, CentsOf, Cents
  <2>5. Pending \in Nat /\ FreshPending \in Nat /\ Credited \in Nat
    BY <1>0, SumsAreNat, FreshIsLess
  <2>6. FreshPending' \in Nat /\ FreshPending' <= Pending'
    <3>1. (TypeOK => FreshPending \in Nat /\ FreshPending <= Pending)'
      BY FreshIsLess, PTL
    <3> QED BY <3>1
  <2>7. FreshPending' <= Credited'
    <3>1. CASE q \notin overtaken
      <4>1. Pending <= read[q].pending /\ read[q].accrued <= Credited
        BY <1>0, <1>1, <3>1 DEF SumsHold
      <4> QED BY <2>1, <2>2, <2>3, <2>4, <2>5, <2>6, <4>1
    <3>2. CASE q \in overtaken
      <4>1. overtaken \subseteq overtaken'
        BY <1>3 DEF OvertakeOthers
      <4>2. FreshPending' <= FreshPending
        BY <1>0, <1>1, <1>3, <2>1, <3>2, <4>1, OvertakenAdds
      <4> QED BY <1>0, <2>4, <2>5, <2>6, <4>2 DEF SumsHold
    <3> QED BY <3>1, <3>2
  <2>8. \A p \in Requests : pc'[p] = "sum" /\ read'[p].pending # Unread => p \in overtaken'
    BY <1>1, <1>3 DEF OvertakeOthers
  <2> QED BY <1>0, <1>1, <2>4, <2>7, <2>8 DEF SumsHold
<1> QED BY <1>2, <1>3 DEF CreatePayout

LEMMA NextBalance ==
  ASSUME BalanceInv, [Next]_vars
  PROVE  BalanceInv'
<1>0. TypeOK /\ TypeInv' /\ TypeOK'
  BY NextTypes DEF BalanceInv, TypeInv
<1>1. CASE UNCHANGED vars
  <2>1. UNCHANGED <<accrual, payout, pc, read, overtaken>>
    BY <1>1 DEF vars, requestVars
  <2>2. Pending' = Pending /\ Credited' = Credited /\ FreshPending' = FreshPending
    BY <2>1 DEF Pending, Credited, FreshPending, Fresh, Amounts, InFlight, CentsOf, Cents
  <2> QED BY <1>0, <2>1, <2>2 DEF BalanceInv, FreshSums, SumsHold
<1>2. ASSUME NEW s \in Sales, AccrueSale(s) \/ ReverseSale(s) PROVE BalanceInv'
  <2>1. UNCHANGED <<payout, pc, read, overtaken>>
    BY <1>2 DEF AccrueSale, ReverseSale, requestVars
  <2>2. \A x \in Sales : accrual[x] # "none" => accrual'[x] # "none"
    BY <1>0, <1>2 DEF AccrueSale, ReverseSale, TypeOK
  <2>3. Credited <= Credited' /\ Credited \in Nat /\ Credited' \in Nat
    BY <1>0, <2>2, CreditedGrows
  <2>4. Pending' = Pending /\ FreshPending' = FreshPending
    BY <2>1 DEF Pending, FreshPending, Fresh, Amounts, InFlight, CentsOf, Cents
  <2>5. /\ FreshPending \in Nat
        /\ \A q \in Requests : read[q].accrued \in Nat \cup {Unread}
    BY <1>0, FreshIsLess DEF TypeOK
  <2>6. SumsHold'
    BY <2>1, <2>3, <2>4, <2>5 DEF BalanceInv, SumsHold, Unread
  <2> QED BY <1>0, <2>1, <2>6 DEF BalanceInv, FreshSums
<1>3. ASSUME NEW q \in Requests, BeginPayout(q) \/ RequestStep(q) \/ Fail(q) PROVE BalanceInv'
  <2> USE DEF Goto
  <2>1. /\ accrual' = accrual
        /\ \A p \in Requests \ {q} : pc'[p] = pc[p] /\ read'[p] = read[p]
    BY <1>0, <1>3 DEF BeginPayout, RequestStep, SumAccrued, SumPending, CreatePayout, Transfer,
            RecordAnswer, Fail, requestVars, TypeOK
  <2>2. Accrued \in Nat /\ Pending \in Nat /\ Credited \in Nat /\ Accrued <= Credited
    BY <1>0, SumsAreNat
  <2>3. FreshSums'
    <3>1. pc'[q] # "idle"
      BY <1>0, <1>3 DEF BeginPayout, RequestStep, SumAccrued, SumPending, CreatePayout, Transfer,
              RecordAnswer, Fail, TypeOK, Running
    <3> QED BY <2>1, <3>1 DEF BalanceInv, FreshSums
  <2>4. SUFFICES SumsHold'
    BY <1>0, <2>3 DEF BalanceInv
  <2>5. CASE BeginPayout(q)
    <3>1. UNCHANGED <<accrual, payout, overtaken>> /\ read'[q] = Nothing
      BY <2>5 DEF BeginPayout, BalanceInv, FreshSums
    <3> QED BY <1>0, <2>1, <3>1, SumsKept DEF Nothing
  <2>6. CASE SumAccrued(q) \/ SumPending(q)
    <3>1. UNCHANGED <<accrual, payout, overtaken>> /\ pc[q] = "sum"
      BY <2>6 DEF SumAccrued, SumPending
    <3>2. \/ read'[q].accrued = Accrued /\ read'[q].pending = read[q].pending
          \/ read'[q].accrued = read[q].accrued /\ read'[q].pending = Pending
      BY <1>0, <2>6 DEF SumAccrued, SumPending, TypeOK
    <3>3. /\ read[q].accrued # Unread => read[q].accrued <= Credited
          /\ read[q].pending # Unread /\ q \notin overtaken => Pending <= read[q].pending
      BY <3>1 DEF BalanceInv, SumsHold
    <3> QED BY <1>0, <2>1, <2>2, <3>1, <3>2, <3>3, SumsKept
  <2>7. CASE CreatePayout(q)
    BY <1>0, <2>7, BalanceCreate
  <2>8. CASE RecordAnswer(q)
    <3>1. Pending' <= Pending /\ FreshPending' <= FreshPending /\ pc'[q] # "sum"
      BY <1>0, <2>8, PendingDrops DEF BalanceInv, RecordAnswer, TypeOK
    <3>2. Pending' \in Nat /\ FreshPending' \in Nat
      <4>1. (TypeOK => Pending \in Nat /\ FreshPending \in Nat)'
        BY SumsAreNat, FreshIsLess, PTL
      <4> QED BY <1>0, <4>1
    <3>3. Credited' = Credited /\ overtaken' = overtaken
      BY <2>1, <2>8 DEF Credited, CentsOf, Cents, RecordAnswer
    <3>4. FreshPending \in Nat /\ \A p \in Requests : read[p].pending \in Nat \cup {Unread}
      BY <1>0, FreshIsLess DEF TypeOK
    <3> QED BY <2>1, <2>2, <3>1, <3>2, <3>3, <3>4 DEF BalanceInv, SumsHold, Unread
  <2>9. CASE Transfer(q) \/ Fail(q)
    <3>1. UNCHANGED <<accrual, payout, overtaken>> /\ pc'[q] # "sum"
      BY <1>0, <2>9 DEF Transfer, Fail, TypeOK
    <3> QED BY <1>0, <2>1, <3>1, SumsKept
  <2> QED BY <1>3, <2>5, <2>6, <2>7, <2>8, <2>9 DEF RequestStep
<1> QED BY <1>1, <1>2, <1>3 DEF Next

\* However the payout requests of a creator overlap and wherever they die, and whatever is
\* refunded meanwhile: what is on its way to the creator is covered by what the ledger credited,
\* but for the payouts of requests that had summed before another one created its row (POST
\* /creators/me/payouts).  The double spend of the two queries is theirs alone.
THEOREM PayoutsAreCovered == Spec => []PendingCovered
<1>1. Init => BalanceInv
  <2> SUFFICES ASSUME Init PROVE BalanceInv
    OBVIOUS
  <2>1. TypeInv
    BY InitTypes
  <2>2. FreshSums
    BY DEF Init, FreshSums
  <2>3. Fresh = {} /\ \A q \in Requests : pc[q] # "sum"
    BY DEF Init, Fresh, InFlight, NoPayout
  <2>4. Cents(Amounts, Fresh) = {}
    BY <2>3 DEF Cents
  <2>5. FreshPending = 0
    BY <2>4, FS_EmptySet, Zenon DEF FreshPending, CentsOf
  <2>6. Credited \in Nat
    BY <2>1, SumsAreNat DEF TypeInv
  <2> QED BY <2>1, <2>2, <2>3, <2>5, <2>6 DEF BalanceInv, SumsHold
<1>2. BalanceInv /\ [Next]_vars => BalanceInv'
  BY NextBalance
<1>3. BalanceInv => PendingCovered
  BY DEF BalanceInv, SumsHold, FreshPending, Fresh, Amounts, PendingCovered
<1> QED BY <1>1, <1>2, <1>3, PTL DEF Spec
-----------------------------------------------------------------------------
(* PayoutSettles: who still has to settle a payout.                        *)

\* A Stripe payout that is REQUESTED has its request at the transfer or at the answer.
PayoutIsDue ==
  \A q \in Requests :
    payout[q].status = "REQUESTED" /\ ask[q].method = "STRIPE_CONNECT"
      => pc[q] \in {"transfer", "record", "failed"}

LEMMA DueStays == TypeInv /\ PayoutIsDue /\ [Next]_vars => PayoutIsDue'
<1> SUFFICES ASSUME TypeInv, PayoutIsDue, [Next]_vars PROVE PayoutIsDue'
  OBVIOUS
<1>0. TypeOK /\ RowsInOrder
  BY DEF TypeInv
<1>1. CASE UNCHANGED vars
  BY <1>1 DEF vars, requestVars, PayoutIsDue
<1>2. ASSUME NEW s \in Sales, AccrueSale(s) \/ ReverseSale(s) PROVE PayoutIsDue'
  BY <1>2 DEF AccrueSale, ReverseSale, requestVars, PayoutIsDue
<1>3. ASSUME NEW q \in Requests, BeginPayout(q) PROVE PayoutIsDue'
  <2>1. /\ payout[q] = NoPayout /\ payout' = payout
        /\ \A p \in Requests \ {q} : pc'[p] = pc[p] /\ ask'[p] = ask[p]
    BY <1>0, <1>3 DEF BeginPayout, Goto, RowsInOrder, TypeOK
  <2> QED BY <2>1 DEF PayoutIsDue, NoPayout
<1>4. ASSUME NEW q \in Requests, SumAccrued(q) \/ SumPending(q) PROVE PayoutIsDue'
  BY <1>4 DEF SumAccrued, SumPending, PayoutIsDue
<1>5. ASSUME NEW q \in Requests, CreatePayout(q) PROVE PayoutIsDue'
  <2>1. /\ ask' = ask /\ pc[q] = "sum"
        /\ \A p \in Requests \ {q} : pc'[p] = pc[p] /\ payout'[p] = payout[p]
    BY <1>0, <1>5 DEF CreatePayout, requestVars, Goto, TypeOK
  <2>2. \/ payout'[q] = NoPayout
        \/ pc'[q] = "transfer"
        \/ ask[q].method = "MANUAL"
    BY <1>0, <1>5 DEF CreatePayout, Goto, RowsInOrder, TypeOK
  <2> QED BY <2>1, <2>2 DEF PayoutIsDue, NoPayout
<1>6. ASSUME NEW q \in Requests, Transfer(q) PROVE PayoutIsDue'
  BY <1>0, <1>6 DEF Transfer, Goto, PayoutIsDue, TypeOK
<1>7. ASSUME NEW q \in Requests, RecordAnswer(q) PROVE PayoutIsDue'
  <2>1. /\ ask' = ask /\ answer[q] \in {"SENT", "FAILED"}
        /\ \A p \in Requests \ {q} : pc'[p] = pc[p] /\ payout'[p] = payout[p]
    BY <1>0, <1>7 DEF RecordAnswer, requestVars, Goto, RowsInOrder, TypeOK
  <2>2. payout'[q].status = answer[q]
    <3>1. payout[q] \in [status : Statuses, cents : Nat \ {0}]
      BY <1>0, <1>7 DEF RecordAnswer, RowsInOrder, TypeOK, NoPayout
    <3> QED BY <1>0, <1>7, <3>1 DEF RecordAnswer, TypeOK
  <2> QED BY <2>1, <2>2 DEF PayoutIsDue
<1>8. ASSUME NEW q \in Requests, Fail(q) PROVE PayoutIsDue'
  BY <1>0, <1>8 DEF Fail, Goto, requestVars, PayoutIsDue, TypeOK
<1> QED BY <1>1, <1>2, <1>3, <1>4, <1>5, <1>6, <1>7, <1>8 DEF Next, RequestStep

\* A Stripe payout is REQUESTED, and its cents are held back, only as long as its request has the
\* answer of processPayout still to get or to write down, or died with it (POST
\* /creators/me/payouts); no other request takes a payout back to REQUESTED.
THEOREM PayoutComesDue == Spec => []PayoutIsDue
<1>1. Init => TypeInv /\ PayoutIsDue
  <2> SUFFICES ASSUME Init PROVE PayoutIsDue
    BY InitTypes
  <2> QED BY DEF Init, PayoutIsDue, NoPayout
<1>2. TypeInv /\ PayoutIsDue /\ [Next]_vars => (TypeInv /\ PayoutIsDue)'
  BY NextTypes, DueStays
<1> QED BY <1>1, <1>2, PTL DEF Spec
=============================================================================
