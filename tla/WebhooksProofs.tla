-------------------------- MODULE WebhooksProofs --------------------------
(* Proofs about EventStream and Webhooks: types, that no entry is lost     *)
(* between two consumers or acknowledged unseen, that a hook is given up   *)
(* only for failures it has had, and which step an event still waits for.  *)
EXTENDS Webhooks, FiniteSetTheorems, WellFoundedInduction, TLAPS

\* A consumer has entries in hand exactly while it dispatches and acknowledges them, and
\* the one it is about to acknowledge has been run, unless the consumer is closed.
InHand ==
  \A p \in Processes :
    /\ loop[p] \in {"dispatch", "ack"} <=> batch[p] # {}
    /\ loop[p] = "ack" => closed[p] \/ runs[Next1(p)] > 0

\* No two living processes have one name, and what a process has in hand is pending for its name.
OwnNames ==
  \A p \in Processes :
    /\ loop[p] \in {"group", "read", "dispatch", "ack"} => name[p] \in Names
    /\ \A q \in Processes : p # q /\ Alive(p) /\ Alive(q) => name[p] # name[q]
    /\ batch[p] # {} => batch[p] \subseteq pel[name[p]]
    /\ loop[p] \in {"read", "dispatch", "ack"} => group # NoGroup

\* What the group has given out lies behind its start.
Delivered ==
  /\ group = NoGroup => last = 0
  /\ group # NoGroup => group <= last
  /\ \A i \in acked : group # NoGroup /\ group < i /\ i <= last
  /\ \A n \in Names : \A i \in pel[n] : group # NoGroup /\ group < i /\ i <= last

\* Each entry given out is acknowledged or in the hands of one name.
InOnePlace ==
  \A i \in Ids :
    /\ group # NoGroup /\ group < i /\ i <= last =>
         i \in acked \/ \E n \in Names : i \in pel[n]
    /\ \A m, n \in Names : i \in pel[m] /\ i \in pel[n] => m = n
    /\ i \in acked => \A n \in Names : i \notin pel[n]

StreamInv == TypeOK /\ InHand /\ AckedWasSeen /\ OwnNames /\ Delivered /\ InOnePlace

LEMMA Bounds ==
  /\ BatchSize \in Nat \ {0} /\ MaxEvents \in Nat /\ MaxFaults \in Nat
  /\ MaxFailures \in Nat \ {0}
  /\ NoName \notin Names
  BY StreamAssumption, WebhookAssumption

\* A set of entries that is not empty has a first one.
LEMMA FirstExists ==
  ASSUME NEW S \in SUBSET Ids, S # {}
  PROVE  \E i \in S : \A j \in S : i <= j
<1>1. S \subseteq Nat
  BY Bounds DEF Ids
<1>2. PICK i \in S : \A j \in S : ~ (<<j, i>> \in OpToRel(<, Nat))
  BY <1>1, NatLessThanWellFounded, WFMin
<1>3. ASSUME NEW j \in S PROVE i <= j
  <2>1. j \in Nat /\ i \in Nat
    BY <1>1
  <2>2. ~ (<<j, i>> \in OpToRel(<, Nat))
    BY <1>2
  <2>3. ~ (j < i)
    BY <2>1, <2>2 DEF OpToRel
  <2> QED BY <2>1, <2>3
<1> QED BY <1>3

LEMMA NextIsInHand ==
  ASSUME TypeOK, NEW p \in Processes, batch[p] # {}
  PROVE  Next1(p) \in batch[p] /\ Next1(p) \in Ids
<1>1. batch[p] \in SUBSET Ids
  BY DEF TypeOK
<1> QED BY <1>1, FirstExists DEF Next1

\* A read for new entries takes the next ones after the last.
LEMMA NewIsNext ==
  ASSUME TypeOK
  PROVE  /\ New \subseteq Ids
         /\ Cardinality(New) \in Nat
         /\ last + Cardinality(New) <= added
         /\ New = last + 1 .. last + Cardinality(New)
<1>1. last \in Nat /\ added \in Nat /\ last <= added /\ added <= MaxEvents
  BY Bounds DEF TypeOK
<1>a. PICK top \in Nat : /\ last <= top /\ top <= added
                         /\ \A i \in Nat : i <= top <=> i <= added /\ i <= last + BatchSize
  <2>1. CASE added <= last + BatchSize
    BY <1>1, <2>1, Bounds
  <2>2. CASE added > last + BatchSize
    <3>1. /\ last + BatchSize \in Nat /\ last <= last + BatchSize
          /\ last + BatchSize <= added
          /\ \A i \in Nat : i <= last + BatchSize <=> i <= added /\ i <= last + BatchSize
      BY <1>1, <2>2, Bounds
    <3> QED BY <3>1
  <2> QED BY <1>1, <2>1, <2>2, Bounds
<1>2. New = last + 1 .. top
  <2>1. \A i \in last + 1 .. added : {j \in last + 1 .. added : j < i} = last + 1 .. i - 1
    BY <1>1
  <2>2. \A i \in last + 1 .. added : Cardinality(last + 1 .. i - 1) = i - 1 - last
    <3> SUFFICES ASSUME NEW i \in last + 1 .. added
                 PROVE  Cardinality(last + 1 .. i - 1) = i - 1 - last
      OBVIOUS
    <3>1. last + 1 \in Int /\ i - 1 \in Int /\ i >= last + 1
      BY <1>1
    <3>2. Cardinality(last + 1 .. i - 1) =
            IF last + 1 > i - 1 THEN 0 ELSE (i - 1) - (last + 1) + 1
      BY <3>1, FS_Interval
    <3> QED BY <1>1, <3>1, <3>2
  <2>3. \A i \in last + 1 .. added :
          i \in New <=> Cardinality({j \in last + 1 .. added : j < i}) < BatchSize
    BY DEF New, Lowest
  <2>4. New \subseteq last + 1 .. added
    BY DEF New, Lowest
  <2>5. \A i \in last + 1 .. added : i \in New <=> i - 1 - last < BatchSize
    BY <2>1, <2>2, <2>3
  <2>6. \A i \in last + 1 .. added : i \in New <=> i <= top
    BY <1>1, <1>a, <2>5, Bounds
  <2>7. last + 1 .. top \subseteq last + 1 .. added
    BY <1>1, <1>a
  <2>8. \A i \in last + 1 .. added : i \in last + 1 .. top <=> i <= top
    BY <1>1, <1>a
  <2>9. \A i : i \in New <=> i \in last + 1 .. top
    BY <2>4, <2>6, <2>7, <2>8
  <2> QED BY <2>9
<1>4. Cardinality(New) = top - last
  <2>1. Cardinality(last + 1 .. top) = IF last + 1 > top THEN 0 ELSE top - (last + 1) + 1
    BY <1>1, <1>a, FS_Interval
  <2> QED BY <1>1, <1>2, <1>a, <2>1
<1>5. New \subseteq Ids
  BY <1>1, <1>2, <1>a, Bounds DEF Ids
<1> QED BY <1>1, <1>2, <1>a, <1>4, <1>5

-----------------------------------------------------------------------------
(* Types.                                                                  *)

LoopTypes ==
  /\ loop \in [Processes -> {"off", "group", "read", "dispatch", "ack", "crashed"}]
  /\ name \in [Processes -> Names \cup {NoName}]
  /\ cursor \in [Processes -> {"0", ">"}]
  /\ batch \in [Processes -> SUBSET Ids]
  /\ closed \in [Processes -> BOOLEAN]

GroupTypes ==
  /\ added \in 0 .. MaxEvents
  /\ group \in 0 .. MaxEvents \cup {NoGroup}
  /\ last \in 0 .. added
  /\ pel \in [Names -> SUBSET Ids]
  /\ acked \subseteq Ids
  /\ runs \in [Ids -> Nat]
  /\ unseen \subseteq Ids
  /\ faults \in 0 .. MaxFaults

LEMMA Types == TypeOK <=> LoopTypes /\ GroupTypes
  BY Zenon DEF TypeOK, LoopTypes, GroupTypes

LEMMA LoopTypesKept ==
  ASSUME StreamInv, Next PROVE LoopTypes'
<1> USE DEF LoopTypes, loopVars, Goto
<1>0. TypeOK /\ LoopTypes
  BY Types DEF StreamInv
<1>1. CASE Publish
  BY <1>0, <1>1 DEF Publish
<1>2. ASSUME NEW p \in Processes, NEW n \in Names, Subscribe(p, n) PROVE LoopTypes'
  BY <1>0, <1>2 DEF Subscribe, FirstRead
<1>3. ASSUME NEW p \in Processes, EnsureGroup(p) PROVE LoopTypes'
  BY <1>0, <1>3 DEF EnsureGroup
<1>4. ASSUME NEW p \in Processes, EnsureGroupFails(p) PROVE LoopTypes'
  BY <1>0, <1>4 DEF EnsureGroupFails
<1>5. ASSUME NEW p \in Processes, ReadPending(p) PROVE LoopTypes'
  <2>1. Lowest(Pending(p), BatchSize) \in SUBSET Ids
    <3>1. name[p] \in Names
      BY <1>5 DEF StreamInv, OwnNames, ReadPending
    <3> QED BY <1>0, <3>1 DEF TypeOK, Lowest, Pending
  <2> QED BY <1>0, <1>5, <2>1 DEF ReadPending
<1>6. ASSUME NEW p \in Processes, ReadNew(p) PROVE LoopTypes'
  BY <1>0, <1>6, NewIsNext DEF ReadNew
<1>7. ASSUME NEW p \in Processes, ReadLost(p) PROVE LoopTypes'
  BY <1>0, <1>7 DEF ReadLost
<1>8. ASSUME NEW p \in Processes, Dispatch(p) PROVE LoopTypes'
  BY <1>0, <1>8 DEF Dispatch
<1>9. ASSUME NEW p \in Processes, Ack(p) PROVE LoopTypes'
  BY <1>0, <1>9 DEF Ack, AfterAck
<1>10. ASSUME NEW p \in Processes, AckFails(p) PROVE LoopTypes'
  BY <1>0, <1>10 DEF AckFails
<1>11. ASSUME NEW p \in Processes, Close(p) PROVE LoopTypes'
  BY <1>0, <1>11 DEF Close
<1>12. ASSUME NEW p \in Processes, Crash(p) PROVE LoopTypes'
  BY <1>0, <1>12 DEF Crash
<1> QED BY <1>1, <1>2, <1>3, <1>4, <1>5, <1>6, <1>7, <1>8, <1>9, <1>10, <1>11, <1>12
       DEF Next, Loop

LEMMA GroupTypesKept ==
  ASSUME StreamInv, Next PROVE GroupTypes'
<1> USE Bounds DEF GroupTypes, streamVars
<1>0. TypeOK /\ GroupTypes
  BY Types DEF StreamInv
<1>a. ASSUME NEW p \in Processes, batch[p] # {} PROVE Next1(p) \in Ids /\ AckIds(p) \subseteq Ids
  BY <1>0, <1>a, NextIsInHand DEF AckIds
<1>b. ASSUME NEW p \in Processes, batch[p] # {}, Acknowledge(p)
      PROVE  pel' \in [Names -> SUBSET Ids] /\ acked' \subseteq Ids /\ unseen' \subseteq Ids
  BY <1>0, <1>a, <1>b DEF Acknowledge
<1>c. ASSUME NEW p \in Processes, last' = last + Cardinality(New), added' = added,
             pel' = [pel EXCEPT ![name[p]] = @ \cup New]
      PROVE  last' \in 0 .. added' /\ pel' \in [Names -> SUBSET Ids]
  <2>1. last \in Nat /\ added \in Nat
    BY <1>0
  <2>2. last' \in 0 .. added'
    BY <1>c, <2>1, <1>0, NewIsNext
  <2>3. New \subseteq Ids
    BY <1>0, NewIsNext
  <2>4. pel' \in [Names -> SUBSET Ids]
    BY <1>0, <1>c, <2>3
  <2> QED BY <2>2, <2>4
<1>1. CASE Publish
  BY <1>0, <1>1 DEF Publish
<1>2. ASSUME NEW p \in Processes, NEW n \in Names, Subscribe(p, n) PROVE GroupTypes'
  BY <1>0, <1>2 DEF Subscribe
<1>3. ASSUME NEW p \in Processes, EnsureGroup(p) PROVE GroupTypes'
  BY <1>0, <1>3 DEF EnsureGroup, GroupStart
<1>4. ASSUME NEW p \in Processes, EnsureGroupFails(p) PROVE GroupTypes'
  BY <1>0, <1>4 DEF EnsureGroupFails, Fault
<1>5. ASSUME NEW p \in Processes, ReadPending(p) PROVE GroupTypes'
  BY <1>0, <1>5 DEF ReadPending
<1>6. ASSUME NEW p \in Processes, ReadNew(p) PROVE GroupTypes'
  BY <1>0, <1>6, <1>c DEF ReadNew
<1>7. ASSUME NEW p \in Processes, ReadLost(p) PROVE GroupTypes'
  <2>1. last' \in 0 .. added' /\ pel' \in [Names -> SUBSET Ids]
    BY <1>7, <1>c DEF ReadLost
  <2>2. UNCHANGED <<added, group, acked, runs, unseen>> /\ faults' \in 0 .. MaxFaults
    BY <1>0, <1>7 DEF ReadLost, Fault
  <2> QED BY <1>0, <2>1, <2>2
<1>8. ASSUME NEW p \in Processes, Dispatch(p) PROVE GroupTypes'
  <2>1. batch[p] # {}
    BY <1>8 DEF StreamInv, InHand, Dispatch
  <2> QED BY <1>0, <1>8, <1>a, <2>1 DEF Dispatch
<1>9. ASSUME NEW p \in Processes, Ack(p) PROVE GroupTypes'
  <2>1. batch[p] # {} /\ Acknowledge(p)
    BY <1>9 DEF StreamInv, InHand, Ack
  <2> QED BY <1>0, <1>9, <1>b, <2>1 DEF Ack
<1>10. ASSUME NEW p \in Processes, AckFails(p) PROVE GroupTypes'
  <2>1. batch[p] # {}
    BY <1>10 DEF StreamInv, InHand, AckFails
  <2>2. pel' \in [Names -> SUBSET Ids] /\ acked' \subseteq Ids /\ unseen' \subseteq Ids
    BY <1>0, <1>10, <1>b, <2>1 DEF AckFails
  <2> QED BY <1>0, <1>10, <2>2 DEF AckFails, Fault
<1>11. ASSUME NEW p \in Processes, Close(p) PROVE GroupTypes'
  BY <1>0, <1>11 DEF Close, Fault
<1>12. ASSUME NEW p \in Processes, Crash(p) PROVE GroupTypes'
  BY <1>0, <1>12 DEF Crash, Fault
<1> QED BY <1>1, <1>2, <1>3, <1>4, <1>5, <1>6, <1>7, <1>8, <1>9, <1>10, <1>11, <1>12
       DEF Next, Loop

LEMMA TypesKept ==
  ASSUME StreamInv, Next PROVE TypeOK'
<1>1. LoopTypes' /\ GroupTypes'
  BY LoopTypesKept, GroupTypesKept
<1> QED BY <1>1, Types, PTL

-----------------------------------------------------------------------------
(* What each consumer has in hand.                                         *)

\* A process that leaves its hands, its handlers and the runs alone, or has none in hand.
LEMMA InHandKept ==
  ASSUME StreamInv, Next PROVE InHand' /\ AckedWasSeen'
<1> USE DEF InHand, AckedWasSeen, Goto, loopVars, streamVars
<1>0. TypeOK /\ LoopTypes /\ GroupTypes /\ InHand /\ AckedWasSeen
  BY Types DEF StreamInv
<1>t. TypeOK' /\ LoopTypes' /\ GroupTypes'
  BY TypesKept, LoopTypesKept, GroupTypesKept
<1>n. ASSUME NEW p \in Processes, batch'[p] = batch[p] PROVE Next1(p)' = Next1(p)
  BY <1>n DEF Next1
<1>1. CASE Publish
  BY <1>0, <1>1, <1>n DEF Publish
<1>2. ASSUME NEW p \in Processes, NEW n \in Names, Subscribe(p, n)
      PROVE  InHand' /\ AckedWasSeen'
  BY <1>0, <1>2, <1>n DEF Subscribe, LoopTypes
<1>3. ASSUME NEW p \in Processes, EnsureGroup(p) PROVE InHand' /\ AckedWasSeen'
  BY <1>0, <1>3, <1>n DEF EnsureGroup, LoopTypes
<1>4. ASSUME NEW p \in Processes, EnsureGroupFails(p) PROVE InHand' /\ AckedWasSeen'
  BY <1>0, <1>4, <1>n DEF EnsureGroupFails, LoopTypes
<1>7. ASSUME NEW p \in Processes, ReadLost(p) PROVE InHand' /\ AckedWasSeen'
  BY <1>0, <1>7, <1>n DEF ReadLost, LoopTypes
<1>11. ASSUME NEW p \in Processes, Close(p) PROVE InHand' /\ AckedWasSeen'
  BY <1>0, <1>11, <1>n DEF Close, Alive, LoopTypes
<1>12. ASSUME NEW p \in Processes, Crash(p) PROVE InHand' /\ AckedWasSeen'
  BY <1>0, <1>12, <1>n DEF Crash, LoopTypes
<1>5. ASSUME NEW p \in Processes, ReadPending(p) PROVE InHand' /\ AckedWasSeen'
  <2>1. Pending(p) # {} => Lowest(Pending(p), BatchSize) # {}
    <3>1. name[p] \in Names
      BY <1>5 DEF StreamInv, OwnNames, ReadPending
    <3>2. Pending(p) \in SUBSET Ids
      BY <1>0, <3>1 DEF GroupTypes, Pending
    <3>3. ASSUME Pending(p) # {} PROVE Lowest(Pending(p), BatchSize) # {}
      <4>1. PICK i \in Pending(p) : \A j \in Pending(p) : i <= j
        BY <3>2, <3>3, FirstExists
      <4>2. \A j \in Pending(p) : ~ (j < i)
        BY <3>2, <4>1, Bounds DEF Ids
      <4>3. {j \in Pending(p) : j < i} = {}
        BY <4>2
      <4>4. Cardinality({j \in Pending(p) : j < i}) < BatchSize
        BY <4>3, FS_EmptySet, Bounds
      <4> QED BY <4>1, <4>4 DEF Lowest
    <3> QED BY <3>3
  <2> QED BY <1>0, <1>5, <1>n, <2>1 DEF ReadPending, LoopTypes
<1>6. ASSUME NEW p \in Processes, ReadNew(p) PROVE InHand' /\ AckedWasSeen'
  BY <1>0, <1>6, <1>n DEF ReadNew, LoopTypes
<1>8. ASSUME NEW p \in Processes, Dispatch(p) PROVE InHand' /\ AckedWasSeen'
  <2>1. Next1(p) \in Ids
    BY <1>0, <1>8, NextIsInHand DEF Dispatch
  <2>2. \A i \in Ids : runs[i] \in Nat /\ runs'[i] \in Nat /\ runs'[i] >= runs[i]
    BY <1>0, <1>8, <2>1 DEF Dispatch, GroupTypes
  <2>3. \A q \in Processes : q # p => loop'[q] = loop[q]
    BY <1>0, <1>8 DEF Dispatch, LoopTypes
  <2>4. loop[p] = "dispatch" /\ loop'[p] = "ack" /\ UNCHANGED <<batch, closed, acked, unseen>>
    BY <1>0, <1>8 DEF Dispatch, LoopTypes
  <2>5. closed[p] \/ runs'[Next1(p)] > 0
    BY <1>0, <1>8, <2>1 DEF Dispatch, GroupTypes
  <2>6. \A q \in Processes : batch[q] # {} => Next1(q) \in Ids
    BY <1>0, NextIsInHand
  <2>7. InHand'
    <3> SUFFICES ASSUME NEW q \in Processes
                 PROVE  /\ loop'[q] \in {"dispatch", "ack"} <=> batch'[q] # {}
                        /\ loop'[q] = "ack" => closed'[q] \/ runs'[Next1(q)'] > 0
      OBVIOUS
    <3>1. Next1(q)' = Next1(q)
      BY <1>n, <2>4
    <3>2. CASE q = p
      BY <1>0, <2>4, <2>5, <3>1, <3>2
    <3>3. CASE q # p
      <4>1. loop[q] = "ack" => Next1(q) \in Ids
        BY <1>0, <2>6
      <4> QED BY <1>0, <2>2, <2>3, <2>4, <3>1, <3>3, <4>1
    <3> QED BY <3>2, <3>3
  <2>8. AckedWasSeen'
    BY <1>0, <2>2, <2>4 DEF GroupTypes
  <2> QED BY <2>7, <2>8
<1>b. ASSUME NEW p \in Processes, batch[p] # {}, loop[p] = "ack", Acknowledge(p), runs' = runs
      PROVE  AckedWasSeen'
  <2>1. closed[p] \/ runs[Next1(p)] > 0
    BY <1>0, <1>b
  <2> QED BY <1>0, <1>b, <2>1 DEF Acknowledge, AckIds
<1>9. ASSUME NEW p \in Processes, Ack(p) PROVE InHand' /\ AckedWasSeen'
  <2>1. batch[p] # {} /\ loop[p] = "ack" /\ Acknowledge(p) /\ runs' = runs
    BY <1>0, <1>9 DEF Ack
  <2>2. AckedWasSeen'
    BY <1>b, <2>1
  <2>3. InHand'
    BY <1>0, <1>9, <1>n DEF Ack, AfterAck, LoopTypes
  <2> QED BY <2>2, <2>3
<1>10. ASSUME NEW p \in Processes, AckFails(p) PROVE InHand' /\ AckedWasSeen'
  <2>1. batch[p] # {} /\ loop[p] = "ack" /\ runs' = runs
    BY <1>0, <1>10 DEF AckFails
  <2>2. AckedWasSeen'
    BY <1>0, <1>10, <1>b, <2>1 DEF AckFails
  <2>3. InHand'
    BY <1>0, <1>10, <1>n DEF AckFails, LoopTypes
  <2> QED BY <2>2, <2>3
<1> QED BY <1>1, <1>2, <1>3, <1>4, <1>5, <1>6, <1>7, <1>8, <1>9, <1>10, <1>11, <1>12
       DEF Next, Loop

-----------------------------------------------------------------------------
(* Where the entries are.                                                  *)

\* An entry that is given to a name has not been given before.
LEMMA GivenOnce ==
  ASSUME StreamInv, NEW n \in Names, group # NoGroup,
         last' = last + Cardinality(New),
         pel' = [pel EXCEPT ![n] = @ \cup New],
         UNCHANGED <<group, acked>>
  PROVE  Delivered' /\ InOnePlace'
<1>0. GroupTypes /\ TypeOK /\ Delivered /\ InOnePlace
  BY Types DEF StreamInv
<1>1. last \in Nat /\ last' \in Nat /\ last <= last' /\ group \in Int
  BY <1>0, NewIsNext DEF GroupTypes, NoGroup
<1>2. \A i \in Ids : i \in Nat /\ (i \in New <=> last < i /\ i <= last')
  BY <1>0, <1>1, NewIsNext, Bounds DEF Ids
<1>3. New \subseteq Ids
  BY <1>0, NewIsNext
<1>4. \A m \in Names : /\ pel'[m] = IF m = n THEN pel[m] \cup New ELSE pel[m]
                       /\ pel[m] \subseteq Ids
  BY <1>0 DEF GroupTypes
<1>5. \A i \in Ids : i \in New => i \notin acked /\ \A m \in Names : i \notin pel[m]
  BY <1>0, <1>1, <1>2 DEF Delivered
<1>6. Delivered'
  <2>1. ASSUME NEW i \in Ids, group < i, i <= last \/ i \in New PROVE group' < i /\ i <= last'
    BY <1>1, <1>2, <2>1
  <2>2. \A i \in New : group < i
    BY <1>0, <1>1, <1>2, <1>3 DEF Delivered
  <2>3. acked \subseteq Ids
    BY <1>0 DEF GroupTypes
  <2>4. \A i \in acked' : group' # NoGroup /\ group' < i /\ i <= last'
    BY <1>0, <2>1, <2>3 DEF Delivered
  <2>5. \A m \in Names : \A i \in pel'[m] : group' # NoGroup /\ group' < i /\ i <= last'
    <3> SUFFICES ASSUME NEW m \in Names, NEW i \in pel'[m]
                 PROVE  group' # NoGroup /\ group' < i /\ i <= last'
      OBVIOUS
    <3>1. CASE i \in pel[m]
      <4>1. group < i /\ i <= last /\ i \in Ids
        BY <1>0, <1>4, <3>1 DEF Delivered
      <4> QED BY <2>1, <4>1
    <3>2. CASE i \in New
      BY <1>3, <2>1, <2>2, <3>2
    <3> QED BY <1>4, <3>1, <3>2
  <2>6. group' <= last'
    BY <1>0, <1>1 DEF Delivered
  <2> QED BY <2>4, <2>5, <2>6 DEF Delivered
<1>7. InOnePlace'
  <2> SUFFICES ASSUME NEW i \in Ids
               PROVE  /\ group' # NoGroup /\ group' < i /\ i <= last' =>
                           i \in acked' \/ \E m \in Names : i \in pel'[m]
                      /\ \A m, k \in Names : i \in pel'[m] /\ i \in pel'[k] => m = k
                      /\ i \in acked' => \A m \in Names : i \notin pel'[m]
    BY DEF InOnePlace
  <2>1. CASE i \in New
    BY <1>4, <1>5, <2>1
  <2>2. CASE i \notin New
    <3>1. \A m \in Names : i \in pel'[m] <=> i \in pel[m]
      BY <1>4, <2>2
    <3>2. i <= last' => i <= last
      BY <1>1, <1>2, <2>2
    <3> QED BY <1>0, <3>1, <3>2 DEF InOnePlace
  <2> QED BY <2>1, <2>2
<1> QED BY <1>6, <1>7

\* An entry that is acknowledged leaves the one name it was pending for.
LEMMA AckedOnce ==
  ASSUME StreamInv, NEW p \in Processes, batch[p] # {}, Acknowledge(p), UNCHANGED streamVars
  PROVE  /\ Delivered' /\ InOnePlace'
         /\ \A q \in Processes : q # p /\ batch[q] # {} => batch[q] \subseteq pel'[name[q]]
         /\ batch[p] \ AckIds(p) \subseteq pel'[name[p]]
<1>0. GroupTypes /\ TypeOK /\ Delivered /\ InOnePlace /\ InHand /\ OwnNames
  BY Types DEF StreamInv
<1> DEFINE n == name[p]
           i == Next1(p)
<1>1. n \in Names /\ i \in batch[p] /\ i \in Ids /\ i \in pel[n]
  BY <1>0, NextIsInHand DEF InHand, OwnNames
<1>2. \A m \in Names : pel'[m] = IF m = n THEN pel[m] \ {i} ELSE pel[m]
  BY <1>0 DEF Acknowledge, AckIds, GroupTypes
<1>3. acked' = acked \cup {i} /\ AckIds(p) = {i}
  BY DEF Acknowledge, AckIds
<1> HIDE DEF n, i
<1>4. Delivered'
  BY <1>0, <1>1, <1>2, <1>3 DEF Delivered, streamVars
<1>5. InOnePlace'
  BY <1>0, <1>1, <1>2, <1>3 DEF InOnePlace, streamVars
<1>6. ASSUME NEW q \in Processes, q # p, batch[q] # {} PROVE batch[q] \subseteq pel'[name[q]]
  <2>1. name[q] # n /\ name[q] \in Names
    BY <1>0, <1>6 DEF InHand, OwnNames, Alive, n
  <2> QED BY <1>0, <1>2, <1>6, <2>1 DEF OwnNames
<1>7. batch[p] \ AckIds(p) \subseteq pel'[name[p]]
  BY <1>0, <1>1, <1>2, <1>3 DEF OwnNames, n
<1> QED BY <1>4, <1>5, <1>6, <1>7

LEMMA PlacesKept ==
  ASSUME StreamInv, Next PROVE OwnNames' /\ Delivered' /\ InOnePlace'
<1> USE DEF Goto, loopVars, streamVars
<1>0. /\ TypeOK /\ LoopTypes /\ GroupTypes /\ InHand
      /\ OwnNames /\ Delivered /\ InOnePlace
  BY Types DEF StreamInv
<1>s. ASSUME UNCHANGED <<group, last, pel, acked>> PROVE Delivered' /\ InOnePlace'
  BY <1>0, <1>s DEF Delivered, InOnePlace
<1>1. CASE Publish
  BY <1>0, <1>1, <1>s DEF Publish, OwnNames, Alive
<1>2. ASSUME NEW p \in Processes, NEW n \in Names, Subscribe(p, n)
      PROVE  OwnNames' /\ Delivered' /\ InOnePlace'
  <2>1. batch[p] = {}
    BY <1>0, <1>2 DEF InHand, Subscribe
  <2>2. OwnNames'
    BY <1>0, <1>2, <2>1 DEF Subscribe, OwnNames, Alive, LoopTypes
  <2> QED BY <1>2, <1>s, <2>2 DEF Subscribe
<1>3. ASSUME NEW p \in Processes, EnsureGroup(p)
      PROVE  OwnNames' /\ Delivered' /\ InOnePlace'
  <2>1. OwnNames'
    BY <1>0, <1>3, Bounds DEF EnsureGroup, OwnNames, Alive, LoopTypes, GroupTypes, NoGroup
  <2>2. CASE group = NoGroup
    <3>1. acked = {} /\ \A n \in Names : pel[n] = {}
      BY <1>0, <2>2 DEF Delivered
    <3>2. group' = added /\ last' = added /\ acked' = {} /\ \A n \in Names : pel'[n] = {}
      BY <1>3, <2>2, <3>1 DEF EnsureGroup, GroupStart
    <3>3. added \in Nat /\ \A i \in Ids : i \in Nat
      BY <1>0, Bounds DEF GroupTypes, Ids
    <3>4. Delivered' /\ InOnePlace'
      BY <3>2, <3>3 DEF Delivered, InOnePlace, NoGroup
    <3> QED BY <2>1, <3>4
  <2>3. CASE group # NoGroup
    BY <1>3, <1>s, <2>1, <2>3 DEF EnsureGroup, GroupStart
  <2> QED BY <2>2, <2>3
<1>4. ASSUME NEW p \in Processes, EnsureGroupFails(p)
      PROVE  OwnNames' /\ Delivered' /\ InOnePlace'
  BY <1>0, <1>4, <1>s DEF EnsureGroupFails, OwnNames, Alive, LoopTypes
<1>5. ASSUME NEW p \in Processes, ReadPending(p)
      PROVE  OwnNames' /\ Delivered' /\ InOnePlace'
  <2>1. Lowest(Pending(p), BatchSize) \subseteq pel[name[p]]
    BY DEF Lowest, Pending
  <2>2. OwnNames'
    BY <1>0, <1>5, <2>1 DEF ReadPending, OwnNames, Alive, LoopTypes
  <2> QED BY <1>5, <1>s, <2>2 DEF ReadPending
<1>g. ASSUME NEW p \in Processes, loop[p] = "read", last' = last + Cardinality(New),
             pel' = [pel EXCEPT ![name[p]] = @ \cup New], UNCHANGED <<group, acked>>
      PROVE  /\ Delivered' /\ InOnePlace'
             /\ New \subseteq pel'[name[p]]
             /\ \A q \in Processes : batch[q] # {} => batch[q] \subseteq pel'[name[q]]
  <2>1. name[p] \in Names /\ group # NoGroup
    BY <1>0, <1>g DEF OwnNames
  <2>2. Delivered' /\ InOnePlace'
    BY <1>g, <2>1, GivenOnce
  <2>3. \A n \in Names : pel[n] \subseteq pel'[n]
    BY <1>0, <1>g DEF GroupTypes
  <2>4. New \subseteq pel'[name[p]]
    BY <1>0, <1>g, <2>1 DEF GroupTypes
  <2>5. ASSUME NEW q \in Processes, batch[q] # {} PROVE batch[q] \subseteq pel'[name[q]]
    BY <1>0, <2>3, <2>5 DEF OwnNames, InHand
  <2> QED BY <2>2, <2>4, <2>5
<1>6. ASSUME NEW p \in Processes, ReadNew(p)
      PROVE  OwnNames' /\ Delivered' /\ InOnePlace'
  <2>1. OwnNames'
    BY <1>0, <1>6, <1>g DEF ReadNew, OwnNames, Alive, LoopTypes
  <2> QED BY <1>6, <1>g, <2>1 DEF ReadNew
<1>7. ASSUME NEW p \in Processes, ReadLost(p)
      PROVE  OwnNames' /\ Delivered' /\ InOnePlace'
  <2>1. OwnNames'
    BY <1>0, <1>7, <1>g DEF ReadLost, OwnNames, Alive
  <2> QED BY <1>7, <1>g, <2>1 DEF ReadLost
<1>8. ASSUME NEW p \in Processes, Dispatch(p)
      PROVE  OwnNames' /\ Delivered' /\ InOnePlace'
  BY <1>0, <1>8, <1>s DEF Dispatch, OwnNames, Alive, LoopTypes
<1>a. ASSUME NEW p \in Processes, batch[p] # {}, Acknowledge(p), UNCHANGED streamVars
      PROVE  /\ Delivered' /\ InOnePlace'
             /\ \A q \in Processes : q # p /\ batch[q] # {} => batch[q] \subseteq pel'[name[q]]
             /\ batch[p] \ AckIds(p) \subseteq pel'[name[p]]
  BY <1>a, AckedOnce
<1>9. ASSUME NEW p \in Processes, Ack(p) PROVE OwnNames' /\ Delivered' /\ InOnePlace'
  <2>1. batch[p] # {} /\ Acknowledge(p) /\ UNCHANGED streamVars
    BY <1>0, <1>9 DEF Ack, InHand
  <2>2. OwnNames'
    BY <1>0, <1>9, <1>a, <2>1 DEF Ack, AfterAck, OwnNames, Alive, LoopTypes
  <2> QED BY <1>a, <2>1, <2>2
<1>10. ASSUME NEW p \in Processes, AckFails(p)
       PROVE  OwnNames' /\ Delivered' /\ InOnePlace'
  <2>1. batch[p] # {} /\ UNCHANGED streamVars
    BY <1>0, <1>10 DEF AckFails, InHand
  <2>2. /\ Delivered' /\ InOnePlace'
        /\ \A q \in Processes : q # p /\ batch[q] # {} => batch[q] \subseteq pel'[name[q]]
    <3>1. CASE Acknowledge(p)
      BY <1>a, <2>1, <3>1
    <3>2. CASE UNCHANGED <<pel, acked, unseen>>
      BY <1>0, <1>s, <2>1, <3>2 DEF OwnNames
    <3> QED BY <1>10, <3>1, <3>2 DEF AckFails
  <2>3. OwnNames'
    BY <1>0, <1>10, <2>2 DEF AckFails, OwnNames, Alive, LoopTypes
  <2> QED BY <2>2, <2>3
<1>11. ASSUME NEW p \in Processes, Close(p) PROVE OwnNames' /\ Delivered' /\ InOnePlace'
  BY <1>0, <1>11, <1>s DEF Close, OwnNames, Alive, LoopTypes
<1>12. ASSUME NEW p \in Processes, Crash(p) PROVE OwnNames' /\ Delivered' /\ InOnePlace'
  BY <1>0, <1>12, <1>s DEF Crash, OwnNames, Alive, LoopTypes
<1> QED BY <1>1, <1>2, <1>3, <1>4, <1>5, <1>6, <1>7, <1>8, <1>9, <1>10, <1>11, <1>12
       DEF Next, Loop

LEMMA StreamInvKept ==
  ASSUME StreamInv, Next PROVE StreamInv'
  BY TypesKept, InHandKept, PlacesKept DEF StreamInv

\* What is not the stream's may fail on its own.
LEMMA StreamInvAside ==
  ASSUME StreamInv, faults' \in 0 .. MaxFaults,
         UNCHANGED <<streamVars, pel, acked, loop, loopVars, batch, runs, unseen>>
  PROVE  StreamInv'
<1> USE DEF streamVars, loopVars
<1>0. LoopTypes /\ GroupTypes
  BY Types DEF StreamInv
<1>1. LoopTypes' /\ GroupTypes'
  BY <1>0 DEF LoopTypes, GroupTypes
<1>2. TypeOK'
  BY <1>1, Types, PTL
<1>3. \A p \in Processes : Next1(p)' = Next1(p)
  BY DEF Next1
<1>4. InHand' /\ AckedWasSeen'
  BY <1>3 DEF StreamInv, InHand, AckedWasSeen
<1>5. OwnNames' /\ Delivered' /\ InOnePlace'
  BY DEF StreamInv, OwnNames, Alive, Delivered, InOnePlace
<1> QED BY <1>2, <1>4, <1>5 DEF StreamInv

LEMMA StreamInvInit == Init => StreamInv
<1> SUFFICES ASSUME Init PROVE StreamInv
  OBVIOUS
<1> USE DEF Init
<1>1. LoopTypes /\ GroupTypes
  BY Bounds DEF LoopTypes, GroupTypes
<1>2. TypeOK
  BY <1>1, Types
<1>3. InHand /\ AckedWasSeen /\ OwnNames /\ Delivered /\ InOnePlace
  BY DEF InHand, AckedWasSeen, OwnNames, Alive, Delivered, InOnePlace, NoGroup
<1> QED BY <1>2, <1>3 DEF StreamInv

LEMMA OnceIsOne == StreamInv => NoneDropped
<1> SUFFICES ASSUME StreamInv, group # NoGroup, NEW i \in group + 1 .. last
             PROVE  Cardinality({n \in Names : i \in pel[n]}) = IF i \in acked THEN 0 ELSE 1
  BY DEF NoneDropped
<1>1. i \in Ids /\ group < i /\ i <= last
  BY Bounds DEF StreamInv, TypeOK, Ids, NoGroup
<1>2. CASE i \in acked
  <2>1. {n \in Names : i \in pel[n]} = {}
    BY <1>1, <1>2 DEF StreamInv, InOnePlace
  <2> QED BY <1>2, <2>1, FS_EmptySet
<1>3. CASE i \notin acked
  <2>1. PICK n \in Names : i \in pel[n]
    BY <1>1, <1>3 DEF StreamInv, InOnePlace
  <2>2. {m \in Names : i \in pel[m]} = {n}
    BY <1>1, <2>1 DEF StreamInv, InOnePlace
  <2> QED BY <1>3, <2>2, FS_Singleton
<1> QED BY <1>2, <1>3

-----------------------------------------------------------------------------
(* The deliveries.                                                         *)

HookTypes ==
  /\ failures \in Nat
  /\ hook \in [active : BOOLEAN, deleted : BOOLEAN, failureCount : 0 .. failures,
               disabled : BOOLEAN]
  /\ tasks \subseteq [event : Ids, at : Processes, run : Nat,
                      step : {"find", "post", "succeeded", "failed"}, read : 0 .. failures]
  /\ request \in [Requests -> {"new", "found", "done"}]
  /\ posted \subseteq Ids

\* A delivery that has failed is itself one of the failures it has not read.
FailureOwned == \A t \in tasks : t.step = "failed" => t.read < failures

HookInv == StreamInv /\ HookTypes /\ FailureOwned /\ DisabledEarned

\* Every step of the hook and its consumers is one of the stream's, or none of it.
LEMMA StreamStepOrAside ==
  ASSUME HookInv, WebhookNext
  PROVE  StreamInv'
<1>1. StreamInv /\ faults \in 0 .. MaxFaults
  BY DEF HookInv, StreamInv, TypeOK
<1>2. CASE Next
  BY <1>1, <1>2, StreamInvKept
<1>3. CASE UNCHANGED vars
  BY <1>1, <1>3, StreamInvAside DEF vars
<1>4. ASSUME NEW t \in tasks, Record(t) PROVE StreamInv'
  <2>1. faults' \in 0 .. MaxFaults
    BY <1>1, <1>4, Bounds DEF Record, Fault
  <2> QED BY <1>1, <1>4, <2>1, StreamInvAside DEF Record
<1>5. StreamStep => Next
  BY DEF StreamStep, Next, Loop
<1>6. \A p \in Processes : StartDelivery(p) \/ Die(p) => Next
  BY DEF StartDelivery, Die, Next, Loop
<1>7. \A t \in tasks : Find(t) \/ Post(t) => UNCHANGED vars
  BY DEF Find, Post
<1>8. \A r \in Requests : Lookup(r) \/ Patch(r) \/ Delete(r) => UNCHANGED vars
  BY DEF Lookup, Patch, Delete
<1> QED BY <1>2, <1>3, <1>4, <1>5, <1>6, <1>7, <1>8 DEF WebhookNext, TaskStep

TaskRecords(n) == [event : Ids, at : Processes, run : Nat,
                   step : {"find", "post", "succeeded", "failed"}, read : 0 .. n]

\* A delivery that has moved on.
LEMMA TaskMoved ==
  ASSUME NEW n \in Nat, NEW t \in TaskRecords(n), NEW step \in {"succeeded", "failed"}
  PROVE  /\ [t EXCEPT !.step = step] \in TaskRecords(n)
         /\ [t EXCEPT !.step = step].step = step
         /\ [t EXCEPT !.step = step].read = t.read
  BY DEF TaskRecords

\* A delivery that has read the row.
LEMMA TaskRead ==
  ASSUME NEW n \in Nat, NEW t \in TaskRecords(n), NEW count \in 0 .. n
  PROVE  /\ [t EXCEPT !.step = "post", !.read = count] \in TaskRecords(n)
         /\ [t EXCEPT !.step = "post", !.read = count].step = "post"
  BY DEF TaskRecords

LEMMA HookKept ==
  ASSUME HookInv, WebhookNext
  PROVE  HookTypes' /\ FailureOwned' /\ DisabledEarned'
<1> DEFINE Kept == HookTypes' /\ FailureOwned' /\ DisabledEarned'
<1>0. /\ TypeOK /\ HookTypes /\ FailureOwned /\ DisabledEarned
      /\ failures \in Nat /\ tasks \subseteq TaskRecords(failures)
  BY DEF HookInv, StreamInv, HookTypes, TaskRecords
<1>1. CASE UNCHANGED hookVars
  BY <1>0, <1>1 DEF hookVars, HookTypes, FailureOwned, DisabledEarned
<1>2. ASSUME NEW p \in Processes, StartDelivery(p) PROVE Kept
  <2>1. UNCHANGED <<hook, request, failures, posted>>
    BY <1>2 DEF StartDelivery
  <2>2. Next1(p) \in Ids
    BY <1>0, <1>2, NextIsInHand DEF StartDelivery, Dispatch, HookInv, StreamInv, InHand
  <2>3. Task(Next1(p), p) \in TaskRecords(failures)
    BY <1>0, <2>2 DEF Task, TaskRecords, TypeOK
  <2>4. \A t \in tasks' : t \in tasks \/ t = Task(Next1(p), p)
    BY <1>2 DEF StartDelivery
  <2>5. Task(Next1(p), p).step # "failed"
    BY DEF Task
  <2>6. tasks' \subseteq TaskRecords(failures) /\ FailureOwned'
    BY <1>0, <2>1, <2>3, <2>4, <2>5 DEF FailureOwned
  <2> QED BY <1>0, <2>1, <2>6 DEF HookTypes, TaskRecords, DisabledEarned
<1>3. ASSUME NEW p \in Processes, Die(p) PROVE Kept
  BY <1>0, <1>3 DEF Die, Killed, HookTypes, FailureOwned, DisabledEarned
<1>4. ASSUME NEW t \in tasks, Find(t) PROVE Kept
  <2>1. UNCHANGED <<hook, request, failures, posted>>
    BY <1>4 DEF Find
  <2>2. hook.failureCount \in 0 .. failures
    BY <1>0 DEF HookTypes
  <2> DEFINE u == [t EXCEPT !.step = "post", !.read = hook.failureCount]
  <2>3. u \in TaskRecords(failures) /\ u.step = "post"
    <3>1. t \in TaskRecords(failures) /\ failures \in Nat
      BY <1>0
    <3>2. /\ [t EXCEPT !.step = "post", !.read = hook.failureCount] \in TaskRecords(failures)
          /\ [t EXCEPT !.step = "post", !.read = hook.failureCount].step = "post"
      BY <2>2, <3>1, TaskRead
    <3> QED BY <3>2 DEF u
  <2>4. \A s \in tasks' : s \in tasks \/ s = u
    BY <1>4 DEF Find, Finish
  <2> HIDE DEF u
  <2>5. tasks' \subseteq TaskRecords(failures) /\ FailureOwned'
    BY <1>0, <2>1, <2>3, <2>4 DEF FailureOwned
  <2> QED BY <1>0, <2>1, <2>5 DEF HookTypes, TaskRecords, DisabledEarned
<1>5. ASSUME NEW t \in tasks, Post(t) PROVE Kept
  <2>0. t \in TaskRecords(failures) /\ failures \in Nat /\ 0 \in 0 .. failures
    BY <1>0
  <2>1. UNCHANGED <<hook, request>> /\ posted' \subseteq Ids
    BY <1>0, <1>5 DEF Post, HookTypes
  <2>2. ASSUME Advance(t, "succeeded"), failures' = failures PROVE Kept
    <3>1. /\ [t EXCEPT !.step = "succeeded"] \in TaskRecords(failures)
          /\ [t EXCEPT !.step = "succeeded"].step = "succeeded"
      BY <2>0, TaskMoved
    <3>2. tasks' \subseteq TaskRecords(failures) /\ FailureOwned'
      BY <1>0, <2>2, <3>1 DEF Advance, FailureOwned
    <3> QED BY <1>0, <2>1, <2>2, <3>2 DEF HookTypes, TaskRecords, DisabledEarned
  <2>3. ASSUME Advance(t, "failed"), failures' = failures + 1 PROVE Kept
    <3>0. /\ [t EXCEPT !.step = "failed"] \in TaskRecords(failures)
          /\ [t EXCEPT !.step = "failed"].step = "failed"
          /\ [t EXCEPT !.step = "failed"].read = t.read
      BY <2>0, TaskMoved
    <3> DEFINE u == [t EXCEPT !.step = "failed"]
    <3>1. u \in TaskRecords(failures) /\ u.step = "failed" /\ u.read = t.read
      BY <3>0 DEF u
    <3>2. \A s \in tasks' : s \in tasks \/ s = u
      BY <2>3 DEF Advance
    <3> HIDE DEF u
    <3>3. \A s \in tasks' : s \in TaskRecords(failures)
      BY <1>0, <3>1, <3>2
    <3>4. failures' \in Nat /\ \A s \in TaskRecords(failures) :
            s \in TaskRecords(failures') /\ s.read < failures'
      BY <1>0, <2>3 DEF TaskRecords
    <3>5. tasks' \subseteq TaskRecords(failures') /\ FailureOwned'
      BY <3>3, <3>4 DEF FailureOwned
    <3>6. hook.failureCount \in 0 .. failures'
      BY <1>0, <2>3 DEF HookTypes
    <3>7. DisabledEarned'
      BY <1>0, <2>1, <2>3, Bounds DEF DisabledEarned
    <3>8. hook' \in [active : BOOLEAN, deleted : BOOLEAN, failureCount : 0 .. failures',
                     disabled : BOOLEAN]
      BY <1>0, <2>1, <3>6 DEF HookTypes
    <3> QED BY <1>0, <2>1, <3>4, <3>5, <3>7, <3>8 DEF HookTypes, TaskRecords
  <2> QED BY <1>5, <2>2, <2>3 DEF Post
<1>6. ASSUME NEW t \in tasks, Record(t) PROVE Kept
  <2>1. UNCHANGED <<request, failures, posted>> /\ tasks' \subseteq tasks
    BY <1>6 DEF Record, Finish
  <2>2. FailureOwned' /\ tasks' \subseteq TaskRecords(failures)
    BY <1>0, <2>1 DEF FailureOwned
  <2>3. t.step = "failed" => t.read + 1 \in 0 .. failures
    BY <1>0 DEF FailureOwned, TaskRecords
  <2>4. /\ hook' \in [active : BOOLEAN, deleted : BOOLEAN, failureCount : 0 .. failures,
                      disabled : BOOLEAN]
        /\ DisabledEarned'
    <3>1. CASE hook' = hook
      BY <1>0, <2>1, <3>1 DEF HookTypes, DisabledEarned
    <3>2. CASE hook' = [hook EXCEPT !.failureCount = 0]
      BY <1>0, <2>1, <3>2 DEF HookTypes, DisabledEarned
    <3>3. CASE t.step = "failed" /\ hook' = Failed(t)
      <4>1. CASE t.read + 1 >= MaxFailures
        <5>1. hook' = [hook EXCEPT !.failureCount = t.read + 1, !.active = FALSE,
                                   !.disabled = TRUE]
          BY <3>3, <4>1 DEF Failed
        <5>2. failures >= MaxFailures
          BY <1>0, <2>3, <3>3, <4>1, Bounds
        <5> QED BY <1>0, <2>1, <2>3, <3>3, <5>1, <5>2 DEF HookTypes, DisabledEarned
      <4>2. CASE ~ (t.read + 1 >= MaxFailures)
        <5>1. hook' = [hook EXCEPT !.failureCount = t.read + 1]
          BY <3>3, <4>2 DEF Failed
        <5> QED BY <1>0, <2>1, <2>3, <3>3, <5>1 DEF HookTypes, DisabledEarned
      <4> QED BY <4>1, <4>2
    <3> QED BY <1>6, <3>1, <3>2, <3>3 DEF Record
  <2> QED BY <1>0, <2>1, <2>2, <2>4 DEF HookTypes, TaskRecords
<1>7. ASSUME NEW r \in Requests, Lookup(r) \/ Patch(r) \/ Delete(r) PROVE Kept
  <2>1. UNCHANGED <<tasks, failures, posted>> /\ request' \in [Requests -> {"new", "found", "done"}]
    BY <1>0, <1>7 DEF Lookup, Patch, Delete, HookTypes
  <2>2. /\ hook' \in [active : BOOLEAN, deleted : BOOLEAN, failureCount : 0 .. failures,
                      disabled : BOOLEAN]
        /\ hook'.disabled = hook.disabled
    BY <1>0, <1>7 DEF Lookup, Patch, Delete, HookTypes
  <2> QED BY <1>0, <2>1, <2>2 DEF HookTypes, FailureOwned, DisabledEarned
<1> QED BY <1>1, <1>2, <1>3, <1>4, <1>5, <1>6, <1>7 DEF WebhookNext, TaskStep, StreamStep

LEMMA HookInvInit == WebhookInit => HookInv
<1> SUFFICES ASSUME WebhookInit PROVE HookInv
  OBVIOUS
<1>1. StreamInv
  BY StreamInvInit DEF WebhookInit
<1>2. HookTypes /\ FailureOwned /\ DisabledEarned
  BY DEF WebhookInit, HookTypes, FailureOwned, DisabledEarned
<1> QED BY <1>1, <1>2 DEF HookInv

\* The invariant of the consumers and of the deliveries they start.
THEOREM HookInvariant == WebhookSpec => []HookInv
<1>1. HookInv /\ [WebhookNext]_allVars => HookInv'
  <2>1. ASSUME HookInv, WebhookNext PROVE HookInv'
    BY <2>1, StreamStepOrAside, HookKept DEF HookInv
  <2>2. ASSUME HookInv, UNCHANGED allVars PROVE HookInv'
    <3>1. StreamInv /\ faults \in 0 .. MaxFaults /\ UNCHANGED vars
      BY <2>2 DEF HookInv, StreamInv, TypeOK, allVars
    <3>2. StreamInv'
      BY <3>1, StreamInvAside DEF vars
    <3>3. (HookTypes /\ FailureOwned /\ DisabledEarned)'
      BY <2>2 DEF allVars, hookVars, HookInv, HookTypes, FailureOwned, DisabledEarned
    <3> QED BY <3>2, <3>3 DEF HookInv
  <2> QED BY <2>1, <2>2
<1> QED BY <1>1, HookInvInit, PTL DEF WebhookSpec

\* The stream's group, the consumers' hands, the hook's row and its running deliveries keep
\* their types (redis.ts, webhookDispatcher.ts).
THEOREM WebhookTypes == WebhookSpec => []WebhookTypeOK
<1>1. HookInv => WebhookTypeOK
  BY DEF HookInv, StreamInv, HookTypes, WebhookTypeOK
<1> QED BY <1>1, HookInvariant, PTL

\* However consumers read, crash, come back, close and fail to acknowledge, an entry that the
\* group was given is acknowledged or pending for exactly one name (redis.ts:consume).
THEOREM NoEntryIsDropped == WebhookSpec => []NoneDropped
<1>1. HookInv => NoneDropped
  BY OnceIsOne DEF HookInv
<1> QED BY <1>1, HookInvariant, PTL

\* An acknowledged entry has been through the handlers, unless the consumer was closed
\* (redis.ts:consume, close).
THEOREM OnlySeenIsAcked == WebhookSpec => []AckedWasSeen
<1>1. HookInv => AckedWasSeen
  BY DEF HookInv, StreamInv
<1> QED BY <1>1, HookInvariant, PTL

\* Whatever failure counts overlapping deliveries read and write back, a hook is given up
\* only after MaxFailures failed posts (webhookDispatcher.ts:startWebhookDispatcher).
THEOREM GivenUpIsEarned == WebhookSpec => []DisabledEarned
<1>1. HookInv => DisabledEarned
  BY DEF HookInv
<1> QED BY <1>1, HookInvariant, PTL
-----------------------------------------------------------------------------
(* EventPosted: who still has to post an event.                            *)

\* Nothing has failed, and the hook was never switched off or deleted.
LeftAlone == faults = 0 /\ ~hook.disabled /\ \A r \in Requests : request[r] # "done"

\* Read by a consumer that has not given it to the handlers yet.
InHandOf(p, i) == i \in batch[p] /\ (loop[p] = "ack" => i # Next1(p))

Delivering(i) == \E t \in tasks : t.event = i /\ t.step \in {"find", "post"}

Due(i) ==
  \/ last < i
  \/ \E p \in Processes : InHandOf(p, i)
  \/ Delivering(i)
  \/ i \in posted

\* An event the hook is owed is still to be read, or read, or being delivered, or posted.
EventIsDue == LeftAlone /\ group # NoGroup => \A i \in group + 1 .. added : Due(i)

\* The row is as it was made; and a process that has not started, or has ended, delivers nothing.
HookStands ==
  ~hook.disabled /\ (\A r \in Requests : request[r] # "done") => hook.active /\ ~hook.deleted

NobodyLeft ==
  faults = 0 => \A p \in Processes :
    ~closed[p] /\ (loop[p] = "off" => \A t \in tasks : t.at # p)

OwedInv == HookStands /\ NobodyLeft /\ EventIsDue

\* The steps that count as a fault.
Faulty ==
  \E p \in Processes :
    EnsureGroupFails(p) \/ ReadLost(p) \/ AckFails(p) \/ Close(p) \/ Crash(p)

LEMMA FaultCounts ==
  ASSUME HookInv
  PROVE  /\ faults \in Nat
         /\ Fault => faults' # 0
         /\ Faulty => faults' # 0
<1>1. faults \in Nat
  BY Bounds DEF HookInv, StreamInv, TypeOK
<1>2. Fault => faults' # 0
  BY <1>1 DEF Fault
<1>3. Faulty => Fault
  BY DEF Faulty, EnsureGroupFails, ReadLost, AckFails, Close, Crash
<1> QED BY <1>1, <1>2, <1>3

LEMMA HookStandsKept ==
  ASSUME HookInv, HookStands, WebhookNext
  PROVE  HookStands'
<1>0. /\ hook \in [active : BOOLEAN, deleted : BOOLEAN, failureCount : 0 .. failures,
                   disabled : BOOLEAN]
      /\ request \in [Requests -> {"new", "found", "done"}]
  BY DEF HookInv, HookTypes
<1>1. CASE UNCHANGED <<hook, request>>
  BY <1>1 DEF HookStands
<1>2. ASSUME NEW t \in tasks, Record(t) PROVE HookStands'
  <2>1. request' = request
    BY <1>2 DEF Record
  <2>2. hook'.disabled \/ (hook'.disabled = hook.disabled /\ hook'.active = hook.active
                           /\ hook'.deleted = hook.deleted)
    BY <1>0, <1>2 DEF Record, Failed
  <2> QED BY <2>1, <2>2 DEF HookStands
<1>3. ASSUME NEW r \in Requests, Lookup(r) PROVE HookStands'
  <2>1. hook' = hook /\ request' = [request EXCEPT ![r] = IF hook.deleted THEN "done" ELSE "found"]
        /\ request[r] = "new"
    BY <1>3 DEF Lookup
  <2>2. \A s \in Requests : request'[s] # "done" => request[s] # "done"
    BY <1>0, <2>1
  <2> QED BY <2>1, <2>2 DEF HookStands
<1>4. ASSUME NEW r \in Requests, Patch(r) \/ Delete(r) PROVE HookStands'
  <2>1. request'[r] = "done"
    BY <1>0, <1>4 DEF Patch, Delete
  <2> QED BY <2>1 DEF HookStands
<1> QED BY <1>1, <1>2, <1>3, <1>4
       DEF WebhookNext, StreamStep, StartDelivery, Die, TaskStep, Find, Post, hookVars

LEMMA NobodyLeftKept ==
  ASSUME HookInv, NobodyLeft, WebhookNext
  PROVE  NobodyLeft'
<1>0. /\ TypeOK /\ faults \in Nat /\ (Fault => faults' # 0) /\ (Faulty => faults' # 0)
  BY FaultCounts DEF HookInv, StreamInv
<1>1. ASSUME UNCHANGED <<closed, loop>>, faults' = faults \/ faults' # 0,
             \A u \in tasks' : \E t \in tasks : u.at = t.at
      PROVE  NobodyLeft'
  BY <1>1 DEF NobodyLeft
<1>2. ASSUME NEW p \in Processes, StartDelivery(p) PROVE NobodyLeft'
  <2>1. /\ UNCHANGED <<closed, faults>> /\ loop' = [loop EXCEPT ![p] = "ack"]
        /\ \A u \in tasks' : u \in tasks \/ u.at = p
    BY <1>2 DEF StartDelivery, Dispatch, Goto, loopVars, Task
  <2>2. loop'[p] # "off" /\ \A q \in Processes \ {p} : loop'[q] = loop[q]
    BY <1>0, <2>1 DEF TypeOK
  <2> QED BY <2>1, <2>2 DEF NobodyLeft
<1>3. ASSUME NEW p \in Processes, NEW n \in Names, Subscribe(p, n), Killed(p) PROVE NobodyLeft'
  <2>1. /\ faults' = faults /\ loop' = [loop EXCEPT ![p] = "group"]
        /\ closed' = [closed EXCEPT ![p] = FALSE] /\ tasks' \subseteq tasks
    BY <1>3 DEF Subscribe, Goto, Killed
  <2>2. /\ loop'[p] # "off" /\ ~closed'[p]
        /\ \A q \in Processes \ {p} : loop'[q] = loop[q] /\ closed'[q] = closed[q]
    BY <1>0, <2>1 DEF TypeOK
  <2> QED BY <2>1, <2>2 DEF NobodyLeft
<1>4. ASSUME NEW p \in Processes, EnsureGroup(p) \/ ReadPending(p) \/ ReadNew(p) \/ Ack(p),
             tasks' = tasks
      PROVE  NobodyLeft'
  <2>1. UNCHANGED <<closed, faults>> /\ \A q \in Processes \ {p} : loop'[q] = loop[q]
    BY <1>0, <1>4 DEF EnsureGroup, ReadPending, ReadNew, Ack, Goto, loopVars, TypeOK
  <2>2. ~closed[p] => loop'[p] # "off"
    BY <1>0, <1>4 DEF EnsureGroup, ReadPending, ReadNew, Ack, AfterAck, Goto, TypeOK
  <2> QED BY <1>4, <2>1, <2>2 DEF NobodyLeft
<1>5. CASE Publish /\ UNCHANGED hookVars
  BY <1>1, <1>5 DEF Publish, loopVars, hookVars
<1>6. CASE Faulty
  BY <1>0, <1>6 DEF NobodyLeft
<1>7. ASSUME NEW t \in tasks, Find(t) PROVE NobodyLeft'
  <2>1. t \in TaskRecords(failures)
    BY <1>7 DEF HookInv, HookTypes, TaskRecords
  <2>2. [t EXCEPT !.step = "post", !.read = hook.failureCount].at = t.at
    BY <2>1 DEF TaskRecords
  <2>3. UNCHANGED <<closed, loop, faults>> /\ \A u \in tasks' : u \in tasks \/ u.at = t.at
    BY <1>7, <2>2 DEF Find, Finish, vars, loopVars
  <2> QED BY <1>1, <2>3
<1>8. ASSUME NEW t \in tasks, Post(t) PROVE NobodyLeft'
  <2>1. t \in TaskRecords(failures)
    BY <1>8 DEF HookInv, HookTypes, TaskRecords
  <2>2. \A step : [t EXCEPT !.step = step].at = t.at
    BY <2>1 DEF TaskRecords
  <2>3. UNCHANGED <<closed, loop, faults>> /\ \A u \in tasks' : u \in tasks \/ u.at = t.at
    BY <1>8, <2>2 DEF Post, Advance, vars, loopVars
  <2> QED BY <1>1, <2>3
<1>9. ASSUME NEW t \in tasks, Record(t) PROVE NobodyLeft'
  BY <1>0, <1>1, <1>9 DEF Record, Finish, loopVars
<1>10. ASSUME NEW r \in Requests, Lookup(r) \/ Patch(r) \/ Delete(r) PROVE NobodyLeft'
  BY <1>1, <1>10 DEF Lookup, Patch, Delete, vars, loopVars
<1> QED BY <1>2, <1>3, <1>4, <1>5, <1>6, <1>7, <1>8, <1>9, <1>10
       DEF WebhookNext, StreamStep, Die, TaskStep, Faulty, hookVars

\* What a consumer keeps in hand over a step that leaves its batch and does not begin to
\* acknowledge.
LEMMA HandsKept ==
  ASSUME NEW p \in Processes, NEW i, InHandOf(p, i), batch'[p] = batch[p],
         loop'[p] = loop[p] \/ loop'[p] # "ack"
  PROVE  InHandOf(p, i)'
<1>1. Next1(p)' = Next1(p)
  BY DEF Next1
<1> QED BY <1>1 DEF InHandOf

\* A step of the consumers.
LEMMA ConsumerOwes ==
  ASSUME HookInv, OwedInv, NEW p \in Processes, LeftAlone', group' # NoGroup,
         \/ StartDelivery(p)
         \/ (\E n \in Names : Subscribe(p, n)) /\ Killed(p) /\ posted' = posted
         \/ (EnsureGroup(p) \/ ReadPending(p) \/ ReadNew(p) \/ Ack(p)) /\ UNCHANGED hookVars,
         LeftAlone, NEW i \in group' + 1 .. added'
  PROVE  Due(i)'
<1>0. /\ TypeOK /\ InHand /\ NobodyLeft /\ EventIsDue /\ faults = 0
      /\ loop \in [Processes -> {"off", "group", "read", "dispatch", "ack", "crashed"}]
      /\ batch \in [Processes -> SUBSET Ids]
      /\ added \in Nat /\ last \in Nat /\ last <= added
  BY DEF HookInv, StreamInv, OwedInv, TypeOK, LeftAlone
<1>1. ASSUME group' = group, added' = added PROVE Due(i)
  BY <1>0, <1>1 DEF EventIsDue
<1>2. ASSUME Due(i), last' = last, tasks' = tasks, posted' = posted,
             \A q \in Processes : batch[q] # {} =>
               batch'[q] = batch[q] /\ (loop'[q] = loop[q] \/ loop'[q] # "ack")
      PROVE  Due(i)'
  <2>1. \A q \in Processes : InHandOf(q, i) => InHandOf(q, i)'
    <3> SUFFICES ASSUME NEW q \in Processes, InHandOf(q, i) PROVE InHandOf(q, i)'
      OBVIOUS
    <3>1. batch[q] # {}
      BY DEF InHandOf
    <3> QED BY <1>2, <3>1, HandsKept
  <2> QED BY <1>2, <2>1 DEF Due, Delivering
<1>3. CASE StartDelivery(p)
  <2>1. /\ UNCHANGED <<added, group, last, batch, posted>> /\ loop' = [loop EXCEPT ![p] = "ack"]
        /\ ~closed[p] /\ tasks' = tasks \cup {Task(Next1(p), p)}
    BY <1>0, <1>3 DEF StartDelivery, Dispatch, Goto, streamVars, NobodyLeft
  <2>2. Due(i)
    BY <1>1, <2>1
  <2>3. Task(Next1(p), p).event = Next1(p) /\ Task(Next1(p), p).step = "find"
    BY DEF Task
  <2>4. Delivering(Next1(p))' /\ \A j : Delivering(j) => Delivering(j)'
    <3>1. Next1(p)' = Next1(p)
      BY <2>1 DEF Next1
    <3> QED BY <2>1, <2>3, <3>1 DEF Delivering
  <2>5. Next1(p)' = Next1(p)
    BY <2>1 DEF Next1
  <2>6. i = Next1(p) => Delivering(i)'
    BY <2>4, <2>5
  <2>7. ASSUME NEW q \in Processes, InHandOf(q, i), i # Next1(p) PROVE InHandOf(q, i)'
    <3>1. CASE q = p
      BY <2>1, <2>5, <2>7, <3>1 DEF InHandOf
    <3>2. CASE q # p
      <4>1. batch'[q] = batch[q] /\ loop'[q] = loop[q]
        BY <1>0, <2>1, <3>2
      <4> QED BY <2>7, <4>1, HandsKept
    <3> QED BY <3>1, <3>2
  <2> QED BY <2>1, <2>2, <2>4, <2>6, <2>7 DEF Due
<1>4. CASE (\E n \in Names : Subscribe(p, n)) /\ Killed(p) /\ posted' = posted
  <2>1. /\ UNCHANGED <<added, group, last, batch>> /\ loop[p] = "off"
        /\ loop' = [loop EXCEPT ![p] = "group"]
    BY <1>4 DEF Subscribe, Goto, streamVars
  <2>2. tasks' = tasks
    BY <1>0, <1>4, <2>1 DEF Killed, NobodyLeft
  <2>3. \A q \in Processes : loop'[q] = loop[q] \/ loop'[q] # "ack"
    BY <1>0, <2>1
  <2> QED BY <1>1, <1>2, <1>4, <2>1, <2>2, <2>3
<1>5. CASE EnsureGroup(p) /\ UNCHANGED hookVars
  <2>1. group # NoGroup
    BY <1>0, <1>5 DEF EnsureGroup
  <2>2. /\ UNCHANGED <<added, group, last, batch, tasks, posted>>
        /\ loop' = [loop EXCEPT ![p] = "read"]
    BY <1>5, <2>1 DEF EnsureGroup, GroupStart, Goto, hookVars
  <2>3. \A q \in Processes : loop'[q] = loop[q] \/ loop'[q] # "ack"
    BY <1>0, <2>2
  <2> QED BY <1>1, <1>2, <2>2, <2>3
<1>6. CASE ReadPending(p) /\ UNCHANGED hookVars
  <2>1. batch[p] = {}
    BY <1>0, <1>6 DEF ReadPending, InHand
  <2>2. /\ UNCHANGED <<added, group, last, tasks, posted>>
        /\ \A q \in Processes \ {p} : batch'[q] = batch[q] /\ loop'[q] = loop[q]
    BY <1>0, <1>6 DEF ReadPending, Goto, streamVars, hookVars
  <2>3. \A q \in Processes : batch[q] # {} => batch'[q] = batch[q] /\ loop'[q] = loop[q]
    BY <2>1, <2>2
  <2> QED BY <1>1, <1>2, <2>2, <2>3
<1>7. CASE ReadNew(p) /\ UNCHANGED hookVars
  <2>1. batch[p] = {}
    BY <1>0, <1>7 DEF ReadNew, InHand
  <2>2. /\ UNCHANGED <<added, group, tasks, posted>> /\ last' = last + Cardinality(New)
        /\ batch' = [batch EXCEPT ![p] = New] /\ loop' = [loop EXCEPT ![p] = "dispatch"]
    BY <1>7 DEF ReadNew, Goto, hookVars
  <2>3. Cardinality(New) \in Nat /\ New = last + 1 .. last + Cardinality(New)
    BY <1>0, NewIsNext
  <2>4. Due(i)
    BY <1>1, <2>2
  <2>5. CASE last < i
    <3>1. i \in Int /\ last' \in Nat
      BY <1>0, <2>2, <2>3 DEF TypeOK
    <3>2. last' < i \/ i \in New
      BY <1>0, <2>2, <2>3, <2>5, <3>1
    <3>3. batch'[p] = New /\ loop'[p] = "dispatch"
      BY <1>0, <2>2
    <3> QED BY <3>2, <3>3 DEF Due, InHandOf
  <2>6. \A q \in Processes : InHandOf(q, i) => InHandOf(q, i)'
    <3> SUFFICES ASSUME NEW q \in Processes, InHandOf(q, i) PROVE InHandOf(q, i)'
      OBVIOUS
    <3>1. q # p
      BY <2>1 DEF InHandOf
    <3>2. batch'[q] = batch[q] /\ loop'[q] = loop[q]
      BY <1>0, <2>2, <3>1
    <3> QED BY <3>2, HandsKept
  <2> QED BY <2>2, <2>4, <2>5, <2>6 DEF Due, Delivering
<1>8. CASE Ack(p) /\ UNCHANGED hookVars
  <2> DEFINE rest == batch[p] \ {Next1(p)}
  <2>1. /\ UNCHANGED <<added, group, last, tasks, posted>> /\ loop[p] = "ack"
        /\ batch' = [batch EXCEPT ![p] = rest] /\ loop' = [loop EXCEPT ![p] = AfterAck(p, rest)]
    BY <1>8 DEF Ack, AckIds, Goto, streamVars, hookVars
  <2>2. Due(i)
    BY <1>1, <2>1
  <2>3. ASSUME NEW q \in Processes, InHandOf(q, i) PROVE InHandOf(q, i)'
    <3>1. CASE q = p
      <4>1. i \in rest
        BY <2>1, <2>3, <3>1 DEF InHandOf
      <4>2. AfterAck(p, rest) = "dispatch"
        BY <4>1 DEF AfterAck
      <4>3. batch'[p] = rest /\ loop'[p] = "dispatch"
        BY <1>0, <2>1, <4>2
      <4> HIDE DEF rest
      <4> QED BY <3>1, <4>1, <4>3 DEF InHandOf
    <3>2. CASE q # p
      <4>1. batch'[q] = batch[q] /\ loop'[q] = loop[q]
        BY <1>0, <2>1, <3>2
      <4> QED BY <2>3, <4>1, HandsKept
    <3> QED BY <3>1, <3>2
  <2> QED BY <2>1, <2>2, <2>3 DEF Due, Delivering
<1> QED BY <1>3, <1>4, <1>5, <1>6, <1>7, <1>8

\* A step of a delivery: it moves on to its post while the hook stands.
LEMMA DeliveryOwes ==
  ASSUME HookInv, OwedInv, NEW t \in tasks, TaskStep(t), LeftAlone, NEW i, Due(i)
  PROVE  Due(i)'
<1>0. hook.active /\ ~hook.deleted /\ t \in TaskRecords(failures)
  BY DEF LeftAlone, OwedInv, HookStands, HookInv, HookTypes, TaskRecords
<1>1. UNCHANGED <<last, batch, loop>> /\ posted \subseteq posted'
  BY DEF TaskStep, Find, Post, Record, vars, streamVars
<1>2. \A q \in Processes : InHandOf(q, i) => InHandOf(q, i)'
  BY <1>1, HandsKept
<1>3. ASSUME Delivering(i) PROVE Delivering(i)' \/ i \in posted'
  <2>1. PICK u \in tasks : u.event = i /\ u.step \in {"find", "post"}
    BY <1>3 DEF Delivering
  <2>2. CASE u # t
    <3>1. u \in tasks'
      BY <2>2 DEF TaskStep, Find, Post, Record, Advance, Finish
    <3> QED BY <2>1, <3>1 DEF Delivering
  <2>3. CASE u = t
    <3>1. CASE Find(t)
      <4> DEFINE x == [t EXCEPT !.step = "post", !.read = hook.failureCount]
      <4>1. x \in tasks'
        BY <1>0, <3>1 DEF Find
      <4>2. x.event = t.event /\ x.step = "post"
        BY <1>0 DEF TaskRecords
      <4> HIDE DEF x
      <4> QED BY <2>1, <2>3, <4>1, <4>2 DEF Delivering
    <3>2. CASE Post(t)
      BY <2>1, <2>3, <3>2 DEF Post
    <3>3. CASE Record(t)
      BY <2>1, <2>3, <3>3 DEF Record
    <3> QED BY <3>1, <3>2, <3>3 DEF TaskStep
  <2> QED BY <2>2, <2>3
<1> QED BY <1>1, <1>2, <1>3 DEF Due

LEMMA EventIsDueKept ==
  ASSUME HookInv, OwedInv, WebhookNext
  PROVE  EventIsDue'
<1>0. faults \in Nat /\ (Fault => faults' # 0) /\ (Faulty => faults' # 0)
  BY FaultCounts
<1>h. /\ hook \in [active : BOOLEAN, deleted : BOOLEAN, failureCount : 0 .. failures,
                   disabled : BOOLEAN]
      /\ request \in [Requests -> {"new", "found", "done"}]
      /\ added \in Nat /\ last \in Nat /\ last <= added /\ group \in Int
  BY Bounds DEF HookInv, HookTypes, StreamInv, TypeOK, NoGroup
<1> SUFFICES ASSUME LeftAlone', group' # NoGroup, NEW i \in group' + 1 .. added'
             PROVE  Due(i)'
  BY DEF EventIsDue
<1>1. ~ Faulty
  BY <1>0 DEF LeftAlone
<1>2. LeftAlone
  <2>1. faults' = 0 => faults = 0
    BY <1>0, <1>1 DEF WebhookNext, StreamStep, StartDelivery, Die, TaskStep, Find, Post, Record,
       Lookup, Patch, Delete, Publish, EnsureGroup, ReadPending, ReadNew, Dispatch, Ack, Subscribe,
       Faulty, vars
  <2>2. ~ hook'.disabled => ~ hook.disabled
    <3>1. ASSUME NEW t \in tasks, Record(t) PROVE ~ hook'.disabled => ~ hook.disabled
      BY <1>h, <3>1 DEF Record, Failed
    <3>2. ASSUME NEW r \in Requests, Lookup(r) \/ Patch(r) \/ Delete(r)
          PROVE  ~ hook'.disabled => ~ hook.disabled
      BY <1>h, <3>2 DEF Lookup, Patch, Delete
    <3> QED BY <3>1, <3>2
           DEF WebhookNext, StreamStep, StartDelivery, Die, TaskStep, Find, Post, hookVars
  <2>3. \A r \in Requests : request'[r] # "done" => request[r] # "done"
    <3>1. ASSUME NEW r \in Requests, Lookup(r) \/ Patch(r) \/ Delete(r)
          PROVE  \A s \in Requests : request'[s] # "done" => request[s] # "done"
      BY <1>h, <3>1 DEF Lookup, Patch, Delete
    <3> QED BY <3>1
           DEF WebhookNext, StreamStep, StartDelivery, Die, TaskStep, Find, Post, Record, hookVars
  <2> QED BY <2>1, <2>2, <2>3 DEF LeftAlone
<1>3. CASE Publish /\ UNCHANGED hookVars
  <2>1. UNCHANGED <<group, last, batch, loop, tasks, posted>> /\ added' = added + 1
    BY <1>3 DEF Publish, hookVars
  <2>2. \A q \in Processes : InHandOf(q, i) => InHandOf(q, i)'
    BY <2>1, HandsKept
  <2>3. i = added + 1 \/ i \in group + 1 .. added
    BY <1>h, <2>1
  <2>4. i = added + 1 => last < i
    BY <1>h
  <2>5. Due(i)
    BY <1>2, <2>1, <2>3, <2>4 DEF OwedInv, EventIsDue, Due
  <2> QED BY <2>1, <2>2, <2>5 DEF Due, Delivering
<1>4. ASSUME NEW p \in Processes,
             \/ StartDelivery(p)
             \/ (\E n \in Names : Subscribe(p, n)) /\ Killed(p) /\ posted' = posted
             \/ (EnsureGroup(p) \/ ReadPending(p) \/ ReadNew(p) \/ Ack(p)) /\ UNCHANGED hookVars
      PROVE  Due(i)'
  BY <1>2, <1>4, ConsumerOwes
<1>5. ASSUME NEW t \in tasks, TaskStep(t) PROVE Due(i)'
  <2>1. UNCHANGED <<added, group>>
    BY <1>5 DEF TaskStep, Find, Post, Record, vars, streamVars
  <2>2. Due(i)
    BY <1>2, <2>1 DEF OwedInv, EventIsDue
  <2> QED BY <1>2, <1>5, <2>2, DeliveryOwes
<1>6. ASSUME NEW r \in Requests, Lookup(r) \/ Patch(r) \/ Delete(r) PROVE Due(i)'
  <2>1. UNCHANGED <<added, group, last, batch, loop, tasks, posted>>
    BY <1>6 DEF Lookup, Patch, Delete, vars, streamVars
  <2>2. Due(i)
    BY <1>2, <2>1 DEF OwedInv, EventIsDue
  <2>3. \A q \in Processes : InHandOf(q, i) => InHandOf(q, i)'
    BY <2>1, HandsKept
  <2> QED BY <2>1, <2>2, <2>3 DEF Due, Delivering
<1> QED BY <1>1, <1>3, <1>4, <1>5, <1>6 DEF WebhookNext, StreamStep, Die, Faulty

\* While nothing fails and the hook is left on, every event published behind the group's start waits
\* in the stream, is in the hand of a consumer that will dispatch it, is being delivered, or has been
\* posted: the acknowledgement that runs ahead of the delivery loses none (redis.ts:consume,
\* webhookDispatcher.ts).
THEOREM EventComesDue == WebhookSpec => []EventIsDue
<1>1. WebhookInit => OwedInv
  <2> SUFFICES ASSUME WebhookInit PROVE OwedInv
    OBVIOUS
  <2>1. HookStands
    BY DEF WebhookInit, HookStands
  <2>2. NobodyLeft
    BY DEF WebhookInit, Init, NobodyLeft
  <2>3. group = NoGroup
    BY DEF WebhookInit, Init
  <2> QED BY <2>1, <2>2, <2>3 DEF OwedInv, EventIsDue
<1>2. HookInv /\ OwedInv /\ [WebhookNext]_allVars => OwedInv'
  <2>1. ASSUME HookInv, OwedInv, WebhookNext PROVE OwedInv'
    <3>1. HookStands /\ NobodyLeft
      BY <2>1 DEF OwedInv
    <3> QED BY <2>1, <3>1, HookStandsKept, NobodyLeftKept, EventIsDueKept DEF OwedInv
  <2>2. ASSUME OwedInv, UNCHANGED allVars PROVE OwedInv'
    <3>1. UNCHANGED <<hook, request, faults, closed, loop, batch, tasks, posted, last, added, group>>
      BY <2>2 DEF allVars, vars, hookVars, streamVars, loopVars
    <3>2. (\A p \in Processes : Next1(p)' = Next1(p))
      BY <3>1 DEF Next1
    <3>3. \A i : Due(i) => Due(i)'
      BY <3>1, <3>2 DEF Due, InHandOf, Delivering
    <3>4. HookStands' /\ NobodyLeft'
      BY <2>2, <3>1 DEF OwedInv, HookStands, NobodyLeft
    <3> QED BY <2>2, <3>1, <3>3, <3>4 DEF OwedInv, EventIsDue, LeftAlone
  <2> QED BY <2>1, <2>2
<1>3. OwedInv => EventIsDue
  BY DEF OwedInv
<1> QED BY <1>1, <1>2, <1>3, HookInvariant, PTL DEF WebhookSpec
-----------------------------------------------------------------------------
(* RestartResumes: which consumer holds on to what was left pending.       *)

\* An entry that was left pending for the name a process came back under is in the batch that its
\* first read will bring, or in the batch that it brought.
Resuming(p, i) ==
  \/ /\ loop[p] = "group" \/ (loop[p] = "read" /\ cursor[p] = "0")
     /\ i \in Lowest(pel[name[p]], BatchSize)
  \/ loop[p] \in {"dispatch", "ack"} /\ i \in batch[p]

\* Only the acknowledgement or a fault takes it from there.
ResumesUntilAcked ==
  \A p \in Processes, i \in Ids :
    Resuming(p, i) => Resuming(p, i)' \/ i \in acked' \/ faults' # faults

FirstReadsPending == \A p \in Processes : loop[p] = "group" => cursor[p] = "0"

LEMMA FirstReadKept ==
  ASSUME StreamInv, FirstReadsPending, Next \/ UNCHANGED vars
  PROVE  FirstReadsPending'
<1> USE DEF StreamInv, TypeOK, FirstReadsPending, Goto
<1>1. CASE Publish \/ UNCHANGED vars
  BY <1>1 DEF Publish, vars, loopVars
<1>2. ASSUME NEW p \in Processes, NEW n \in Names, Subscribe(p, n) PROVE FirstReadsPending'
  BY <1>2 DEF Subscribe, FirstRead
<1>3. ASSUME NEW p \in Processes, Loop(p) PROVE FirstReadsPending'
  <2>1. loop'[p] # "group" /\ \A q \in Processes \ {p} : loop'[q] = loop[q] /\ cursor'[q] = cursor[q]
    BY <1>3 DEF Loop, EnsureGroup, ReadPending, ReadNew, Dispatch, Ack, AfterAck, loopVars
  <2> QED BY <2>1
<1>4. ASSUME NEW p \in Processes,
             EnsureGroupFails(p) \/ ReadLost(p) \/ AckFails(p) \/ Close(p) \/ Crash(p)
      PROVE  FirstReadsPending'
  BY <1>4 DEF EnsureGroupFails, ReadLost, AckFails, Close, Crash, loopVars
<1> QED BY <1>1, <1>2, <1>3, <1>4 DEF Next

\* A step of another process, or of none.
LEMMA AsideResumes ==
  ASSUME NEW p \in Processes, NEW i \in Ids, Resuming(p, i),
         loop'[p] = loop[p], cursor'[p] = cursor[p], name'[p] = name[p], batch'[p] = batch[p],
         pel'[name[p]] = pel[name[p]] \/ loop[p] \notin {"group", "read"}
  PROVE  Resuming(p, i)'
  BY DEF Resuming

LEMMA OthersResume ==
  ASSUME StreamInv, NEW p \in Processes, NEW i \in Ids, Resuming(p, i),
         NEW q \in Processes \ {p}, Loop(q) \/ \E n \in Names : Subscribe(q, n)
  PROVE  Resuming(p, i)'
<1> USE DEF StreamInv, TypeOK, Goto
<1>1. /\ loop'[p] = loop[p] /\ cursor'[p] = cursor[p] /\ name'[p] = name[p] /\ batch'[p] = batch[p]
  BY DEF Loop, EnsureGroup, ReadPending, ReadNew, Dispatch, Ack, Subscribe, loopVars
<1>2. \A n \in Names : n # name[q] => pel'[n] = pel[n]
  BY DEF Loop, EnsureGroup, ReadPending, ReadNew, Dispatch, Ack, Acknowledge, Subscribe
<1>3. CASE loop[p] \in {"group", "read"}
  <2>1. name[p] \in Names /\ Alive(p)
    BY <1>3 DEF OwnNames, Alive
  <2>2. Alive(q) => name[p] # name[q]
    BY <2>1 DEF OwnNames
  <2>3. ~Alive(q) => pel' = pel
    BY DEF Loop, EnsureGroup, ReadPending, ReadNew, Dispatch, Ack, Subscribe, Alive
  <2>4. pel'[name[p]] = pel[name[p]]
    BY <1>2, <2>1, <2>2, <2>3
  <2> QED BY <1>1, <2>4, AsideResumes
<1> QED BY <1>1, <1>3, AsideResumes

LEMMA OwnResumes ==
  ASSUME StreamInv, FirstReadsPending, NEW p \in Processes, NEW i \in Ids, Resuming(p, i), Loop(p)
  PROVE  Resuming(p, i)' \/ i \in acked'
<1> USE DEF StreamInv, TypeOK, Goto
<1>1. CASE EnsureGroup(p)
  BY <1>1 DEF EnsureGroup, Resuming, FirstReadsPending, loopVars
<1>2. CASE ReadPending(p)
  <2>1. i \in Lowest(Pending(p), BatchSize)
    BY <1>2 DEF ReadPending, Resuming, Pending
  <2>2. Pending(p) # {}
    BY <2>1 DEF Lowest
  <2> QED BY <1>2, <2>1, <2>2 DEF ReadPending, Resuming
<1>3. ~ReadNew(p)
  BY DEF ReadNew, Resuming
<1>4. CASE Dispatch(p)
  BY <1>4 DEF Dispatch, Resuming
<1>5. CASE Ack(p)
  <2>1. i \in batch[p]
    BY <1>5 DEF Ack, Resuming
  <2>2. CASE i = Next1(p)
    BY <1>5, <2>2 DEF Ack, Acknowledge, AckIds
  <2>3. CASE i # Next1(p)
    <3>1. i \in batch[p] \ AckIds(p)
      BY <2>1, <2>3 DEF AckIds
    <3> QED BY <1>5, <3>1 DEF Ack, AfterAck, Resuming
  <2> QED BY <2>2, <2>3
<1> QED BY <1>1, <1>2, <1>3, <1>4, <1>5 DEF Loop

\* Once a process has come back under the name of one that died, the first batch left pending for
\* that name stays with it until it is acknowledged or something fails again: no other consumer
\* takes it, and its own reads do not pass over it (redis.ts:consume).
THEOREM LeftoversStay == WebhookSpec => [][ResumesUntilAcked]_allVars
<1>1. WebhookInit => FirstReadsPending
  BY DEF WebhookInit, Init, FirstReadsPending
<1>2. HookInv /\ [WebhookNext]_allVars => Next \/ UNCHANGED vars \/ (faults' # faults /\ UNCHANGED <<loop, cursor>>)
  <2> SUFFICES ASSUME HookInv, [WebhookNext]_allVars
               PROVE  Next \/ UNCHANGED vars \/ (faults' # faults /\ UNCHANGED <<loop, cursor>>)
    OBVIOUS
  <2>1. StreamStep => Next
    BY DEF StreamStep, Next, Loop
  <2>2. \A p \in Processes : StartDelivery(p) \/ Die(p) => Next
    BY DEF StartDelivery, Die, Next, Loop
  <2>3. \A t \in tasks : Find(t) \/ Post(t) => UNCHANGED vars
    BY DEF Find, Post
  <2>4. \A r \in Requests : Lookup(r) \/ Patch(r) \/ Delete(r) => UNCHANGED vars
    BY DEF Lookup, Patch, Delete
  <2>5. ASSUME NEW t \in tasks, Record(t)
        PROVE  UNCHANGED vars \/ (faults' # faults /\ UNCHANGED <<loop, cursor>>)
    <3>1. faults \in Nat
      BY FaultCounts
    <3> QED BY <2>5, <3>1 DEF Record, Fault, vars, streamVars, loopVars
  <2> QED BY <2>1, <2>2, <2>3, <2>4, <2>5 DEF WebhookNext, TaskStep, allVars
<1>3. HookInv /\ FirstReadsPending /\ [WebhookNext]_allVars => FirstReadsPending'
  <2>1. ASSUME FirstReadsPending, UNCHANGED <<loop, cursor>> PROVE FirstReadsPending'
    BY <2>1 DEF FirstReadsPending
  <2> QED BY <1>2, <2>1, FirstReadKept DEF HookInv
<1>4. HookInv /\ FirstReadsPending /\ [WebhookNext]_allVars => ResumesUntilAcked
  <2> SUFFICES ASSUME HookInv, FirstReadsPending, [WebhookNext]_allVars, faults' = faults,
                      NEW p \in Processes, NEW i \in Ids, Resuming(p, i)
               PROVE  Resuming(p, i)' \/ i \in acked'
    BY DEF ResumesUntilAcked
  <2>0. StreamInv /\ faults \in Nat /\ (Next \/ UNCHANGED vars)
    BY <1>2, FaultCounts DEF HookInv
  <2>1. CASE Publish \/ UNCHANGED vars
    BY <2>1, AsideResumes DEF Publish, vars, loopVars
  <2>2. ASSUME NEW q \in Processes, Loop(q) PROVE Resuming(p, i)' \/ i \in acked'
    BY <2>0, <2>2, OwnResumes, OthersResume
  <2>3. ASSUME NEW q \in Processes, NEW n \in Names, Subscribe(q, n) PROVE Resuming(p, i)'
    <3>1. q # p
      BY <2>3 DEF Subscribe, Resuming
    <3> QED BY <2>0, <2>3, <3>1, OthersResume
  <2>4. \A q \in Processes :
          ~(EnsureGroupFails(q) \/ ReadLost(q) \/ AckFails(q) \/ Close(q) \/ Crash(q))
    <3>1. ~Fault
      BY <2>0 DEF Fault
    <3> QED BY <3>1 DEF EnsureGroupFails, ReadLost, AckFails, Close, Crash
  <2> QED BY <2>0, <2>1, <2>2, <2>3, <2>4 DEF Next
<1> QED BY <1>1, <1>3, <1>4, HookInvariant, PTL DEF WebhookSpec
=============================================================================
