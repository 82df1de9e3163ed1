------------------------- MODULE MatchmakingProofs -------------------------
(* Proofs about Matchmaking: types, that a ticket is taken once and then   *)
(* matched or in the hands of its request, and that a server counts the    *)
(* players it was given.                                                   *)
EXTENDS Matchmaking, FiniteSetTheorems, FunctionTheorems, TLAPS

Steps == {"idle", "push", "length", "pop1", "pop2", "find", "save", "mark", "done", "failed"}

Distinct(s) == \A i, j \in 1 .. Len(s) : s[i] = s[j] => i = j

\* A ticket is nowhere before it is pushed, and then in one place: once in one queue, or once
\* among what one request has taken.
OnePlace ==
  /\ \A q \in Queues : Distinct(queue[q])
  /\ \A r \in Requests : Distinct(popped[r])
  /\ \A q1, q2 \in Queues : q1 # q2 => ToSet(queue[q1]) \cap ToSet(queue[q2]) = {}
  /\ \A r \in Requests : pc[r] \in {"idle", "push"} =>
       /\ \A q \in Queues : r \notin ToSet(queue[q])
       /\ \A s \in Requests : r \notin ToSet(popped[s])

\* A request looks for a server with tickets in hand, and marks those it has not marked yet.
InOrder ==
  \A r \in Requests :
    /\ pc[r] \in {"idle", "push", "length", "pop1"} => popped[r] = <<>>
    /\ pc[r] \in {"find", "save", "mark"} => popped[r] # <<>>
    /\ pc[r] \notin {"mark", "done", "failed"} => marked[r] = 0 /\ placed[r] = NoServer
    /\ placed[r] # NoServer => popped[r] # <<>>
    /\ pc[r] = "mark" => marked[r] < Len(popped[r])

Inv == TypeOK /\ InOrder /\ OnePlace /\ TakenOnce

-----------------------------------------------------------------------------
(* Sequences of tickets.                                                   *)

LEMMA ToSetIs ==
  ASSUME NEW s \in Seq(Requests)
  PROVE  /\ \A x : x \in ToSet(s) <=> \E i \in 1 .. Len(s) : x = s[i]
         /\ ToSet(s) \subseteq Requests
         /\ Len(s) \in Nat
  BY DEF ToSet

LEMMA AppendDistinct ==
  ASSUME NEW s \in Seq(Requests), NEW r \in Requests, Distinct(s), r \notin ToSet(s)
  PROVE  /\ Append(s, r) \in Seq(Requests)
         /\ Distinct(Append(s, r))
         /\ ToSet(Append(s, r)) = ToSet(s) \cup {r}
<1> DEFINE t == Append(s, r)
<1>1. /\ t \in Seq(Requests) /\ Len(t) = Len(s) + 1
      /\ \A i \in 1 .. Len(s) : t[i] = s[i]
      /\ t[Len(s) + 1] = r
  OBVIOUS
<1> HIDE DEF t
<1>2. /\ \A x : x \in ToSet(s) <=> \E i \in 1 .. Len(s) : x = s[i]
      /\ \A x : x \in ToSet(t) <=> \E i \in 1 .. Len(s) + 1 : x = t[i]
      /\ Len(s) \in Nat
  BY <1>1, ToSetIs
<1>3. Distinct(t)
  <2>1. \A i \in 1 .. Len(s) : s[i] # r
    BY <1>2
  <2>2. \A i \in 1 .. Len(s) + 1 : i \in 1 .. Len(s) \/ i = Len(s) + 1
    BY <1>2
  <2> QED BY <1>1, <2>1, <2>2 DEF Distinct
<1>4. ToSet(t) = ToSet(s) \cup {r}
  <2>1. \A i \in 1 .. Len(s) + 1 : i \in 1 .. Len(s) \/ i = Len(s) + 1
    BY <1>2
  <2>2. \A i \in 1 .. Len(s) : i \in 1 .. Len(s) + 1
    BY <1>2
  <2>3. Len(s) + 1 \in 1 .. Len(s) + 1
    BY <1>2
  <2> QED BY <1>1, <1>2, <2>1, <2>2, <2>3
<1> QED BY <1>1, <1>3, <1>4 DEF t

\* Cutting a sequence in two.
LEMMA CutDistinct ==
  ASSUME NEW s \in Seq(Requests), NEW n \in 0 .. Len(s), Distinct(s)
  PROVE  /\ SubSeq(s, 1, n) \in Seq(Requests) /\ Distinct(SubSeq(s, 1, n))
         /\ SubSeq(s, n + 1, Len(s)) \in Seq(Requests) /\ Distinct(SubSeq(s, n + 1, Len(s)))
         /\ ToSet(SubSeq(s, 1, n)) \cap ToSet(SubSeq(s, n + 1, Len(s))) = {}
         /\ ToSet(SubSeq(s, 1, n)) \subseteq ToSet(s)
         /\ ToSet(SubSeq(s, n + 1, Len(s))) \subseteq ToSet(s)
         /\ Len(SubSeq(s, 1, n)) = n
<1> DEFINE a == SubSeq(s, 1, n)
           b == SubSeq(s, n + 1, Len(s))
<1>0. Len(s) \in Nat /\ n \in Nat /\ n <= Len(s)
  BY ToSetIs
<1>1. /\ a \in Seq(Requests) /\ Len(a) = n
      /\ \A i \in 1 .. n : a[i] = s[i]
  BY <1>0
<1>2. /\ b \in Seq(Requests) /\ Len(b) = Len(s) - n
      /\ \A i \in 1 .. Len(s) - n : b[i] = s[i + n]
  BY <1>0
<1> HIDE DEF a, b
<1>3. /\ \A i \in 1 .. n : i \in 1 .. Len(s)
      /\ \A i \in 1 .. Len(s) - n : i + n \in 1 .. Len(s)
      /\ \A i \in 1 .. n, j \in 1 .. Len(s) - n : i # j + n
      /\ \A i, j \in 1 .. Len(s) - n : i + n = j + n => i = j
  BY <1>0
<1>4. Distinct(a) /\ Distinct(b)
  <2>1. Distinct(a)
    BY <1>1, <1>3 DEF Distinct
  <2>2. Distinct(b)
    <3> SUFFICES ASSUME NEW i \in 1 .. Len(s) - n, NEW j \in 1 .. Len(s) - n, b[i] = b[j]
                 PROVE  i = j
      BY <1>2 DEF Distinct
    <3>1. s[i + n] = s[j + n] /\ i + n \in 1 .. Len(s) /\ j + n \in 1 .. Len(s)
      BY <1>2, <1>3
    <3>2. i + n = j + n
      BY <3>1 DEF Distinct
    <3> QED BY <1>3, <3>2
  <2> QED BY <2>1, <2>2
<1>5. /\ \A x : x \in ToSet(s) <=> \E i \in 1 .. Len(s) : x = s[i]
      /\ \A x : x \in ToSet(a) <=> \E i \in 1 .. n : x = a[i]
      /\ \A x : x \in ToSet(b) <=> \E i \in 1 .. Len(s) - n : x = b[i]
  <2>1. \A x : x \in ToSet(s) <=> \E i \in 1 .. Len(s) : x = s[i]
    BY ToSetIs
  <2>2. \A x : x \in ToSet(a) <=> \E i \in 1 .. Len(a) : x = a[i]
    BY <1>1, ToSetIs
  <2>3. \A x : x \in ToSet(b) <=> \E i \in 1 .. Len(b) : x = b[i]
    BY <1>2, ToSetIs
  <2>4. 1 .. Len(a) = 1 .. n /\ 1 .. Len(b) = 1 .. Len(s) - n
    BY <1>1, <1>2
  <2> QED BY <2>1, <2>2, <2>3, <2>4, Zenon
<1>6. ToSet(a) \cap ToSet(b) = {}
  <2> SUFFICES ASSUME NEW x \in ToSet(a), x \in ToSet(b) PROVE FALSE
    OBVIOUS
  <2>1. PICK i \in 1 .. n : x = s[i]
    BY <1>1, <1>5
  <2>2. PICK j \in 1 .. Len(s) - n : x = s[j + n]
    BY <1>2, <1>5
  <2> QED BY <1>3, <2>1, <2>2 DEF Distinct
<1>7. ToSet(a) \subseteq ToSet(s) /\ ToSet(b) \subseteq ToSet(s)
  <2>1. ASSUME NEW x \in ToSet(a) PROVE x \in ToSet(s)
    BY <1>1, <1>3, <1>5
  <2>2. ASSUME NEW x \in ToSet(b) PROVE x \in ToSet(s)
    <3>1. PICK i \in 1 .. Len(s) - n : x = s[i + n]
      BY <1>2, <1>5, <2>2
    <3>2. i + n \in 1 .. Len(s)
      BY <1>3
    <3> QED BY <1>5, <3>1, <3>2
  <2> QED BY <2>1, <2>2
<1> QED BY <1>1, <1>2, <1>4, <1>6, <1>7 DEF a, b

\* Taking the first ticket of a sequence.
LEMMA TakeDistinct ==
  ASSUME NEW s \in Seq(Requests), s # <<>>, Distinct(s)
  PROVE  /\ Head(s) \in ToSet(s) /\ Head(s) \in Requests
         /\ Tail(s) \in Seq(Requests) /\ Distinct(Tail(s))
         /\ ToSet(Tail(s)) \subseteq ToSet(s)
         /\ Head(s) \notin ToSet(Tail(s))
<1> DEFINE t == Tail(s)
<1>1. /\ Head(s) = s[1] /\ Head(s) \in Requests /\ t \in Seq(Requests)
      /\ Len(s) \in Nat \ {0}
      /\ Len(t) = Len(s) - 1
      /\ \A i \in 1 .. Len(s) - 1 : t[i] = s[i + 1]
  OBVIOUS
<1> HIDE DEF t
<1>2. /\ 1 \in 1 .. Len(s)
      /\ \A i \in 1 .. Len(s) - 1 : i + 1 \in 1 .. Len(s) /\ i + 1 # 1
      /\ \A i, j \in 1 .. Len(s) - 1 : i + 1 = j + 1 => i = j
  BY <1>1
<1>3. Distinct(t)
  BY <1>1, <1>2 DEF Distinct
<1>4. /\ \A x : x \in ToSet(s) <=> \E i \in 1 .. Len(s) : x = s[i]
      /\ \A x : x \in ToSet(t) <=> \E i \in 1 .. Len(s) - 1 : x = t[i]
  BY <1>1, ToSetIs
<1>5. Head(s) \in ToSet(s) /\ ToSet(t) \subseteq ToSet(s)
  BY <1>1, <1>2, <1>4
<1>6. Head(s) \notin ToSet(t)
  BY <1>1, <1>2, <1>4 DEF Distinct
<1> QED BY <1>1, <1>3, <1>5, <1>6 DEF t

-----------------------------------------------------------------------------
(* Types, and the order of a request's steps.                              *)

\* What a call of push and pop in memory takes from a queue.
LEMMA SplicedTypes ==
  ASSUME NEW s \in Seq(Requests)
  PROVE  /\ Splice(s) \in 0 .. Len(s)
         /\ SubSeq(s, Splice(s) + 1, Len(s)) \in Seq(Requests)
         /\ SubSeq(s, 1, Splice(s)) \in Seq(Requests)
<1>1. Splice(s) \in 0 .. Len(s)
  BY DEF Splice, TicketsToMatch
<1> QED BY <1>1

\* What a pop takes from a queue.
LEMMA TakenTypes ==
  ASSUME NEW s \in Seq(Requests), NEW p \in Seq(Requests)
  PROVE  Popped(s) \in Seq(Requests) /\ p \o Taken(s) \in Seq(Requests)
  BY DEF Popped, Taken

LEMMA TypesKept ==
  ASSUME Inv, Next PROVE TypeOK' /\ InOrder'
<1> USE MatchmakingAssumption DEF InOrder, TypeOK, Goto, rowVars
<1>0. TypeOK /\ InOrder
  BY DEF Inv
<1>1. ASSUME NEW r \in Requests, CreateTicket(r) PROVE TypeOK' /\ InOrder'
  BY <1>0, <1>1 DEF CreateTicket
<1>2. ASSUME NEW r \in Requests, PushAndPop(r) PROVE TypeOK' /\ InOrder'
  <2> DEFINE waiting == Append(queue[asked[r]], r)
  <2>1. waiting \in Seq(Requests)
    BY <1>0
  <2> HIDE DEF waiting
  <2>2. /\ queue' = [queue EXCEPT ![asked[r]] = SubSeq(waiting, Splice(waiting) + 1, Len(waiting))]
        /\ popped' = [popped EXCEPT ![r] = SubSeq(waiting, 1, Splice(waiting))]
        /\ pc[r] = "push"
        /\ pc' = [pc EXCEPT ![r] = IF popped'[r] = <<>> THEN "done" ELSE "find"]
        /\ UNCHANGED <<redis, asked, rowVars, found, placed, marked, crashes>>
    BY <1>2 DEF PushAndPop, AfterPop, waiting
  <2>3. queue' \in [Queues -> Seq(Requests)] /\ popped' \in [Requests -> Seq(Requests)]
    BY <1>0, <2>1, <2>2, SplicedTypes
  <2>4. pc'[r] = "find" => popped'[r] # <<>>
    BY <1>0, <2>2
  <2>5. TypeOK'
    BY <1>0, <2>2, <2>3
  <2>6. InOrder'
    BY <1>0, <2>2, <2>4
  <2> QED BY <2>5, <2>6
<1>3. ASSUME NEW r \in Requests, Push(r) PROVE TypeOK' /\ InOrder'
  BY <1>0, <1>3 DEF Push
<1>4. ASSUME NEW r \in Requests, CheckLength(r) PROVE TypeOK' /\ InOrder'
  BY <1>0, <1>4 DEF CheckLength
<1>5. ASSUME NEW r \in Requests, PopOne(r) PROVE TypeOK' /\ InOrder'
  <2>1. queue' \in [Queues -> Seq(Requests)] /\ popped' \in [Requests -> Seq(Requests)]
    BY <1>0, <1>5, TakenTypes DEF PopOne
  <2>2. /\ pc[r] \in {"pop1", "pop2"} /\ pc'[r] \in {"pop2", "done", "find"}
        /\ pc'[r] = "find" => popped'[r] # <<>>
        /\ \A s \in Requests : s # r => pc'[s] = pc[s] /\ popped'[s] = popped[s]
    BY <1>0, <1>5 DEF PopOne, AfterPop
  <2>3. pc' \in [Requests -> Steps]
    BY <1>0, <1>5 DEF PopOne, AfterPop, Steps
  <2>4. TypeOK'
    BY <1>0, <1>5, <2>1, <2>3 DEF PopOne, Steps
  <2>5. InOrder'
    BY <1>0, <1>5, <2>2 DEF PopOne
  <2> QED BY <2>4, <2>5
<1>6. ASSUME NEW r \in Requests, FindServer(r) PROVE TypeOK' /\ InOrder'
  <2>1. PICK f \in [name : Requests \cup {NoServer}, players : Nat] :
          found' = [found EXCEPT ![r] = f]
    <3>1. CASE found' = [found EXCEPT ![r] = [name |-> NoServer, players |-> 0]]
      BY <3>1
    <3>2. CASE \E s \in ReadyServers(Region(r)) :
                 found' = [found EXCEPT ![r] = [name |-> s, players |-> server[s].players]]
      <4>1. PICK s \in ReadyServers(Region(r)) :
              found' = [found EXCEPT ![r] = [name |-> s, players |-> server[s].players]]
        BY <3>2
      <4>2. s \in Requests /\ server[s].players \in Nat
        BY <1>0, <4>1 DEF ReadyServers
      <4> QED BY <4>1, <4>2
    <3> QED BY <1>6, <3>1, <3>2 DEF FindServer
  <2>2. /\ pc[r] = "find" /\ pc' = [pc EXCEPT ![r] = "save"]
        /\ UNCHANGED <<redis, asked, rowVars, queue, popped, placed, marked, crashes>>
    BY <1>6 DEF FindServer
  <2>3. TypeOK'
    BY <1>0, <2>1, <2>2
  <2>4. InOrder'
    BY <1>0, <2>2
  <2> QED BY <2>3, <2>4
<1>7. ASSUME NEW r \in Requests, SaveServer(r) PROVE TypeOK' /\ InOrder'
  <2>1. Seats(r) \in Nat /\ popped[r] # <<>> /\ Len(popped[r]) > 0
    BY <1>0, <1>7 DEF Seats, SaveServer
  <2> DEFINE s    == IF HasRoom(r) THEN found[r].name ELSE r
             base == IF HasRoom(r) THEN found[r].players ELSE 0
  <2>2. s \in Requests /\ base \in Nat
    BY <1>0 DEF HasRoom
  <2>3. Row(base + Seats(r)) \in [status : {"none", "READY", "FULL"}, players : Nat]
    BY <2>1, <2>2 DEF Row
  <2>4. /\ server' = [server EXCEPT ![s] = Row(base + Seats(r))]
        /\ raced' \in {raced, raced \cup {s}}
        /\ placed' = [placed EXCEPT ![r] = s]
        /\ pc[r] = "save" /\ pc' = [pc EXCEPT ![r] = "mark"]
        /\ UNCHANGED <<redis, asked, ticket, session, queue, popped, found, marked, crashes>>
    BY <1>7 DEF SaveServer
  <2> HIDE DEF s, base
  <2>5. TypeOK'
    BY <1>0, <2>2, <2>3, <2>4
  <2>6. InOrder'
    BY <1>0, <2>1, <2>2, <2>4
  <2> QED BY <2>5, <2>6
<1>8. ASSUME NEW r \in Requests, MarkTicket(r) PROVE TypeOK' /\ InOrder'
  <2> DEFINE t == popped[r][marked[r] + 1]
  <2>1. pc[r] = "mark" /\ marked[r] \in Nat /\ marked[r] < Len(popped[r])
    BY <1>0, <1>8 DEF MarkTicket
  <2>2. t \in Requests
    BY <1>0, <2>1
  <2>3. /\ ticket' = [ticket EXCEPT ![t] = "MATCHED"]
        /\ session' = [session EXCEPT ![t] = placed[r]]
        /\ marked' = [marked EXCEPT ![r] = @ + 1]
        /\ pc' = [pc EXCEPT ![r] = IF LastMarked(r) THEN "done" ELSE "mark"]
        /\ UNCHANGED <<redis, asked, queue, popped, found, placed, server, raced, crashes>>
    BY <1>8 DEF MarkTicket
  <2> HIDE DEF t
  <2>a. /\ ticket' \in [Requests -> {"none", "SEARCHING", "MATCHED"}]
        /\ session' \in [Requests -> Requests \cup {NoServer}]
        /\ marked' \in [Requests -> Nat]
    <3>1. placed[r] \in Requests \cup {NoServer} /\ marked[r] + 1 \in Nat
      BY <1>0, <2>1
    <3>2. ticket' \in [Requests -> {"none", "SEARCHING", "MATCHED"}]
      BY <1>0, <2>2, <2>3
    <3>3. session' \in [Requests -> Requests \cup {NoServer}]
      BY <1>0, <2>2, <2>3, <3>1
    <3>4. marked' \in [Requests -> Nat]
      BY <1>0, <2>3, <3>1
    <3> QED BY <3>2, <3>3, <3>4
  <2>b. pc' \in [Requests -> Steps]
    BY <1>0, <2>3 DEF Steps
  <2>4. TypeOK'
    BY <1>0, <2>3, <2>a, <2>b DEF Steps
  <2>5. pc'[r] = "mark" => marked'[r] < Len(popped'[r])
    BY <1>0, <2>1, <2>3 DEF LastMarked
  <2>6. InOrder'
    BY <1>0, <2>1, <2>3, <2>5
  <2> QED BY <2>4, <2>6
<1>9. ASSUME NEW r \in Requests, Fail(r) PROVE TypeOK' /\ InOrder'
  BY <1>0, <1>9 DEF Fail, Ended
<1>10. CASE Restart
  <2>1. TypeOK'
    BY <1>0, <1>10 DEF Restart, Ended
  <2>2. InOrder'
    BY <1>0, <1>10 DEF Restart, Ended
  <2> QED BY <2>1, <2>2
<1> QED BY <1>1, <1>2, <1>3, <1>4, <1>5, <1>6, <1>7, <1>8, <1>9, <1>10 DEF Next, Step

-----------------------------------------------------------------------------
(* Where the tickets are.                                                  *)

\* A step that moves tickets of one queue, and the ticket of a request that pushes, into that
\* queue or into what the request has taken, keeps every ticket in one place.
LEMMA TicketsMoved ==
  ASSUME Inv, TypeOK', NEW r \in Requests, NEW q0 \in Queues,
         NEW a \in Seq(Requests), NEW b \in Seq(Requests), NEW X \in SUBSET {r},
         X # {} => pc[r] = "push",
         queue' = [queue EXCEPT ![q0] = b],
         popped' = [popped EXCEPT ![r] = a],
         Distinct(a), Distinct(b), ToSet(a) \cap ToSet(b) = {},
         ToSet(b) \subseteq ToSet(queue[q0]) \cup X,
         ToSet(a) \subseteq ToSet(popped[r]) \cup ToSet(queue[q0]) \cup X,
         \A s \in Requests : pc'[s] \in {"idle", "push"} => pc[s] \in {"idle", "push"} /\ s # r
  PROVE  OnePlace' /\ TakenOnce'
<1> DEFINE Q(q) == ToSet(queue[q])
           P(s) == ToSet(popped[s])
<1>0. /\ TypeOK /\ OnePlace /\ TakenOnce
      /\ queue \in [Queues -> Seq(Requests)] /\ popped \in [Requests -> Seq(Requests)]
  BY DEF Inv, TypeOK
<1>1. /\ \A q \in Queues : queue'[q] = IF q = q0 THEN b ELSE queue[q]
      /\ \A s \in Requests : popped'[s] = IF s = r THEN a ELSE popped[s]
  BY <1>0
<1>2. \A x \in X : /\ \A q \in Queues : x \notin ToSet(queue[q])
                   /\ \A s \in Requests : x \notin ToSet(popped[s])
  BY <1>0 DEF OnePlace
<1>3. \A q \in Queues : Distinct(queue'[q])
  BY <1>0, <1>1 DEF OnePlace
<1>4. \A s \in Requests : Distinct(popped'[s])
  BY <1>0, <1>1 DEF OnePlace
<1>5. ASSUME NEW q1 \in Queues, NEW q2 \in Queues, q1 # q2
      PROVE  ToSet(queue'[q1]) \cap ToSet(queue'[q2]) = {}
  <2>1. ToSet(queue[q1]) \cap ToSet(queue[q2]) = {}
    BY <1>0, <1>5 DEF OnePlace
  <2>2. ToSet(queue'[q1]) \subseteq ToSet(queue[q1]) \cup X
    BY <1>1
  <2>3. ToSet(queue'[q2]) \subseteq ToSet(queue[q2]) \cup X
    BY <1>1
  <2>4. q1 # q0 => ToSet(queue'[q1]) = ToSet(queue[q1])
    BY <1>1
  <2>5. q2 # q0 => ToSet(queue'[q2]) = ToSet(queue[q2])
    BY <1>1
  <2> QED BY <1>2, <1>5, <2>1, <2>2, <2>3, <2>4, <2>5
<1>6. ASSUME NEW s \in Requests, s # r PROVE ToSet(a) \cap ToSet(popped[s]) = {}
  <2>1. ToSet(popped[r]) \cap ToSet(popped[s]) = {} /\ ToSet(queue[q0]) \cap ToSet(popped[s]) = {}
    BY <1>0, <1>6 DEF TakenOnce
  <2> QED BY <1>2, <2>1
<1>7. \A r1, r2 \in Requests : r1 # r2 => ToSet(popped'[r1]) \cap ToSet(popped'[r2]) = {}
  <2> SUFFICES ASSUME NEW r1 \in Requests, NEW r2 \in Requests, r1 # r2
               PROVE  ToSet(popped'[r1]) \cap ToSet(popped'[r2]) = {}
    OBVIOUS
  <2>1. CASE r1 = r
    <3>1. popped'[r1] = a /\ popped'[r2] = popped[r2]
      BY <1>1, <2>1
    <3>2. ToSet(a) \cap ToSet(popped[r2]) = {}
      BY <1>6, <2>1
    <3> QED BY <3>1, <3>2
  <2>2. CASE r2 = r
    <3>1. popped'[r2] = a /\ popped'[r1] = popped[r1]
      BY <1>1, <2>2
    <3>2. ToSet(a) \cap ToSet(popped[r1]) = {}
      BY <1>6, <2>2
    <3> QED BY <3>1, <3>2
  <2>3. CASE r1 # r /\ r2 # r
    <3>1. popped'[r1] = popped[r1] /\ popped'[r2] = popped[r2]
      BY <1>1, <2>3
    <3> QED BY <1>0, <3>1 DEF TakenOnce
  <2> QED BY <2>1, <2>2, <2>3
<1>8. ASSUME NEW q \in Queues, NEW s \in Requests
      PROVE  ToSet(queue'[q]) \cap ToSet(popped'[s]) = {}
  <2>1. ToSet(queue[q]) \cap ToSet(popped[s]) = {}
    BY <1>0 DEF TakenOnce
  <2>2. CASE q = q0 /\ s = r
    BY <1>1, <2>2
  <2>3. CASE q = q0 /\ s # r
    <3>1. queue'[q] = b /\ popped'[s] = popped[s]
      BY <1>1, <2>3
    <3> QED BY <1>2, <2>1, <2>3, <3>1
  <2>4. CASE q # q0 /\ s = r
    <3>1. queue'[q] = queue[q] /\ popped'[s] = a
      BY <1>1, <2>4
    <3>2. ToSet(queue[q]) \cap ToSet(queue[q0]) = {}
      BY <1>0, <2>4 DEF OnePlace
    <3> QED BY <1>2, <2>1, <2>4, <3>1, <3>2
  <2>5. CASE q # q0 /\ s # r
    BY <1>1, <2>1, <2>5
  <2> QED BY <2>2, <2>3, <2>4, <2>5
<1>9. ASSUME NEW s \in Requests, pc'[s] \in {"idle", "push"}
      PROVE  /\ \A q \in Queues : s \notin ToSet(queue'[q])
             /\ \A t \in Requests : s \notin ToSet(popped'[t])
  <2>1. /\ \A q \in Queues : s \notin ToSet(queue[q])
        /\ \A t \in Requests : s \notin ToSet(popped[t])
        /\ s \notin X
    BY <1>0, <1>9 DEF OnePlace
  <2> QED BY <1>1, <2>1
<1>10. OnePlace'
  BY <1>3, <1>4, <1>5, <1>9 DEF OnePlace
<1>11. TakenOnce'
  BY <1>7, <1>8 DEF TakenOnce
<1> QED BY <1>10, <1>11

LEMMA PlacesKept ==
  ASSUME Inv, Next, TypeOK' PROVE OnePlace' /\ TakenOnce'
<1> USE DEF Goto, rowVars
<1>0. /\ TypeOK /\ InOrder /\ OnePlace /\ TakenOnce
      /\ queue \in [Queues -> Seq(Requests)] /\ popped \in [Requests -> Seq(Requests)]
      /\ pc \in [Requests -> Steps] /\ asked \in [Requests -> Queues]
  BY DEF Inv, TypeOK, Steps
<1>s. ASSUME UNCHANGED <<queue, popped>>,
             \A r \in Requests : pc'[r] \in {"idle", "push"} => pc[r] \in {"idle", "push"}
      PROVE  OnePlace' /\ TakenOnce'
  BY <1>0, <1>s DEF OnePlace, TakenOnce
<1>1. ASSUME NEW r \in Requests, CreateTicket(r) PROVE OnePlace' /\ TakenOnce'
  BY <1>0, <1>1, <1>s DEF CreateTicket
<1>2. ASSUME NEW r \in Requests, PushAndPop(r) PROVE OnePlace' /\ TakenOnce'
  <2> DEFINE q0      == asked[r]
             waiting == Append(queue[q0], r)
             n       == Splice(waiting)
             a       == SubSeq(waiting, 1, n)
             b       == SubSeq(waiting, n + 1, Len(waiting))
  <2>1. pc[r] = "push" /\ q0 \in Queues /\ queue[q0] \in Seq(Requests)
    BY <1>0, <1>2 DEF PushAndPop
  <2>2. Distinct(queue[q0]) /\ r \notin ToSet(queue[q0])
    BY <1>0, <2>1 DEF OnePlace
  <2>3. waiting \in Seq(Requests) /\ Distinct(waiting) /\ ToSet(waiting) = ToSet(queue[q0]) \cup {r}
    BY <2>1, <2>2, AppendDistinct
  <2>4. n \in 0 .. Len(waiting)
    BY <2>3, SplicedTypes
  <2> HIDE DEF waiting, n
  <2>5. /\ a \in Seq(Requests) /\ Distinct(a) /\ b \in Seq(Requests) /\ Distinct(b)
        /\ ToSet(a) \cap ToSet(b) = {}
        /\ ToSet(a) \subseteq ToSet(waiting) /\ ToSet(b) \subseteq ToSet(waiting)
    BY <2>3, <2>4, CutDistinct
  <2>6. /\ queue' = [queue EXCEPT ![q0] = b] /\ popped' = [popped EXCEPT ![r] = a]
        /\ pc' = [pc EXCEPT ![r] = AfterPop(r, popped'[r])]
    BY <1>2 DEF PushAndPop, waiting, n
  <2>7. \A s \in Requests : pc'[s] \in {"idle", "push"} => pc[s] \in {"idle", "push"} /\ s # r
    BY <1>0, <2>6 DEF AfterPop
  <2> HIDE DEF a, b, q0
  <2> QED BY <2>1, <2>3, <2>5, <2>6, <2>7, TicketsMoved
<1>3. ASSUME NEW r \in Requests, Push(r) PROVE OnePlace' /\ TakenOnce'
  <2> DEFINE q0 == asked[r]
             b  == Append(queue[q0], r)
  <2>1. pc[r] = "push" /\ q0 \in Queues /\ queue[q0] \in Seq(Requests)
    BY <1>0, <1>3 DEF Push
  <2>2. Distinct(queue[q0]) /\ r \notin ToSet(queue[q0])
    BY <1>0, <2>1 DEF OnePlace
  <2>3. b \in Seq(Requests) /\ Distinct(b) /\ ToSet(b) = ToSet(queue[q0]) \cup {r}
    BY <2>1, <2>2, AppendDistinct
  <2>4. queue' = [queue EXCEPT ![q0] = b] /\ popped' = popped /\ pc' = [pc EXCEPT ![r] = "length"]
    BY <1>3 DEF Push
  <2>5. popped' = [popped EXCEPT ![r] = popped[r]]
    BY <1>0, <2>4
  <2>6. /\ popped[r] \in Seq(Requests) /\ Distinct(popped[r])
        /\ ToSet(popped[r]) \cap ToSet(queue[q0]) = {} /\ r \notin ToSet(popped[r])
    BY <1>0, <2>1 DEF OnePlace, TakenOnce
  <2>7. \A s \in Requests : pc'[s] \in {"idle", "push"} => pc[s] \in {"idle", "push"} /\ s # r
    BY <1>0, <2>4
  <2> HIDE DEF b, q0
  <2>8. /\ popped[r] \in Seq(Requests) /\ Distinct(popped[r]) /\ {r} \in SUBSET {r}
        /\ ToSet(popped[r]) \cap ToSet(b) = {}
        /\ ToSet(b) \subseteq ToSet(queue[q0]) \cup {r}
        /\ ToSet(popped[r]) \subseteq ToSet(popped[r]) \cup ToSet(queue[q0]) \cup {r}
    BY <2>3, <2>6
  <2> QED BY <2>1, <2>3, <2>4, <2>5, <2>7, <2>8, TicketsMoved
<1>4. ASSUME NEW r \in Requests, CheckLength(r) PROVE OnePlace' /\ TakenOnce'
  BY <1>0, <1>4, <1>s DEF CheckLength
<1>5. ASSUME NEW r \in Requests, PopOne(r) PROVE OnePlace' /\ TakenOnce'
  <2> DEFINE q0      == asked[r]
             waiting == queue[q0]
  <2>1. /\ pc[r] \in {"pop1", "pop2"} /\ q0 \in Queues /\ waiting \in Seq(Requests)
        /\ popped[r] \in Seq(Requests) /\ Distinct(waiting) /\ Distinct(popped[r])
        /\ ToSet(waiting) \cap ToSet(popped[r]) = {}
    BY <1>0, <1>5 DEF PopOne, OnePlace, TakenOnce
  <2>2. /\ queue' = [queue EXCEPT ![q0] = Popped(waiting)]
        /\ popped' = [popped EXCEPT ![r] = popped[r] \o Taken(waiting)]
        /\ pc' = [pc EXCEPT ![r] = IF pc[r] = "pop1" THEN "pop2" ELSE AfterPop(r, popped'[r])]
    BY <1>5 DEF PopOne
  <2>3. \A s \in Requests : pc'[s] \in {"idle", "push"} => pc[s] \in {"idle", "push"} /\ s # r
    BY <1>0, <2>2 DEF AfterPop
  <2>4. CASE waiting = <<>>
    <3>1. Popped(waiting) = waiting /\ popped[r] \o Taken(waiting) = popped[r]
      BY <2>1, <2>4 DEF Popped, Taken
    <3>2. UNCHANGED <<queue, popped>>
      BY <1>0, <2>2, <3>1
    <3> QED BY <1>s, <2>3, <3>2
  <2>5. CASE waiting # <<>>
    <3> DEFINE a == Append(popped[r], Head(waiting))
    <3>1. /\ Head(waiting) \in ToSet(waiting) /\ Head(waiting) \in Requests
          /\ Tail(waiting) \in Seq(Requests) /\ Distinct(Tail(waiting))
          /\ ToSet(Tail(waiting)) \subseteq ToSet(waiting)
          /\ Head(waiting) \notin ToSet(Tail(waiting))
      BY <2>1, <2>5, TakeDistinct
    <3>2. Popped(waiting) = Tail(waiting) /\ popped[r] \o Taken(waiting) = a
      BY <2>1, <2>5, <3>1 DEF Popped, Taken
    <3>3. a \in Seq(Requests) /\ Distinct(a) /\ ToSet(a) = ToSet(popped[r]) \cup {Head(waiting)}
      BY <2>1, <3>1, AppendDistinct
    <3>4. queue' = [queue EXCEPT ![q0] = Tail(waiting)] /\ popped' = [popped EXCEPT ![r] = a]
      BY <2>2, <3>2
    <3>5. ToSet(a) \cap ToSet(Tail(waiting)) = {}
      BY <2>1, <3>1, <3>3
    <3>6. /\ {} \in SUBSET {r} /\ ({} # {} => pc[r] = "push")
          /\ ToSet(Tail(waiting)) \subseteq ToSet(queue[q0]) \cup {}
          /\ ToSet(a) \subseteq ToSet(popped[r]) \cup ToSet(queue[q0]) \cup {}
      BY <3>1, <3>3
    <3> DEFINE b == Tail(waiting)
    <3>7. b \in Seq(Requests) /\ Distinct(b)
      BY <3>1
    <3> HIDE DEF a, b, q0
    <3> QED BY <2>1, <2>3, <3>3, <3>4, <3>5, <3>6, <3>7, TicketsMoved DEF b
  <2> QED BY <2>4, <2>5
<1>6. ASSUME NEW r \in Requests, FindServer(r) PROVE OnePlace' /\ TakenOnce'
  BY <1>0, <1>6, <1>s DEF FindServer
<1>7. ASSUME NEW r \in Requests, SaveServer(r) PROVE OnePlace' /\ TakenOnce'
  BY <1>0, <1>7, <1>s DEF SaveServer
<1>8. ASSUME NEW r \in Requests, MarkTicket(r) PROVE OnePlace' /\ TakenOnce'
  BY <1>0, <1>8, <1>s DEF MarkTicket
<1>9. ASSUME NEW r \in Requests, Fail(r) PROVE OnePlace' /\ TakenOnce'
  BY <1>0, <1>9, <1>s DEF Fail
<1>10. CASE Restart
  <2>1. \A r \in Requests : pc'[r] \in {"idle", "push"} => pc[r] \in {"idle", "push"}
    BY <1>0, <1>10 DEF Restart, Ended
  <2>2. CASE queue' = queue
    BY <1>10, <1>s, <2>1, <2>2 DEF Restart
  <2>3. CASE queue' = [q \in Queues |-> <<>>]
    <3>1. \A q \in Queues : queue'[q] = <<>> /\ Distinct(queue'[q]) /\ ToSet(queue'[q]) = {}
      BY <2>3 DEF Distinct, ToSet
    <3>2. popped' = popped
      BY <1>10 DEF Restart
    <3> QED BY <1>0, <2>1, <3>1, <3>2 DEF OnePlace, TakenOnce
  <2> QED BY <1>10, <2>2, <2>3 DEF Restart
<1> QED BY <1>1, <1>2, <1>3, <1>4, <1>5, <1>6, <1>7, <1>8, <1>9, <1>10 DEF Next, Step

LEMMA InvInit == Init => Inv
<1> SUFFICES ASSUME Init PROVE Inv
  OBVIOUS
<1> USE MatchmakingAssumption DEF Init
<1>1. TypeOK
  BY DEF TypeOK
<1>2. \A s \in Requests : popped[s] = <<>> /\ ToSet(popped[s]) = {} /\ Distinct(popped[s])
  BY DEF ToSet, Distinct
<1>3. \A q \in Queues : queue[q] = <<>> /\ ToSet(queue[q]) = {} /\ Distinct(queue[q])
  BY DEF ToSet, Distinct
<1>4. InOrder
  BY DEF InOrder
<1>5. OnePlace /\ TakenOnce
  BY <1>2, <1>3 DEF OnePlace, TakenOnce
<1> QED BY <1>1, <1>4, <1>5 DEF Inv

LEMMA InvStutters == Inv /\ UNCHANGED vars => Inv'
<1> SUFFICES ASSUME Inv, UNCHANGED vars PROVE Inv'
  OBVIOUS
<1> USE DEF vars, Inv
<1>1. TypeOK'
  BY DEF TypeOK
<1>2. InOrder' /\ OnePlace' /\ TakenOnce'
  BY DEF InOrder, OnePlace, TakenOnce
<1> QED BY <1>1, <1>2

-----------------------------------------------------------------------------
(* The players of a server.                                                *)

Matches(s) == {r \in Requests : placed[r] = s}
Players(s) == UNION {ToSet(popped[r]) : r \in Matches(s)}

CountInv == Inv /\ SeatsCounted /\ \A s \in Requests : IsFiniteSet(Players(s))

\* A match of distinct tickets takes as many seats as it has tickets.
LEMMA TicketsCounted ==
  ASSUME NEW p \in Seq(Requests), Distinct(p)
  PROVE  IsFiniteSet(ToSet(p)) /\ Cardinality(ToSet(p)) = Len(p)
<1> DEFINE f == [i \in 1 .. Len(p) |-> p[i]]
<1>1. Len(p) \in Nat /\ \A x : x \in ToSet(p) <=> \E i \in 1 .. Len(p) : x = p[i]
  BY ToSetIs
<1>2. /\ f \in [1 .. Len(p) -> ToSet(p)]
      /\ \A i, j \in 1 .. Len(p) : f[i] = f[j] => i = j
      /\ \A x \in ToSet(p) : \E i \in 1 .. Len(p) : f[i] = x
  BY <1>1 DEF Distinct
<1> HIDE DEF f
<1>3. f \in Bijection(1 .. Len(p), ToSet(p))
  BY <1>2, Fun_IsBij
<1>4. ExistsBijection(1 .. Len(p), ToSet(p))
  BY <1>3 DEF ExistsBijection
<1>5. IsFiniteSet(1 .. Len(p)) /\ Cardinality(1 .. Len(p)) = Len(p)
  <2>1. Cardinality(1 .. Len(p)) = IF 1 > Len(p) THEN 0 ELSE Len(p) - 1 + 1
    BY <1>1, FS_Interval
  <2> QED BY <1>1, <2>1, FS_Interval
<1> QED BY <1>4, <1>5, FS_Bijection

\* Steps that place nothing, and take tickets only for requests that are not placed.
LEMMA PlayersKept ==
  ASSUME CountInv, Inv', UNCHANGED <<placed, server, raced>>,
         \A r \in Requests : placed[r] # NoServer => popped'[r] = popped[r]
  PROVE  CountInv'
<1>1. ASSUME NEW s \in Requests
      PROVE  Matches(s)' = Matches(s) /\ Players(s)' = Players(s)
  <2>1. Matches(s)' = Matches(s)
    BY DEF Matches
  <2>2. \A r \in Matches(s) : popped'[r] = popped[r]
    BY MatchmakingAssumption DEF Matches
  <2>3. {ToSet(popped'[r]) : r \in Matches(s)} = {ToSet(popped[r]) : r \in Matches(s)}
    BY <2>2
  <2> QED BY <2>1, <2>3 DEF Players
<1>2. \A s \in Requests \ raced :
        /\ server[s].players = Cardinality(Players(s))
        /\ server[s].players <= MaxPlayers \/ Matches(s) = {s}
  BY DEF CountInv, SeatsCounted, Players, Matches
<1>3. \A s \in Requests \ raced' :
        /\ server'[s].players = Cardinality(Players(s)')
        /\ server'[s].players <= MaxPlayers \/ Matches(s)' = {s}
  BY <1>1, <1>2
<1>4. SeatsCounted'
  BY <1>3 DEF SeatsCounted, Players, Matches
<1> QED BY <1>1, <1>4 DEF CountInv

\* A match is added to the players of its server.
LEMMA PlayersSaved ==
  ASSUME CountInv, Inv', NEW r \in Requests, SaveServer(r) PROVE CountInv'
<1>0. TypeOK /\ InOrder /\ OnePlace /\ TakenOnce
  BY DEF CountInv, Inv
<1>1. /\ pc[r] = "save" /\ placed[r] = NoServer
      /\ popped[r] \in Seq(Requests) /\ popped[r] # <<>> /\ Distinct(popped[r])
      /\ Seats(r) = Len(popped[r]) /\ Seats(r) \in Nat /\ Seats(r) > 0
  <2>1. pc[r] = "save"
    BY DEF SaveServer
  <2>2. popped[r] \in Seq(Requests) /\ Distinct(popped[r])
    BY <1>0 DEF OnePlace, TypeOK
  <2>3. placed[r] = NoServer /\ popped[r] # <<>>
    BY <1>0, <2>1 DEF InOrder
  <2> QED BY <2>1, <2>2, <2>3 DEF Seats
<1>2. PICK s \in Requests, base \in Nat :
        /\ server' = [server EXCEPT ![s] = Row(base + Seats(r))]
        /\ raced' = IF server[s].players # base THEN raced \cup {s} ELSE raced
        /\ placed' = [placed EXCEPT ![r] = s]
        /\ UNCHANGED popped
        /\ base + Seats(r) <= MaxPlayers \/ (base = 0 /\ s = r)
  <2>1. CASE HasRoom(r)
    <3>1. /\ found[r].name \in Requests /\ found[r].players \in Nat
          /\ found[r].players + Seats(r) <= MaxPlayers
      BY <1>0, <2>1 DEF HasRoom, TypeOK
    <3> DEFINE t == found[r].name
               n == found[r].players
    <3>2. /\ server' = [server EXCEPT ![t] = Row(n + Seats(r))]
          /\ raced' = IF server[t].players # n THEN raced \cup {t} ELSE raced
          /\ placed' = [placed EXCEPT ![r] = t]
          /\ UNCHANGED popped
      BY <2>1 DEF SaveServer
    <3>3. t \in Requests /\ n \in Nat /\ n + Seats(r) <= MaxPlayers
      BY <3>1
    <3> HIDE DEF t, n
    <3> QED BY <3>2, <3>3
  <2>2. CASE ~HasRoom(r)
    BY <2>2 DEF SaveServer
  <2> QED BY <2>1, <2>2
<1>5. /\ \A x \in Requests : server'[x].players =
           IF x = s THEN base + Seats(r) ELSE server[x].players
      /\ \A x \in Requests : placed'[x] = IF x = r THEN s ELSE placed[x]
  BY <1>0, <1>2 DEF TypeOK, Row
<1>6. ASSUME NEW x \in Requests, x # s
      PROVE  Matches(x)' = Matches(x) /\ Players(x)' = Players(x)
  <2>1. \A m \in Requests : placed'[m] = x <=> placed[m] = x
    BY <1>1, <1>5, <1>6, MatchmakingAssumption
  <2>2. Matches(x)' = Matches(x)
    BY <2>1 DEF Matches
  <2> QED BY <1>2, <2>2 DEF Players
<1>7. Matches(s)' = Matches(s) \cup {r} /\ r \notin Matches(s)
  BY <1>1, <1>2, <1>5, MatchmakingAssumption DEF Matches
<1>8. Players(s)' = Players(s) \cup ToSet(popped[r])
  BY <1>2, <1>7 DEF Players
<1>9. Players(s) \cap ToSet(popped[r]) = {}
  <2>1. \A m \in Matches(s) : m \in Requests /\ m # r
    BY <1>7 DEF Matches
  <2>2. \A m \in Matches(s) : ToSet(popped[m]) \cap ToSet(popped[r]) = {}
    BY <1>0, <2>1 DEF TakenOnce
  <2> QED BY <2>2 DEF Players
<1>10. /\ IsFiniteSet(Players(s)) /\ IsFiniteSet(ToSet(popped[r]))
       /\ Cardinality(Players(s)) \in Nat
       /\ Cardinality(ToSet(popped[r])) = Seats(r)
  BY <1>1, <1>2, TicketsCounted, FS_CardinalityType DEF CountInv
<1>11. /\ IsFiniteSet(Players(s)')
       /\ Cardinality(Players(s)') = Cardinality(Players(s)) + Seats(r)
  <2>1. Cardinality(Players(s) \cup ToSet(popped[r])) =
          Cardinality(Players(s)) + Cardinality(ToSet(popped[r]))
            - Cardinality(Players(s) \cap ToSet(popped[r]))
    BY <1>10, FS_Union
  <2>2. Cardinality(Players(s) \cap ToSet(popped[r])) = 0
    BY <1>9, FS_EmptySet
  <2>3. IsFiniteSet(Players(s) \cup ToSet(popped[r]))
    BY <1>10, FS_Union
  <2> QED BY <1>1, <1>8, <1>10, <2>1, <2>2, <2>3
<1>12. \A x \in Requests \ raced :
         /\ server[x].players = Cardinality(Players(x))
         /\ server[x].players <= MaxPlayers \/ Matches(x) = {x}
  BY DEF CountInv, SeatsCounted, Players, Matches
<1>13. ASSUME NEW x \in Requests \ raced'
       PROVE  /\ server'[x].players = Cardinality(Players(x)')
              /\ server'[x].players <= MaxPlayers \/ Matches(x)' = {x}
  <2>1. CASE x # s
    <3>1. x \notin raced
      BY <1>2, <1>13
    <3> QED BY <1>5, <1>6, <1>12, <2>1, <3>1
  <2>2. CASE x = s
    <3>1. s \notin raced /\ server[s].players = base
      BY <1>2, <1>13, <2>2
    <3>2. Cardinality(Players(s)) = base
      BY <1>2, <1>12, <3>1
    <3>3. server'[s].players = Cardinality(Players(s)')
      BY <1>2, <1>5, <1>11, <3>2
    <3>4. CASE base + Seats(r) <= MaxPlayers
      BY <1>2, <1>5, <2>2, <3>3, <3>4
    <3>5. CASE base = 0 /\ s = r
      <4>1. Players(s) = {}
        BY <1>10, <3>2, <3>5, FS_EmptySet
      <4>2. ASSUME NEW m \in Matches(s) PROVE FALSE
        <5>1. m \in Requests /\ popped[m] \in Seq(Requests) /\ popped[m] # <<>>
          BY <1>0, <1>2, MatchmakingAssumption DEF Matches, InOrder, TypeOK
        <5>2. Head(popped[m]) \in ToSet(popped[m])
          BY <5>1 DEF ToSet
        <5> QED BY <4>1, <5>2 DEF Players
      <4>3. Matches(s)' = {s}
        BY <1>7, <3>5, <4>2
      <4> QED BY <2>2, <3>3, <4>3
    <3> QED BY <1>2, <3>4, <3>5
  <2> QED BY <2>1, <2>2
<1>14. SeatsCounted'
  BY <1>13 DEF SeatsCounted, Players, Matches
<1>15. \A x \in Requests : IsFiniteSet(Players(x)')
  BY <1>6, <1>11 DEF CountInv
<1> QED BY <1>14, <1>15 DEF CountInv

\* The invariant of the requests, their queues and the servers they fill.
THEOREM MatchmakingInvariant == Spec => []CountInv
<1>1. Init => CountInv
  <2> SUFFICES ASSUME Init PROVE CountInv
    OBVIOUS
  <2>1. Inv
    BY InvInit
  <2>2. ASSUME NEW s \in Requests PROVE Matches(s) = {} /\ Players(s) = {}
    BY MatchmakingAssumption DEF Init, Matches, Players
  <2>3. \A s \in Requests : IsFiniteSet(Players(s)) /\ Cardinality(Players(s)) = 0
    BY <2>2, FS_EmptySet
  <2>4. \A s \in Requests : server[s].players = 0 /\ 0 <= MaxPlayers
    BY MatchmakingAssumption DEF Init
  <2>5. SeatsCounted
    BY <2>3, <2>4 DEF SeatsCounted, Players, Matches
  <2> QED BY <2>1, <2>3, <2>5 DEF CountInv
<1>2. ASSUME CountInv, Next PROVE CountInv'
  <2>1. Inv'
    BY <1>2, TypesKept, PlacesKept DEF CountInv, Inv
  <2>2. TypeOK /\ InOrder
    BY <1>2 DEF CountInv, Inv
  <2>3. ASSUME UNCHANGED <<placed, server, raced, popped>> PROVE CountInv'
    BY <1>2, <2>1, <2>3, PlayersKept
  <2>4. ASSUME NEW r \in Requests, PushAndPop(r) \/ PopOne(r) PROVE CountInv'
    <3>1. placed[r] = NoServer /\ UNCHANGED <<placed, server, raced>>
      BY <2>2, <2>4 DEF PushAndPop, PopOne, InOrder, rowVars
    <3>2. \A s \in Requests : s # r => popped'[s] = popped[s]
      BY <2>2, <2>4 DEF PushAndPop, PopOne, TypeOK
    <3> QED BY <1>2, <2>1, <3>1, <3>2, PlayersKept
  <2>5. ASSUME NEW r \in Requests, SaveServer(r) PROVE CountInv'
    BY <1>2, <2>1, <2>5, PlayersSaved
  <2>6. ASSUME NEW r \in Requests,
               CreateTicket(r) \/ Push(r) \/ CheckLength(r) \/ FindServer(r) \/ MarkTicket(r)
                 \/ Fail(r)
        PROVE  CountInv'
    BY <2>3, <2>6 DEF CreateTicket, Push, CheckLength, FindServer, MarkTicket, Fail, rowVars
  <2>7. CASE Restart
    BY <2>3, <2>7 DEF Restart, rowVars
  <2> QED BY <1>2, <2>4, <2>5, <2>6, <2>7 DEF Next, Step
<1>3. CountInv /\ UNCHANGED vars => CountInv'
  BY InvStutters, PlayersKept DEF vars, CountInv
<1> QED BY <1>1, <1>2, <1>3, PTL DEF Spec

\* Requests, tickets, queues and servers keep their types (cloud/index.ts, matchQueue.ts).
THEOREM MatchmakingTypes == Spec => []TypeOK
<1>1. CountInv => TypeOK
  BY DEF CountInv, Inv
<1> QED BY <1>1, MatchmakingInvariant, PTL

\* A ticket is taken by one request, with the list in Redis as with the array in memory,
\* through failures and restarts (matchQueue.ts).
THEOREM TicketsTakenOnce == Spec => []TakenOnce
<1>1. CountInv => TakenOnce
  BY DEF CountInv, Inv
<1> QED BY <1>1, MatchmakingInvariant, PTL

\* The players of a server are the distinct tickets of the matches that were placed on it,
\* unless a match saved its row over another's (cloud/index.ts:allocateGameServer).
THEOREM ServersCountSeats == Spec => []SeatsCounted
<1>1. CountInv => SeatsCounted
  BY DEF CountInv
<1> QED BY <1>1, MatchmakingInvariant, PTL
-----------------------------------------------------------------------------
(* Nobody waits next to somebody else.                                     *)

PopSteps == {"length", "pop1", "pop2"}

\* The requests that are between their push and their last pop, and those with two pops to go.
Popping(q)  == {r \in Requests : asked[r] = q /\ pc[r] \in PopSteps}
TwoToGo(q)  == {r \in Requests : asked[r] = q /\ pc[r] = "pop1"}

\* Each ticket of a queue beyond the first is owed a pop.
PopsOwed ==
  /\ ~redis => \A r \in Requests : pc[r] \notin PopSteps
  /\ \A q \in Queues :
       /\ IsFiniteSet(Popping(q)) /\ IsFiniteSet(TwoToGo(q))
       /\ Len(queue[q]) <= 1 + Cardinality(Popping(q)) + Cardinality(TwoToGo(q))

\* How a request's step changes the sets of its queue.
LEMMA PoppingMoves ==
  ASSUME Inv, NEW r \in Requests, NEW step, Goto(r, step), asked' = asked, NEW q \in Queues
  PROVE  /\ Popping(q)' = IF asked[r] = q /\ step \in PopSteps THEN Popping(q) \cup {r}
                                                             ELSE Popping(q) \ {r}
         /\ TwoToGo(q)' = IF asked[r] = q /\ step = "pop1" THEN TwoToGo(q) \cup {r}
                                                           ELSE TwoToGo(q) \ {r}
<1>1. pc' = [pc EXCEPT ![r] = step] /\ pc \in [Requests -> Steps]
  BY DEF Goto, Inv, TypeOK, Steps
<1>2. pc'[r] = step /\ \A s \in Requests : s # r => pc'[s] = pc[s]
  BY <1>1
<1> QED BY <1>2 DEF Popping, TwoToGo

\* The numbers of requests at work on a queue, before and after a step.
LEMMA PoppingCounts ==
  ASSUME Inv, PopsOwed, NEW r \in Requests, NEW step, Goto(r, step), asked' = asked,
         NEW q \in Queues
  PROVE  /\ IsFiniteSet(Popping(q)') /\ IsFiniteSet(TwoToGo(q)')
         /\ Cardinality(Popping(q)) \in Nat /\ Cardinality(TwoToGo(q)) \in Nat
         /\ Cardinality(Popping(q)') =
              Cardinality(Popping(q))
                + (IF asked[r] = q /\ step \in PopSteps THEN 1 ELSE 0)
                - (IF asked[r] = q /\ pc[r] \in PopSteps THEN 1 ELSE 0)
         /\ Cardinality(TwoToGo(q)') =
              Cardinality(TwoToGo(q))
                + (IF asked[r] = q /\ step = "pop1" THEN 1 ELSE 0)
                - (IF asked[r] = q /\ pc[r] = "pop1" THEN 1 ELSE 0)
<1> DEFINE P == Popping(q)
           T == TwoToGo(q)
<1>1. IsFiniteSet(P) /\ IsFiniteSet(T)
  BY DEF PopsOwed
<1>2. /\ r \in P <=> asked[r] = q /\ pc[r] \in PopSteps
      /\ r \in T <=> asked[r] = q /\ pc[r] = "pop1"
  BY DEF Popping, TwoToGo
<1>3. Cardinality(P) \in Nat /\ Cardinality(T) \in Nat
  BY <1>1, FS_CardinalityType
<1>4. /\ P' = IF asked[r] = q /\ step \in PopSteps THEN P \cup {r} ELSE P \ {r}
      /\ T' = IF asked[r] = q /\ step = "pop1" THEN T \cup {r} ELSE T \ {r}
  BY PoppingMoves
<1>5. /\ IsFiniteSet(P \cup {r}) /\ IsFiniteSet(P \ {r})
      /\ Cardinality(P \cup {r}) = IF r \in P THEN Cardinality(P) ELSE Cardinality(P) + 1
      /\ Cardinality(P \ {r}) = IF r \in P THEN Cardinality(P) - 1 ELSE Cardinality(P)
  BY <1>1, FS_AddElement, FS_RemoveElement
<1>6. /\ IsFiniteSet(T \cup {r}) /\ IsFiniteSet(T \ {r})
      /\ Cardinality(T \cup {r}) = IF r \in T THEN Cardinality(T) ELSE Cardinality(T) + 1
      /\ Cardinality(T \ {r}) = IF r \in T THEN Cardinality(T) - 1 ELSE Cardinality(T)
  BY <1>1, FS_AddElement, FS_RemoveElement
<1> HIDE DEF P, T
<1>7. /\ IsFiniteSet(P') /\ IsFiniteSet(T')
      /\ Cardinality(P') = Cardinality(P)
                + (IF asked[r] = q /\ step \in PopSteps THEN 1 ELSE 0)
                - (IF asked[r] = q /\ pc[r] \in PopSteps THEN 1 ELSE 0)
      /\ Cardinality(T') = Cardinality(T)
                + (IF asked[r] = q /\ step = "pop1" THEN 1 ELSE 0)
                - (IF asked[r] = q /\ pc[r] = "pop1" THEN 1 ELSE 0)
  <2>1. /\ IsFiniteSet(P')
        /\ Cardinality(P') = Cardinality(P)
                + (IF asked[r] = q /\ step \in PopSteps THEN 1 ELSE 0)
                - (IF asked[r] = q /\ pc[r] \in PopSteps THEN 1 ELSE 0)
    <3>1. CASE asked[r] = q /\ step \in PopSteps
      <4>1. P' = P \cup {r}
        BY <1>4, <3>1
      <4>2. IsFiniteSet(P') /\ Cardinality(P') = Cardinality(P \cup {r})
        BY <1>5, <4>1, Zenon
      <4> QED BY <1>2, <1>3, <1>5, <3>1, <4>2
    <3>2. CASE ~(asked[r] = q /\ step \in PopSteps)
      <4>1. P' = P \ {r}
        BY <1>4, <3>2
      <4>2. IsFiniteSet(P') /\ Cardinality(P') = Cardinality(P \ {r})
        BY <1>5, <4>1, Zenon
      <4> QED BY <1>2, <1>3, <1>5, <3>2, <4>2
    <3> QED BY <3>1, <3>2
  <2>2. /\ IsFiniteSet(T')
        /\ Cardinality(T') = Cardinality(T)
                + (IF asked[r] = q /\ step = "pop1" THEN 1 ELSE 0)
                - (IF asked[r] = q /\ pc[r] = "pop1" THEN 1 ELSE 0)
    <3>1. CASE asked[r] = q /\ step = "pop1"
      <4>1. T' = T \cup {r}
        BY <1>4, <3>1
      <4>2. IsFiniteSet(T') /\ Cardinality(T') = Cardinality(T \cup {r})
        BY <1>6, <4>1, Zenon
      <4> QED BY <1>2, <1>3, <1>6, <3>1, <4>2
    <3>2. CASE ~(asked[r] = q /\ step = "pop1")
      <4>1. T' = T \ {r}
        BY <1>4, <3>2
      <4>2. IsFiniteSet(T') /\ Cardinality(T') = Cardinality(T \ {r})
        BY <1>6, <4>1, Zenon
      <4> QED BY <1>2, <1>3, <1>6, <3>2, <4>2
    <3> QED BY <3>1, <3>2
  <2> QED BY <2>1, <2>2
<1> QED BY <1>3, <1>7 DEF P, T
\* A step takes from a queue, or adds to it, no more than it owes.
LEMMA OwedKept ==
  ASSUME Inv, PopsOwed, NEW r \in Requests, Step(r) PROVE PopsOwed'
<1> DEFINE Stay  == UNCHANGED queue
           Owed(q, step) == (IF asked[r] = q /\ step \in PopSteps THEN 1 ELSE 0)
                            + (IF asked[r] = q /\ step = "pop1" THEN 1 ELSE 0)
<1>0. /\ queue \in [Queues -> Seq(Requests)] /\ asked[r] \in Queues
      /\ pc \in [Requests -> Steps]
      /\ \A q \in Queues : queue[q] \in Seq(Requests) /\ Len(queue[q]) \in Nat
  BY DEF Inv, TypeOK, Steps
<1>1. asked' = asked /\ redis' = redis
  BY DEF Step, CreateTicket, PushAndPop, Push, CheckLength, PopOne, FindServer, SaveServer,
         MarkTicket
<1>2. PICK step \in Steps : Goto(r, step)
  BY DEF Step, CreateTicket, PushAndPop, Push, CheckLength, PopOne, FindServer, SaveServer,
         MarkTicket, Goto, AfterPop, Steps
<1>3. pc'[r] = step /\ \A s \in Requests : s # r => pc'[s] = pc[s]
  BY <1>0, <1>2 DEF Goto
<1>4. ~redis' => \A s \in Requests : pc'[s] \notin PopSteps
  <2> SUFFICES ASSUME ~redis PROVE step \notin PopSteps
    BY <1>1, <1>3 DEF PopsOwed
  <2>1. pc[r] \notin PopSteps
    BY DEF PopsOwed
  <2> QED
    BY <1>3, <2>1, <1>0 DEF Step, CreateTicket, PushAndPop, Push, CheckLength, PopOne, FindServer,
         SaveServer, MarkTicket, Goto, AfterPop, PopSteps
<1>5. ASSUME NEW q \in Queues
      PROVE  /\ IsFiniteSet(Popping(q)') /\ IsFiniteSet(TwoToGo(q)')
             /\ Len(queue'[q]) <= 1 + Cardinality(Popping(q)') + Cardinality(TwoToGo(q)')
  <2> DEFINE n  == Cardinality(Popping(q)) + Cardinality(TwoToGo(q))
             nn == Cardinality(Popping(q)') + Cardinality(TwoToGo(q)')
  <2>1. /\ IsFiniteSet(Popping(q)') /\ IsFiniteSet(TwoToGo(q)')
        /\ Cardinality(Popping(q)) \in Nat /\ Cardinality(TwoToGo(q)) \in Nat
        /\ Cardinality(Popping(q)') =
              Cardinality(Popping(q))
                + (IF asked[r] = q /\ step \in PopSteps THEN 1 ELSE 0)
                - (IF asked[r] = q /\ pc[r] \in PopSteps THEN 1 ELSE 0)
        /\ Cardinality(TwoToGo(q)') =
              Cardinality(TwoToGo(q))
                + (IF asked[r] = q /\ step = "pop1" THEN 1 ELSE 0)
                - (IF asked[r] = q /\ pc[r] = "pop1" THEN 1 ELSE 0)
    BY <1>1, <1>2, PoppingCounts
  <2>2. IsFiniteSet(Popping(q)') /\ IsFiniteSet(TwoToGo(q)')
    BY <2>1
  <2>3. Cardinality(Popping(q)') \in Nat /\ Cardinality(TwoToGo(q)') \in Nat
    BY <2>2, FS_CardinalityType
  <2>4. Len(queue[q]) <= 1 + n
    <3>1. Len(queue[q]) <= 1 + Cardinality(Popping(q)) + Cardinality(TwoToGo(q))
      BY DEF PopsOwed
    <3> QED BY <1>0, <2>1, <3>1
  <2>5. /\ n \in Nat /\ nn \in Nat
        /\ nn = n + Owed(q, step) - Owed(q, pc[r])
    BY <2>1, <2>3
  <2>6. asked[r] # q => Owed(q, step) = 0 /\ Owed(q, pc[r]) = 0
    OBVIOUS
  <2> HIDE DEF n, nn
  <2>7. Len(queue'[q]) <= 1 + nn
    <3>1. CASE asked[r] # q
      <4>1. queue'[q] = queue[q]
        BY <1>0, <3>1 DEF Step, CreateTicket, PushAndPop, Push, CheckLength, PopOne, FindServer,
                SaveServer, MarkTicket, rowVars
      <4> QED BY <1>0, <2>4, <2>5, <2>6, <3>1, <4>1
    <3>2. CASE asked[r] = q
      <4>1. Owed(q, step) = (IF step \in PopSteps THEN 1 ELSE 0)
                            + (IF step = "pop1" THEN 1 ELSE 0)
        BY <3>2
      <4>2. Owed(q, pc[r]) = (IF pc[r] \in PopSteps THEN 1 ELSE 0)
                             + (IF pc[r] = "pop1" THEN 1 ELSE 0)
        BY <3>2
      <4> HIDE DEF Owed
      <4>3. CASE CreateTicket(r) \/ FindServer(r) \/ SaveServer(r) \/ MarkTicket(r)
        <5>1. queue'[q] = queue[q] /\ pc[r] \notin PopSteps
          BY <4>3 DEF CreateTicket, FindServer, SaveServer, MarkTicket, rowVars, PopSteps
        <5>2. Owed(q, pc[r]) = 0 /\ Owed(q, step) \in Nat
          BY <4>1, <4>2, <5>1 DEF PopSteps
        <5> QED BY <1>0, <2>4, <2>5, <5>1, <5>2
      <4>4. CASE Push(r)
        <5>1. queue'[q] = Append(queue[q], r) /\ pc[r] = "push" /\ step = "length"
          BY <1>0, <1>3, <3>2, <4>4 DEF Push, Goto
        <5>2. Owed(q, pc[r]) = 0 /\ Owed(q, step) = 1
          BY <4>1, <4>2, <5>1 DEF PopSteps
        <5>3. Len(queue'[q]) = Len(queue[q]) + 1
          BY <1>0, <5>1
        <5> QED BY <1>0, <2>4, <2>5, <5>2, <5>3
      <4>5. CASE CheckLength(r)
        <5>1. queue'[q] = queue[q] /\ pc[r] = "length"
              /\ step = IF Len(queue[q]) < 2 THEN "done" ELSE "pop1"
          BY <1>0, <1>3, <3>2, <4>5 DEF CheckLength, Goto, TicketsToMatch
        <5>2. CASE Len(queue[q]) < 2
          BY <1>0, <2>5, <5>1, <5>2
        <5>3. CASE ~(Len(queue[q]) < 2)
          <6>1. Owed(q, pc[r]) = 1 /\ Owed(q, step) = 2
            BY <4>1, <4>2, <5>1, <5>3 DEF PopSteps
          <6> QED BY <1>0, <2>4, <2>5, <5>1, <6>1
        <5> QED BY <5>2, <5>3
      <4>6. CASE PopOne(r)
        <5>1. /\ queue'[q] = Popped(queue[q]) /\ pc[r] \in {"pop1", "pop2"}
              /\ pc[r] = "pop1" => step = "pop2"
              /\ pc[r] = "pop2" => step \in {"done", "find"}
          BY <1>0, <1>3, <3>2, <4>6 DEF PopOne, Goto, AfterPop
        <5>2. Owed(q, step) = Owed(q, pc[r]) - 1
          <6>1. CASE pc[r] = "pop1"
            BY <4>1, <4>2, <5>1, <6>1 DEF PopSteps
          <6>2. CASE pc[r] = "pop2"
            BY <4>1, <4>2, <5>1, <6>2 DEF PopSteps
          <6> QED BY <5>1, <6>1, <6>2
        <5>3. Len(Popped(queue[q])) = 0 \/ Len(Popped(queue[q])) = Len(queue[q]) - 1
          BY <1>0 DEF Popped
        <5>4. Owed(q, pc[r]) \in Nat
          BY <4>2
        <5> QED BY <1>0, <2>4, <2>5, <5>1, <5>2, <5>3, <5>4
      <4>7. CASE PushAndPop(r)
        <5>1. ~redis /\ pc[r] = "push"
          BY <4>7 DEF PushAndPop
        <5>2. Popping(q) = {} /\ TwoToGo(q) = {}
          BY <5>1 DEF PopsOwed, Popping, TwoToGo, PopSteps
        <5>3. n = 0
          BY <5>2, FS_EmptySet DEF n
        <5>4. PICK waiting \in Seq(Requests) : waiting = Append(queue[q], r)
          <6>1. queue[q] \in Seq(Requests)
            BY <1>0
          <6>2. Append(queue[q], r) \in Seq(Requests)
            BY <6>1
          <6> QED BY <6>2
        <5>5. Len(waiting) = Len(queue[q]) + 1
          BY <1>0, <5>4
        <5>6. queue'[q] = SubSeq(waiting, Splice(waiting) + 1, Len(waiting))
          BY <1>0, <3>2, <4>7, <5>4 DEF PushAndPop
        <5>7. Len(queue'[q]) = Len(waiting) - Splice(waiting)
          <6>1. Splice(waiting) \in 0 .. Len(waiting) /\ Len(waiting) \in Nat
            BY SplicedTypes
          <6> QED BY <5>4, <5>6, <6>1
        <5>8. Len(queue'[q]) <= 1
          BY <1>0, <2>4, <5>3, <5>5, <5>7 DEF Splice, TicketsToMatch
        <5> QED BY <1>0, <2>5, <5>7, <5>8, <5>5 DEF Splice, TicketsToMatch
      <4> QED BY <4>3, <4>4, <4>5, <4>6, <4>7 DEF Step
    <3> QED BY <3>1, <3>2
  <2>8. Len(queue'[q]) <= 1 + Cardinality(Popping(q)') + Cardinality(TwoToGo(q)')
    <3>1. queue' \in [Queues -> Seq(Requests)]
      BY TypesKept DEF Next, TypeOK
    <3>2. Len(queue'[q]) \in Nat
      BY <3>1
    <3> QED BY <2>3, <2>7, <3>2 DEF nn
  <2> QED BY <2>2, <2>8
<1> QED BY <1>4, <1>5 DEF PopsOwed

\* When no handler has died or been cut short, two tickets are never left waiting in one queue
\* without a request on its way to pop them, with the list in Redis as with the array in memory
\* (matchQueue.ts:popIfAtLeast).
THEOREM NobodyWaitsInVain == Spec => []NoPairWaits
<1> DEFINE Owing == crashes = 0 => PopsOwed
<1>1. Init => Owing
  <2> SUFFICES ASSUME Init PROVE PopsOwed
    OBVIOUS
  <2>1. \A r \in Requests : pc[r] \notin PopSteps
    BY DEF Init, PopSteps
  <2>2. ASSUME NEW q \in Queues
        PROVE  /\ IsFiniteSet(Popping(q)) /\ IsFiniteSet(TwoToGo(q))
               /\ Len(queue[q]) <= 1 + Cardinality(Popping(q)) + Cardinality(TwoToGo(q))
    <3>1. Popping(q) = {} /\ TwoToGo(q) = {}
      BY <2>1 DEF Popping, TwoToGo, PopSteps
    <3>2. /\ IsFiniteSet(Popping(q)) /\ Cardinality(Popping(q)) = 0
          /\ IsFiniteSet(TwoToGo(q)) /\ Cardinality(TwoToGo(q)) = 0
      BY <3>1, FS_EmptySet, Zenon
    <3>3. Len(queue[q]) = 0
      BY DEF Init
    <3> QED BY <3>2, <3>3
  <2> QED BY <2>1, <2>2 DEF PopsOwed
<1>2. ASSUME CountInv, Owing, Next PROVE Owing'
  <2>1. crashes \in Nat /\ Inv
    BY <1>2, MatchmakingAssumption DEF CountInv, Inv, TypeOK
  <2>2. ASSUME NEW r \in Requests, Fail(r) PROVE Owing'
    BY <2>1, <2>2 DEF Fail
  <2>3. CASE Restart
    BY <2>1, <2>3 DEF Restart
  <2>4. ASSUME NEW r \in Requests, Step(r) PROVE Owing'
    <3>1. crashes' = crashes
      BY <2>4 DEF Step, CreateTicket, PushAndPop, Push, CheckLength, PopOne, FindServer,
              SaveServer, MarkTicket
    <3> QED BY <1>2, <2>1, <2>4, <3>1, OwedKept
  <2> QED BY <1>2, <2>2, <2>3, <2>4 DEF Next
<1>3. Owing /\ UNCHANGED vars => Owing'
  BY DEF vars, PopsOwed, Popping, TwoToGo
<1>4. CountInv /\ Owing => NoPairWaits
  <2> SUFFICES ASSUME CountInv, PopsOwed, NEW q \in Queues, ~(Len(queue[q]) < TicketsToMatch)
               PROVE  \E r \in Requests : asked[r] = q /\ pc[r] \in {"length", "pop1", "pop2"}
    BY DEF NoPairWaits
  <2>1. Len(queue[q]) \in Nat
    BY DEF CountInv, Inv, TypeOK
  <2>2. CASE Popping(q) = {}
    <3>1. TwoToGo(q) = {}
      BY <2>2 DEF Popping, TwoToGo, PopSteps
    <3>2. Cardinality(Popping(q)) = 0 /\ Cardinality(TwoToGo(q)) = 0
      BY <2>2, <3>1, FS_EmptySet, Zenon
    <3> QED BY <2>1, <3>2 DEF PopsOwed, TicketsToMatch
  <2> QED BY <2>2 DEF Popping, PopSteps
<1> QED BY <1>1, <1>2, <1>3, <1>4, MatchmakingInvariant, PTL DEF Spec
-----------------------------------------------------------------------------
(* TakenIsMatched: what its request still owes a ticket.                   *)

\* The tickets a request has marked.
Marked(r) == {popped[r][i] : i \in 1 .. marked[r]}

\* The tickets of a request go to its server together; nobody else's do, and none is forgotten.
MatchedTogether ==
  /\ \A r \in Requests : \A t \in Marked(r) :
       ticket[t] = "MATCHED" /\ session[t] = placed[r] /\ placed[r] # NoServer
  /\ \A t \in Requests : ticket[t] = "MATCHED" => \E r \in Requests : t \in Marked(r)
  /\ \A r \in Requests : pc[r] = "done" => Marked(r) = ToSet(popped[r])

MarksInOrder ==
  \A r \in Requests :
    /\ marked[r] <= Len(popped[r])
    /\ pc[r] = "mark" => placed[r] # NoServer
    /\ pc[r] = "done" => marked[r] = Len(popped[r])

LEMMA MarksStep == Inv /\ Inv' /\ MarksInOrder /\ [Next]_vars => MarksInOrder'
<1> SUFFICES ASSUME Inv, Inv', MarksInOrder, [Next]_vars PROVE MarksInOrder'
  OBVIOUS
<1>0. TypeOK /\ InOrder /\ TypeOK'
  BY DEF Inv
<1>len. \A r \in Requests : Len(popped[r]) \in Nat /\ marked[r] \in Nat
  <2> SUFFICES ASSUME NEW r \in Requests PROVE Len(popped[r]) \in Nat /\ marked[r] \in Nat
    OBVIOUS
  <2>1. popped[r] \in Seq(Requests)
    BY <1>0 DEF TypeOK
  <2> QED BY <1>0, <2>1 DEF TypeOK
<1>kept. ASSUME UNCHANGED <<marked, popped, placed>>,
             \A r \in Requests :
               \/ pc'[r] = pc[r]
               \/ pc'[r] \notin {"mark", "done"}
               \/ marked[r] = Len(popped[r]) /\ pc'[r] = "done"
      PROVE  MarksInOrder'
  BY <1>kept DEF MarksInOrder
<1>early. \A r \in Requests :
        pc[r] \in {"idle", "push", "length"} => marked[r] = Len(popped[r])
  BY <1>0 DEF InOrder
<1> USE DEF Goto, rowVars
<1>1. ASSUME NEW r \in Requests, CreateTicket(r) \/ Push(r) \/ CheckLength(r) \/ FindServer(r) \/ Fail(r)
      PROVE  MarksInOrder'
  <2>1. /\ UNCHANGED <<marked, popped, placed>>
        /\ \A s \in Requests : s # r => pc'[s] = pc[s]
        /\ \/ pc'[r] \notin {"mark", "done"}
           \/ pc[r] = "length" /\ pc'[r] = "done"
    BY <1>0, <1>1 DEF CreateTicket, Push, CheckLength, FindServer, Fail, TypeOK
  <2> QED BY <1>kept, <1>early, <2>1
<1>2. ASSUME NEW r \in Requests, PushAndPop(r) \/ PopOne(r) PROVE MarksInOrder'
  <2>1. /\ pc[r] \in {"push", "pop1", "pop2"} /\ UNCHANGED <<marked, placed>>
        /\ \A s \in Requests : s # r => pc'[s] = pc[s] /\ popped'[s] = popped[s]
        /\ pc'[r] = "done" => popped'[r] = <<>>
        /\ pc'[r] # "mark"
    BY <1>0, <1>2 DEF PushAndPop, PopOne, AfterPop, TypeOK
  <2>2. marked[r] = 0
    BY <1>0, <2>1 DEF InOrder
  <2>3. Len(popped'[r]) \in Nat
    <3>1. popped'[r] \in Seq(Requests)
      BY <1>0 DEF TypeOK
    <3> QED BY <3>1
  <2>4. popped'[r] = <<>> => Len(popped'[r]) = 0
    OBVIOUS
  <2> QED BY <2>1, <2>2, <2>3, <2>4 DEF MarksInOrder
<1>3. ASSUME NEW r \in Requests, SaveServer(r) PROVE MarksInOrder'
  <2> DEFINE s == IF HasRoom(r) THEN found[r].name ELSE r
  <2>1. s # NoServer
    BY MatchmakingAssumption DEF HasRoom
  <2>2. pc' = [pc EXCEPT ![r] = "mark"] /\ placed' = [placed EXCEPT ![r] = s] /\ UNCHANGED <<marked, popped>>
    BY <1>3 DEF SaveServer
  <2>3. \A q \in Requests : pc'[q] = "done" => pc[q] = "done"
    BY <1>0, <2>2 DEF TypeOK
  <2> HIDE DEF s
  <2> QED BY <1>0, <2>1, <2>2, <2>3 DEF TypeOK, MarksInOrder
<1>4. ASSUME NEW r \in Requests, MarkTicket(r) PROVE MarksInOrder'
  <2>1. /\ pc[r] = "mark" /\ marked' = [marked EXCEPT ![r] = @ + 1] /\ UNCHANGED <<placed, popped>>
        /\ pc' = [pc EXCEPT ![r] = IF LastMarked(r) THEN "done" ELSE "mark"]
    BY <1>4 DEF MarkTicket
  <2>2. marked[r] < Len(popped[r])
    BY <1>0, <2>1 DEF InOrder
  <2>3. /\ marked'[r] = marked[r] + 1 /\ (pc'[r] = "done" => marked'[r] = Len(popped[r]))
        /\ \A s \in Requests : s # r => pc'[s] = pc[s] /\ marked'[s] = marked[s]
    BY <1>0, <2>1 DEF LastMarked, TypeOK
  <2> QED BY <1>len, <2>1, <2>2, <2>3 DEF MarksInOrder
<1>5. CASE Restart
  <2>1. UNCHANGED <<marked, popped, placed>> /\ \A r \in Requests : pc'[r] = pc[r] \/ pc'[r] = "failed"
    BY <1>5 DEF Restart
  <2> QED BY <1>kept, <2>1
<1>6. CASE UNCHANGED vars
  BY <1>6 DEF vars, MarksInOrder
<1> QED BY <1>1, <1>2, <1>3, <1>4, <1>5, <1>6 DEF Next, Step

LEMMA MarkedTaken ==
  ASSUME TypeOK, MarksInOrder, NEW r \in Requests
  PROVE  /\ Marked(r) \subseteq ToSet(popped[r]) /\ ToSet(popped[r]) \subseteq Requests
         /\ marked[r] = Len(popped[r]) => Marked(r) = ToSet(popped[r])
<1> DEFINE p == popped[r]
<1>1. p \in Seq(Requests) /\ marked[r] \in Nat /\ marked[r] <= Len(p)
  BY DEF TypeOK, MarksInOrder
<1>2. /\ \A x : x \in ToSet(p) <=> \E i \in 1 .. Len(p) : x = p[i]
      /\ ToSet(p) \subseteq Requests /\ Len(p) \in Nat
  BY <1>1, ToSetIs
<1>3. \A x : x \in Marked(r) <=> \E i \in 1 .. marked[r] : x = p[i]
  BY DEF Marked
<1>4. 1 .. marked[r] \subseteq 1 .. Len(p)
  BY <1>1, <1>2
<1> HIDE DEF p
<1> QED BY <1>2, <1>3, <1>4 DEF p

\* MatchedTogether but for its last conjunct, which follows from MarksInOrder.
MatchesMade ==
  /\ \A r \in Requests : \A t \in Marked(r) :
       ticket[t] = "MATCHED" /\ session[t] = placed[r] /\ placed[r] # NoServer
  /\ \A t \in Requests : ticket[t] = "MATCHED" => \E r \in Requests : t \in Marked(r)

LEMMA MatchesStep == Inv /\ MarksInOrder /\ MatchesMade /\ [Next]_vars => MatchesMade'
<1> SUFFICES ASSUME Inv, MarksInOrder, MatchesMade, [Next]_vars PROVE MatchesMade'
  OBVIOUS
<1>0. TypeOK /\ InOrder /\ OnePlace /\ TakenOnce
  BY DEF Inv
<1> USE DEF Goto, rowVars
<1>1. ASSUME marked' = marked,
             \A r \in Requests : marked[r] = 0 \/ (popped'[r] = popped[r] /\ placed'[r] = placed[r])
      PROVE  \A r \in Requests : Marked(r)' = Marked(r) /\ (Marked(r) = {} \/ placed'[r] = placed[r])
  <2> SUFFICES ASSUME NEW r \in Requests
               PROVE  Marked(r)' = Marked(r) /\ (Marked(r) = {} \/ placed'[r] = placed[r])
    OBVIOUS
  <2>1. CASE marked[r] = 0
    BY <1>1, <2>1 DEF Marked
  <2>2. CASE popped'[r] = popped[r] /\ placed'[r] = placed[r]
    BY <1>1, <2>2 DEF Marked
  <2> QED BY <1>1, <2>1, <2>2
<1>2. ASSUME UNCHANGED <<ticket, session>>, marked' = marked,
             \A r \in Requests : marked[r] = 0 \/ (popped'[r] = popped[r] /\ placed'[r] = placed[r])
      PROVE  MatchesMade'
  <2>1. \A r \in Requests : Marked(r)' = Marked(r) /\ (Marked(r) = {} \/ placed'[r] = placed[r])
    BY <1>1, <1>2
  <2> QED BY <1>2, <2>1 DEF MatchesMade
<1>3. ASSUME NEW r \in Requests, CreateTicket(r) PROVE MatchesMade'
  <2>1. \A s \in Requests : Marked(s)' = Marked(s) /\ placed'[s] = placed[s]
    BY <1>3 DEF CreateTicket, Marked
  <2>2. \A s \in Requests : r \notin Marked(s)
    <3>1. \A s \in Requests : r \notin ToSet(popped[s])
      BY <1>0, <1>3 DEF CreateTicket, OnePlace
    <3> QED BY <1>0, <3>1, MarkedTaken
  <2>3. /\ session' = session /\ ticket'[r] = "SEARCHING"
        /\ \A t \in Requests : t # r => ticket'[t] = ticket[t]
    BY <1>0, <1>3 DEF CreateTicket, TypeOK
  <2>4. \A s \in Requests : Marked(s) \subseteq Requests
    BY <1>0, MarkedTaken
  <2> QED BY <2>1, <2>2, <2>3, <2>4 DEF MatchesMade
<1>4. ASSUME NEW r \in Requests, PushAndPop(r) \/ PopOne(r) PROVE MatchesMade'
  <2>1. /\ pc[r] \in {"push", "pop1", "pop2"} /\ UNCHANGED <<marked, placed, ticket, session>>
        /\ \A s \in Requests : s # r => popped'[s] = popped[s]
    BY <1>0, <1>4 DEF PushAndPop, PopOne, TypeOK
  <2>2. marked[r] = 0
    BY <1>0, <2>1 DEF InOrder
  <2> QED BY <1>2, <2>1, <2>2
<1>5. ASSUME NEW r \in Requests, SaveServer(r) PROVE MatchesMade'
  <2>1. /\ pc[r] = "save" /\ UNCHANGED <<marked, popped, ticket, session>>
        /\ \A s \in Requests : s # r => placed'[s] = placed[s]
    BY <1>0, <1>5 DEF SaveServer, TypeOK
  <2>2. marked[r] = 0
    BY <1>0, <2>1 DEF InOrder
  <2> QED BY <1>2, <2>1, <2>2
<1>6. ASSUME NEW r \in Requests, MarkTicket(r) PROVE MatchesMade'
  <2> DEFINE n == marked[r] + 1
             t == popped[r][n]
  <2>1. /\ pc[r] = "mark" /\ marked' = [marked EXCEPT ![r] = n] /\ UNCHANGED <<placed, popped>>
        /\ ticket' = [ticket EXCEPT ![t] = "MATCHED"] /\ session' = [session EXCEPT ![t] = placed[r]]
    BY <1>6 DEF MarkTicket
  <2>2. marked[r] \in Nat /\ marked[r] < Len(popped[r]) /\ popped[r] \in Seq(Requests)
    BY <1>0, <2>1 DEF InOrder, TypeOK
  <2>3. n \in 1 .. Len(popped[r]) /\ 1 .. n = (1 .. marked[r]) \cup {n}
    BY <2>2
  <2>4. t \in ToSet(popped[r]) /\ t \in Requests
    BY <2>2, <2>3, ToSetIs
  <2>5. \A s \in Requests : s # r => t \notin Marked(s) /\ Marked(s)' = Marked(s)
    <3> SUFFICES ASSUME NEW s \in Requests, s # r PROVE t \notin Marked(s) /\ Marked(s)' = Marked(s)
      OBVIOUS
    <3>1. t \notin ToSet(popped[s])
      BY <1>0, <2>4 DEF TakenOnce
    <3>2. marked'[s] = marked[s] /\ popped'[s] = popped[s]
      BY <1>0, <2>1 DEF TypeOK
    <3> QED BY <1>0, <3>1, <3>2, MarkedTaken DEF Marked
  <2>6. Marked(r)' = Marked(r) \cup {t}
    <3>1. marked'[r] = n /\ popped'[r] = popped[r]
      BY <1>0, <2>1 DEF TypeOK
    <3>2. Marked(r)' = {popped[r][i] : i \in 1 .. n}
      BY <3>1 DEF Marked
    <3> QED BY <2>3, <3>2 DEF Marked
  <2>7. placed[r] # NoServer
    BY <2>1 DEF MarksInOrder
  <2>8. \A s \in Requests : Marked(s) \subseteq Requests
    BY <1>0, MarkedTaken
  <2> HIDE DEF t, n
  <2>9. /\ ticket'[t] = "MATCHED" /\ session'[t] = placed[r]
        /\ \A u \in Requests : u # t => ticket'[u] = ticket[u] /\ session'[u] = session[u]
    BY <1>0, <2>1, <2>4 DEF TypeOK
  <2>10. ASSUME NEW s \in Requests, NEW u \in Marked(s)'
         PROVE  ticket'[u] = "MATCHED" /\ session'[u] = placed'[s] /\ placed'[s] # NoServer
    <3>1. u = t => s = r
      BY <2>5
    <3>2. u # t => u \in Marked(s)
      BY <2>5, <2>6
    <3> QED BY <2>1, <2>7, <2>8, <2>9, <3>1, <3>2 DEF MatchesMade
  <2>11. ASSUME NEW u \in Requests, ticket'[u] = "MATCHED" PROVE \E s \in Requests : u \in Marked(s)'
    <3>1. CASE u = t
      BY <2>6, <3>1
    <3>2. CASE u # t
      <4>1. PICK s \in Requests : u \in Marked(s)
        BY <2>9, <2>11, <3>2 DEF MatchesMade
      <4> QED BY <2>5, <2>6, <4>1
    <3> QED BY <3>1, <3>2
  <2> QED BY <2>10, <2>11 DEF MatchesMade
<1>7. ASSUME NEW r \in Requests, Push(r) \/ CheckLength(r) \/ FindServer(r) \/ Fail(r) PROVE MatchesMade'
  BY <1>2, <1>7 DEF Push, CheckLength, FindServer, Fail
<1>8. CASE Restart \/ UNCHANGED vars
  BY <1>2, <1>8 DEF Restart, vars
<1> QED BY <1>3, <1>4, <1>5, <1>6, <1>7, <1>8 DEF Next, Step

\* The tickets a request popped are matched to one server, the one it allocated, and a ticket is
\* matched by that request only; when the request is answered none of them is left SEARCHING,
\* however the requests overlap and wherever they fail (the matchmake handler of cloud/index.ts).
THEOREM MatchesAreComplete == Spec => []MatchedTogether
<1>1. Init => MarksInOrder /\ MatchesMade
  <2> SUFFICES ASSUME Init PROVE MarksInOrder /\ MatchesMade
    OBVIOUS
  <2>1. \A r \in Requests : marked[r] = 0 /\ popped[r] = <<>> /\ pc[r] = "idle" /\ ticket[r] = "none"
    BY DEF Init
  <2>2. \A r \in Requests : Marked(r) = {}
    BY <2>1 DEF Marked
  <2> QED BY <2>1, <2>2 DEF MarksInOrder, MatchesMade
<1>2. CountInv => Inv
  BY DEF CountInv
<1>3. Inv /\ Inv' /\ MarksInOrder /\ MatchesMade /\ [Next]_vars => (MarksInOrder /\ MatchesMade)'
  BY MarksStep, MatchesStep
<1>4. Inv /\ MarksInOrder /\ MatchesMade => MatchedTogether
  <2> SUFFICES ASSUME Inv, MarksInOrder, MatchesMade, NEW r \in Requests, pc[r] = "done"
               PROVE  Marked(r) = ToSet(popped[r])
    BY DEF MatchedTogether, MatchesMade
  <2> QED BY MarkedTaken DEF MarksInOrder, Inv
<1> QED BY <1>1, <1>2, <1>3, <1>4, MatchmakingInvariant, PTL DEF Spec

\* What is left to happen to a ticket until it is matched.
TakenIsDue ==
  \A r \in Requests : \A t \in ToSet(popped[r]) :
    \/ ticket[t] = "MATCHED" /\ session[t] = placed[r]
    \/ pc[r] \in {"pop2", "find", "save", "mark", "failed"}

\* A ticket that was taken is matched, or in the hands of a request that has not ended, or that died.
THEOREM TakenComesDue == Spec => []TakenIsDue
<1>1. CountInv /\ MatchedTogether => TakenIsDue
  <2> SUFFICES ASSUME CountInv, MatchedTogether, NEW r \in Requests, NEW t \in ToSet(popped[r]),
                      pc[r] \notin {"pop2", "find", "save", "mark", "failed"}
               PROVE  ticket[t] = "MATCHED" /\ session[t] = placed[r]
    BY DEF TakenIsDue
  <2>1. popped[r] # <<>>
    BY DEF ToSet
  <2>2. pc[r] = "done"
    BY <2>1 DEF CountInv, Inv, TypeOK, InOrder
  <2> QED BY <2>2 DEF MatchedTogether
<1> QED BY <1>1, MatchmakingInvariant, MatchesAreComplete, PTL
=============================================================================
