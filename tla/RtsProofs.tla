------------------------------ MODULE RtsProofs ------------------------------
(***************************************************************************)
(* Proofs about the real-time strategy game: the lobby its records are     *)
(* kept in (RtsLobby), the match its peers play in lockstep (Lockstep),    *)
(* and the simulation each of them runs (RtsSim).                          *)
(***************************************************************************)
EXTENDS RtsLobby, Lockstep, RtsSim, FiniteSetTheorems, SequenceTheorems, TLAPS

(***************************************************************************)
(* The lobby: types, and the consistency of the RTS record in both stores. *)
(***************************************************************************)
\* A record that is stored was computed on the stored one or on a copy somebody
\* read, so the copies have to be consistent as well.
IInv == TypeOK /\ Consistent(record) /\ \A h \in Requests : Consistent(copy[h])

LEMMA ObjectConsistent ==
  ASSUME IInv, NEW h \in Requests
  PROVE  Object(h) \in Records /\ Consistent(Object(h))
  BY DEF IInv, TypeOK, Object

\* Whoever is granted a faction gets one nobody else holds, and keeps no other.
LEMMA SeatedConsistent ==
  ASSUME NEW rts \in Records, Consistent(rts), NEW u \in Users,
         NEW w \in Factions \cup {Unnamed}, NEW f \in Grants(rts, u, w)
  PROVE  f \in Factions /\ Seated(rts, u, f) \in Records /\ Consistent(Seated(rts, u, f))
<1> DEFINE new == [g \in Factions |->
                     IF g = f THEN u ELSE IF rts.assign[g] = u THEN AI ELSE rts.assign[g]]
<1>1. f \in Factions /\ (rts.assign[f] = u \/ rts.assign[f] = AI)
  BY DEF Grants
<1>2. rts.assign \in [Factions -> Users \cup {AI}] /\ rts.ready \in SUBSET Users
  BY DEF Records, Rosters
<1>3. new \in [Factions -> Users \cup {AI}]
  BY <1>1, <1>2
<1>4. Seated(rts, u, f) = [rts EXCEPT !.assign = new, !.ready = rts.ready \ {u}]
  BY DEF Seated
<1>5. /\ Seated(rts, u, f) \in Records
      /\ Seated(rts, u, f).assign = new
      /\ Seated(rts, u, f).ready = rts.ready \ {u}
  BY <1>2, <1>3, <1>4 DEF Records, Rosters
<1>6. \A v \in rts.ready \ {u} : \E g \in Factions : new[g] = v
  <2> SUFFICES ASSUME NEW v \in rts.ready \ {u} PROVE \E g \in Factions : new[g] = v
    OBVIOUS
  <2>1. PICK g \in Factions : rts.assign[g] = v
    BY DEF Consistent, Humans
  <2>2. g # f
    BY <1>1, <1>2, <2>1, LobbyAssumption
  <2> QED BY <2>1, <2>2
<1>7. \A g, k \in Factions : new[g] = new[k] /\ new[g] # AI => g = k
  BY <1>1, <1>2 DEF Consistent
<1>8. Consistent(Seated(rts, u, f))
  BY <1>2, <1>5, <1>6, <1>7 DEF Consistent, Humans
<1> QED BY <1>1, <1>5, <1>8

LEMMA InitConsistent == Init => IInv
<1> SUFFICES ASSUME Init PROVE IInv
  OBVIOUS
<1> USE LobbyAssumption
<1>1. record \in Records /\ Consistent(record)
  BY DEF Init, Records, Rosters, Consistent, Humans, AI
<1>2. TypeOK
  <2>1. /\ status \in Statuses /\ live \in Statuses
        /\ rows \in [Requests \cup {Creation} -> Users \cup {NoOne}]
        /\ pc \in [Requests -> Steps]
        /\ seen \in [Requests -> Statuses]
    BY DEF Init, Statuses, Steps
  <2>2. /\ told \in [Users -> Factions \cup {Unnamed}]
        /\ want \in [Joins -> Factions \cup {Unnamed}]
        /\ acked \subseteq Users
        /\ crashes \in 0..MaxCrashes
        /\ underway \subseteq Requests
    BY DEF Init
  <2>3. /\ user \in [Requests -> Users]
        /\ humans \in [Readies -> SUBSET Users]
        /\ starts \in [Readies -> Rosters \cup {NoRoster}]
    BY DEF Init
  <2>4. copy \in [Requests -> Records]
    BY <1>1 DEF Init
  <2> QED BY <1>1, <2>1, <2>2, <2>3, <2>4 DEF TypeOK
<1>3. \A h \in Requests : copy[h] = record
  BY DEF Init
<1> QED BY <1>1, <1>2, <1>3 DEF IInv

\* The steps that leave the record and everybody's copy of it alone.
LEMMA QuietStep ==
  ASSUME IInv, TypeOK', UNCHANGED <<record, copy>>
  PROVE  IInv'
  BY DEF IInv, Consistent, Humans

LEMMA GetRecordKeeps ==
  ASSUME IInv, NEW h \in Requests, NEW next \in Steps, GetRecord(h, next)
  PROVE  IInv'
<1>1. TypeOK'
  BY DEF IInv, TypeOK, GetRecord, Keep, Goto, sessionVars, answerVars, Requests
<1>2. record' = record /\ \A g \in Requests : copy'[g] = copy[g] \/ copy'[g] = record
  BY DEF IInv, TypeOK, GetRecord, Keep
<1> QED BY <1>1, <1>2 DEF IInv, Consistent, Humans

LEMMA SharedStepsKeep ==
  ASSUME IInv, NEW h \in Requests, NEW next \in Steps,
         CountPlayers(h, next) \/ CreateRow(h, next) \/ SyncLive(h, next)
  PROVE  IInv'
<1> USE DEF IInv, TypeOK, Goto, sessionVars, answerVars, localVars
<1>1. CASE CountPlayers(h, next)
  <2>1. TypeOK' /\ UNCHANGED <<record, copy>>
    BY <1>1 DEF CountPlayers, Steps
  <2> QED BY <2>1, QuietStep
<1>2. CASE CreateRow(h, next)
  <2>1. TypeOK' /\ UNCHANGED <<record, copy>>
    BY <1>2 DEF CreateRow
  <2> QED BY <2>1, QuietStep
<1>3. CASE SyncLive(h, next)
  <2>1. TypeOK' /\ UNCHANGED <<record, copy>>
    BY <1>3 DEF SyncLive
  <2> QED BY <2>1, QuietStep
<1> QED BY <1>1, <1>2, <1>3

LEMMA JoinKeeps ==
  ASSUME IInv, NEW j \in Joins, BeginJoin(j) \/ JoinStep(j)
  PROVE  IInv'
<1>0. j \in Requests /\ {"get", "count", "row", "take", "sync", "done"} \subseteq Steps
  BY DEF Requests, Steps
<1>1. CASE BeginJoin(j)
  <2>1. TypeOK' /\ UNCHANGED <<record, copy>>
    BY <1>0, <1>1 DEF IInv, TypeOK, BeginJoin, Goto, sessionVars, answerVars
  <2> QED BY <2>1, QuietStep
<1>2. CASE TakeFaction(j)
  <2>1. CASE record' = record
    <3>1. TypeOK' /\ UNCHANGED <<record, copy>>
      <4>1. told' = told \/ \E f \in Grants(Object(j), user[j], want[j]) :
                              told' = [told EXCEPT ![user[j]] = f]
        BY <1>2 DEF TakeFaction
      <4>2. told' \in [Users -> Factions \cup {Unnamed}]
        BY <4>1, <1>0, ObjectConsistent, SeatedConsistent DEF IInv, TypeOK
      <4>3. acked' \subseteq Users
        BY <1>2 DEF TakeFaction, IInv, TypeOK
      <4>4. pc' \in [Requests -> Steps]
        BY <1>0, <1>2 DEF TakeFaction, Goto, IInv, TypeOK
      <4> QED BY <4>2, <4>3, <4>4, <1>2, <2>1
            DEF TakeFaction, IInv, TypeOK, sessionVars, localVars
    <3> QED BY <3>1, QuietStep
  <2>2. CASE record' # record
    <3>1. PICK f \in Grants(Object(j), user[j], want[j]) :
            /\ record' = Seated(Object(j), user[j], f)
            /\ told' = [told EXCEPT ![user[j]] = f]
            /\ acked' = acked \ {user[j]}
            /\ Goto(j, "sync")
      BY <1>2, <2>2 DEF TakeFaction
    <3>2. f \in Factions /\ record' \in Records /\ Consistent(record')
      BY <1>0, <3>1, ObjectConsistent, SeatedConsistent DEF IInv, TypeOK
    <3>3. UNCHANGED <<sessionVars, starts, localVars, crashes, underway>>
      BY <1>2 DEF TakeFaction
    <3>4. TypeOK'
      BY <1>0, <3>1, <3>2, <3>3 DEF IInv, TypeOK, Goto, sessionVars, localVars
    <3>5. copy' = copy
      BY <3>3 DEF localVars
    <3> QED BY <3>2, <3>4, <3>5 DEF IInv, Consistent, Humans
  <2> QED BY <2>1, <2>2
<1> QED
  BY <1>0, <1>1, <1>2, GetRecordKeeps, SharedStepsKeep DEF JoinStep

LEMMA ReadyKeeps ==
  ASSUME IInv, NEW r \in Readies, BeginReady(r) \/ ReadyStep(r)
  PROVE  IInv'
<1>0. /\ r \in Requests
      /\ {"get", "mark", "check", "start", "sync", "publish", "done"} \subseteq Steps
  BY DEF Requests, Steps
<1> USE DEF sessionVars, answerVars, localVars
<1>1. CASE BeginReady(r)
  <2>1. TypeOK' /\ UNCHANGED <<record, copy>>
    BY <1>0, <1>1 DEF IInv, TypeOK, BeginReady, Goto
  <2> QED BY <2>1, QuietStep
<1>2. CASE MarkReady(r)
  <2> DEFINE rts == [Object(r) EXCEPT !.ready = @ \cup {user[r]}]
  <2>0. user[r] \in Users /\ Object(r) \in Records /\ Consistent(Object(r))
    BY <1>0, ObjectConsistent DEF IInv, TypeOK
  <2>1. CASE user[r] \notin Humans(Object(r))
    <3>1. TypeOK' /\ UNCHANGED <<record, copy>>
      BY <1>0, <1>2, <2>1 DEF IInv, TypeOK, MarkReady, Keep, Goto
    <3> QED BY <3>1, QuietStep
  <2>2. CASE user[r] \in Humans(Object(r))
    <3>1. /\ record' = rts
          /\ copy' = IF Store = "MEMORY" THEN copy ELSE [copy EXCEPT ![r] = rts]
          /\ humans' = [humans EXCEPT ![r] = Humans(rts)]
          /\ acked' = acked \cup {user[r]}
          /\ pc' = [pc EXCEPT ![r] = "check"]
          /\ UNCHANGED <<sessionVars, starts, told, user, want, seen, crashes, underway>>
      BY <1>2, <2>2 DEF MarkReady, Keep, Goto
    <3>2. rts \in Records /\ rts.assign = Object(r).assign
          /\ rts.ready = Object(r).ready \cup {user[r]}
      BY <2>0 DEF Records
    <3>3. Consistent(rts)
      BY <2>0, <2>2, <3>2 DEF Consistent, Humans
    <3>4. Humans(rts) \subseteq Users
      BY DEF Humans
    <3> HIDE DEF rts
    <3>5. TypeOK'
      BY <1>0, <2>0, <3>1, <3>2, <3>4 DEF IInv, TypeOK
    <3>6. \A h \in Requests : copy'[h] = copy[h] \/ copy'[h] = rts
      BY <3>1 DEF IInv, TypeOK
    <3> QED BY <3>1, <3>3, <3>5, <3>6 DEF IInv, Consistent, Humans
  <2> QED BY <2>1, <2>2
<1>3. CASE CheckReady(r)
  <2>1. TypeOK' /\ UNCHANGED <<record, copy>>
    BY <1>0, <1>3 DEF IInv, TypeOK, CheckReady, Goto
  <2> QED BY <2>1, QuietStep
<1>4. CASE StartMatch(r)
  <2>1. TypeOK' /\ UNCHANGED <<record, copy>>
    BY <1>0, <1>4 DEF IInv, TypeOK, StartMatch, NoteUnderway, Goto, Statuses
  <2> QED BY <2>1, QuietStep
<1>5. CASE Broadcast(r)
  <2>1. Object(r).assign \in Rosters
    BY <1>0, ObjectConsistent DEF Records
  <2>2. TypeOK' /\ UNCHANGED <<record, copy>>
    BY <1>0, <1>5, <2>1 DEF IInv, TypeOK, Broadcast, Goto
  <2> QED BY <2>2, QuietStep
<1> QED
  BY <1>0, <1>1, <1>2, <1>3, <1>4, <1>5, GetRecordKeeps, SharedStepsKeep DEF ReadyStep

LEMMA TuneKeeps ==
  ASSUME IInv, NEW t \in Tunes, BeginTune(t) \/ TuneStep(t)
  PROVE  IInv'
<1>0. t \in Requests /\ {"get", "tune", "done"} \subseteq Steps
  BY DEF Requests, Steps
<1> USE DEF sessionVars, answerVars, localVars
<1>1. CASE BeginTune(t)
  <2>1. TypeOK' /\ UNCHANGED <<record, copy>>
    BY <1>0, <1>1 DEF IInv, TypeOK, BeginTune, Goto
  <2> QED BY <2>1, QuietStep
<1>2. CASE SetDifficulty(t)
  <2>1. /\ record' \in Records
        /\ record'.assign = Object(t).assign
        /\ record'.ready = Object(t).ready
    BY <1>0, <1>2, ObjectConsistent DEF SetDifficulty, Records
  <2>2. Consistent(record')
    BY <1>0, <2>1, ObjectConsistent DEF Consistent, Humans
  <2>3. TypeOK' /\ copy' = copy
    BY <1>0, <1>2, <2>1 DEF IInv, TypeOK, SetDifficulty, Goto
  <2> QED BY <2>2, <2>3 DEF IInv, Consistent, Humans
<1> QED BY <1>0, <1>1, <1>2, GetRecordKeeps DEF TuneStep

LEMMA PlainJoinKeeps ==
  ASSUME IInv, NEW p \in PlainJoins, BeginPlainJoin(p) \/ PlainJoinStep(p)
  PROVE  IInv'
<1>0. p \in Requests /\ {"count", "row", "update", "sync", "done"} \subseteq Steps
  BY DEF Requests, Steps
<1> USE DEF sessionVars, answerVars, localVars
<1>1. CASE BeginPlainJoin(p)
  <2>1. TypeOK' /\ UNCHANGED <<record, copy>>
    BY <1>0, <1>1 DEF IInv, TypeOK, BeginPlainJoin, Goto
  <2> QED BY <2>1, QuietStep
<1>2. CASE UpdateSession(p)
  <2>1. status' \in Statuses
    BY <1>2 DEF IInv, TypeOK, UpdateSession, Statuses
  <2>2. TypeOK' /\ UNCHANGED <<record, copy>>
    BY <1>0, <1>2, <2>1 DEF IInv, TypeOK, UpdateSession, NoteUnderway, Goto
  <2> QED BY <2>2, QuietStep
<1> QED BY <1>0, <1>1, <1>2, SharedStepsKeep DEF PlainJoinStep

LEMMA EndKeeps ==
  ASSUME IInv, NEW e \in Ends, BeginEnd(e) \/ EndStep(e)
  PROVE  IInv'
<1>0. e \in Requests /\ {"leave", "end", "sync", "done"} \subseteq Steps
  BY DEF Requests, Steps
<1> USE DEF sessionVars, answerVars, localVars
<1>1. CASE BeginEnd(e)
  <2>1. TypeOK' /\ UNCHANGED <<record, copy>>
    BY <1>0, <1>1 DEF IInv, TypeOK, BeginEnd, Goto
  <2> QED BY <2>1, QuietStep
<1>2. CASE PlayersLeave(e)
  <2>1. TypeOK' /\ UNCHANGED <<record, copy>>
    BY <1>0, <1>2 DEF IInv, TypeOK, PlayersLeave, Goto
  <2> QED BY <2>1, QuietStep
<1>3. CASE EndSession(e)
  <2>1. TypeOK' /\ UNCHANGED <<record, copy>>
    BY <1>0, <1>3 DEF IInv, TypeOK, EndSession, NoteUnderway, Goto, Statuses
  <2> QED BY <2>1, QuietStep
<1> QED BY <1>0, <1>1, <1>2, <1>3, SharedStepsKeep DEF EndStep

LEMMA FailKeeps ==
  ASSUME IInv, NEW h \in Requests, Fail(h)
  PROVE  IInv'
<1>1. crashes' \in 0..MaxCrashes
  BY LobbyAssumption DEF Fail, IInv, TypeOK
<1>2. TypeOK' /\ UNCHANGED <<record, copy>>
  BY <1>1 DEF Fail, IInv, TypeOK, Goto, Steps, sessionVars, answerVars, localVars
<1> QED BY <1>2, QuietStep

LEMMA NextConsistent == IInv /\ [Next]_vars => IInv'
<1> SUFFICES ASSUME IInv, [Next]_vars PROVE IInv'
  OBVIOUS
<1>1. CASE UNCHANGED vars
  <2>1. TypeOK' /\ UNCHANGED <<record, copy>>
    BY <1>1 DEF vars, sessionVars, answerVars, localVars, IInv, TypeOK
  <2> QED BY <2>1, QuietStep
<1>2. CASE Next
  BY <1>2, JoinKeeps, ReadyKeeps, TuneKeeps, PlainJoinKeeps, EndKeeps, FailKeeps DEF Next
<1> QED BY <1>1, <1>2

\* Every reachable state of a lobby is well typed, in both stores and whatever
\* requests overlap or fail (the handlers of games/index.ts).
THEOREM LobbyTypes == Spec => []TypeOK
<1>1. IInv => TypeOK
  BY DEF IInv
<1> QED BY InitConsistent, NextConsistent, <1>1, PTL DEF Spec

\* Ready users hold a faction and nobody holds two, in every interleaving of any
\* number of joins, ready marks and difficulty changes, with the shared object of
\* the in-memory store and with the stale copies of the Redis store.
THEOREM LobbyConsistent == Spec => []RecordConsistent
<1>1. IInv => RecordConsistent
  BY DEF IInv, RecordConsistent
<1> QED BY InitConsistent, NextConsistent, <1>1, PTL DEF Spec
-----------------------------------------------------------------------------
(* AnswersHold: with the shared object of the in-memory store nothing is     *)
(* ever computed on a stale record.                                          *)

LEMMA SeatedAnswers ==
  ASSUME IInv, AnswersHold, NEW j \in Joins,
         NEW f \in Grants(record, user[j], want[j]),
         record' = Seated(record, user[j], f),
         told' = [told EXCEPT ![user[j]] = f],
         acked' = acked \ {user[j]}
  PROVE  AnswersHold'
<1> DEFINE u == user[j]
<1>1. /\ u \in Users /\ want[j] \in Factions \cup {Unnamed} /\ record \in Records
      /\ told \in [Users -> Factions \cup {Unnamed}]
  BY DEF IInv, TypeOK, Requests
<1>2. f \in Factions /\ record.assign[f] \in {u, AI}
  BY <1>1 DEF Grants
<1>3. /\ record'.ready = record.ready \ {u}
      /\ \A g \in Factions : record'.assign[g] =
           IF g = f THEN u ELSE IF record.assign[g] = u THEN AI ELSE record.assign[g]
  BY <1>1 DEF Seated, Records
<1> HIDE DEF u
<1>4. ASSUME NEW v \in Users, told'[v] # Unnamed PROVE record'.assign[told'[v]] = v
  <2>1. CASE v = u
    <3>1. told'[v] = f
      BY <1>1, <2>1 DEF u
    <3> QED
      BY <1>2, <1>3, <2>1, <3>1
  <2>2. CASE v # u
    <3>1. told'[v] = told[v]
      BY <1>1, <2>2 DEF u
    <3>2. told[v] \in Factions /\ record.assign[told[v]] = v
      BY <1>1, <1>4, <3>1 DEF AnswersHold
    <3>3. told[v] # f
      BY <1>2, <2>2, <3>2, LobbyAssumption
    <3> QED
      BY <1>3, <2>2, <3>1, <3>2, <3>3
  <2> QED
    BY <2>1, <2>2
<1>5. acked' \subseteq record'.ready
  BY <1>3 DEF AnswersHold, u
<1> QED
  BY <1>4, <1>5 DEF AnswersHold

\* The steps that write the record, or what their users were answered.
LEMMA RecordSteps ==
  ASSUME [Next]_vars
  PROVE  \/ UNCHANGED <<record, told, acked>>
         \/ \E j \in Joins : TakeFaction(j)
         \/ \E r \in Readies : MarkReady(r)
         \/ \E t \in Tunes : SetDifficulty(t)
BY DEF Next, vars, answerVars, BeginJoin, JoinStep, GetRecord, CountPlayers, CreateRow,
   SyncLive, BeginReady, ReadyStep, CheckReady, StartMatch, Broadcast, BeginTune,
   TuneStep, BeginPlainJoin, PlainJoinStep, UpdateSession, BeginEnd, EndStep,
   PlayersLeave, EndSession, Fail

LEMMA AnswersStep ==
  ASSUME Store = "MEMORY", IInv, AnswersHold, [Next]_vars
  PROVE  AnswersHold'
<1>0. \A h : Object(h) = record
  BY DEF Object
<1>1. CASE UNCHANGED <<record, told, acked>>
  BY <1>1 DEF AnswersHold
<1>2. ASSUME NEW j \in Joins, TakeFaction(j) PROVE AnswersHold'
  <2>1. CASE \E f \in Grants(record, user[j], want[j]) :
               /\ record' = Seated(record, user[j], f)
               /\ told' = [told EXCEPT ![user[j]] = f]
               /\ acked' = acked \ {user[j]}
    BY <2>1, SeatedAnswers
  <2> QED
    BY <1>0, <1>1, <1>2, <2>1 DEF TakeFaction
<1>3. ASSUME NEW r \in Readies, MarkReady(r) PROVE AnswersHold'
  <2>1. CASE record' = [record EXCEPT !.ready = @ \cup {user[r]}]
             /\ acked' = acked \cup {user[r]} /\ told' = told
    <3>1. record'.assign = record.assign /\ record'.ready = record.ready \cup {user[r]}
      BY <2>1 DEF IInv, TypeOK, Records
    <3> QED
      BY <2>1, <3>1 DEF AnswersHold
  <2> QED
    BY <1>0, <1>1, <1>3, <2>1 DEF MarkReady
<1>4. ASSUME NEW t \in Tunes, SetDifficulty(t) PROVE AnswersHold'
  <2>1. record'.assign = record.assign /\ record'.ready = record.ready
    BY <1>0, <1>4 DEF SetDifficulty, IInv, TypeOK, Records
  <2> QED
    BY <1>4, <2>1 DEF AnswersHold, SetDifficulty, answerVars
<1> QED
  BY <1>1, <1>2, <1>3, <1>4, RecordSteps

\* With the in-memory store, and whatever requests overlap or fail, a user keeps the
\* faction and the ready mark that join and ready answered with, until a request of
\* the user's own changes them.
THEOREM LobbyAnswersHold ==
  ASSUME Store = "MEMORY"
  PROVE  Spec => []AnswersHold
<1>1. Init => AnswersHold
  BY LobbyAssumption DEF Init, AnswersHold
<1>2. IInv /\ AnswersHold /\ [Next]_vars => AnswersHold'
  BY AnswersStep
<1> QED
  BY <1>1, <1>2, InitConsistent, NextConsistent, PTL DEF Spec
-----------------------------------------------------------------------------
(* RosterFixed: who can still write the record of a match that was broadcast *)

\* Where a request still has its write of the record ahead of it.
Early == {"get", "count", "row", "take", "mark", "tune"}

\* Once the session has left its lobby, only requests that were under way then
\* still have a write ahead of them; and it has left it before any broadcast.
UnderwayInv ==
  /\ status # "LOBBY" => \A h \in Joins \cup Readies \cup Tunes : pc[h] \in Early => h \in underway
  /\ \A r \in Readies : pc[r] \in {"sync", "publish"} => status # "LOBBY"
  /\ \A r \in Readies : starts[r] # NoRoster => status # "LOBBY"

Step(h) ==
  \/ h \in Joins /\ (BeginJoin(h) \/ JoinStep(h))
  \/ h \in Readies /\ (BeginReady(h) \/ ReadyStep(h))
  \/ h \in Tunes /\ (BeginTune(h) \/ TuneStep(h))
  \/ h \in PlainJoins /\ (BeginPlainJoin(h) \/ PlainJoinStep(h))
  \/ h \in Ends /\ (BeginEnd(h) \/ EndStep(h))
  \/ Fail(h)

LEMMA NextIsStep == Next => \E h \in Requests : Step(h)
BY DEF Next, Step, Requests

\* A step moves its own request, and leaves it where it may go on writing only if it could write
\* before, or if it began in the lobby.
LEMMA StepMoves ==
  ASSUME TypeOK, NEW h \in Requests, Step(h)
  PROVE  /\ \A g \in Requests \ {h} : pc'[g] = pc[g]
         /\ h \in Joins \cup Readies \cup Tunes /\ pc'[h] \in Early
              => pc[h] \in Early \/ status = "LOBBY"
<1> USE DEF Goto, TypeOK, Early
<1>1. CASE h \in Joins /\ (BeginJoin(h) \/ JoinStep(h))
  <2>1. \E s : pc' = [pc EXCEPT ![h] = s] /\ (s \in Early => pc[h] \in Early \/ status = "LOBBY")
    BY <1>1 DEF BeginJoin, JoinStep, GetRecord, CountPlayers, CreateRow, TakeFaction, SyncLive
  <2> QED BY <2>1
<1>2. CASE h \in Readies /\ (BeginReady(h) \/ ReadyStep(h))
  <2>1. \E s : pc' = [pc EXCEPT ![h] = s] /\ (s \in Early => pc[h] \in Early \/ status = "LOBBY")
    BY <1>2 DEF BeginReady, ReadyStep, GetRecord, MarkReady, CheckReady, StartMatch, SyncLive, Broadcast
  <2> QED BY <2>1
<1>3. CASE h \in Tunes /\ (BeginTune(h) \/ TuneStep(h))
  <2>1. \E s : pc' = [pc EXCEPT ![h] = s] /\ (s \in Early => pc[h] \in Early \/ status = "LOBBY")
    BY <1>3 DEF BeginTune, TuneStep, GetRecord, SetDifficulty
  <2> QED BY <2>1
<1>4. CASE h \in PlainJoins /\ (BeginPlainJoin(h) \/ PlainJoinStep(h))
  <2>1. (\E s : pc' = [pc EXCEPT ![h] = s]) /\ h \notin Joins \cup Readies \cup Tunes
    BY <1>4, LobbyAssumption
       DEF BeginPlainJoin, PlainJoinStep, CountPlayers, CreateRow, UpdateSession, SyncLive
  <2> QED BY <2>1
<1>5. CASE h \in Ends /\ (BeginEnd(h) \/ EndStep(h))
  <2>1. (\E s : pc' = [pc EXCEPT ![h] = s]) /\ h \notin Joins \cup Readies \cup Tunes
    BY <1>5, LobbyAssumption DEF BeginEnd, EndStep, PlayersLeave, EndSession, SyncLive
  <2> QED BY <2>1
<1>6. CASE Fail(h)
  <2>1. pc' = [pc EXCEPT ![h] = "failed"]
    BY <1>6 DEF Fail
  <2> QED BY <2>1
<1> QED BY <1>1, <1>2, <1>3, <1>4, <1>5, <1>6 DEF Step

\* The session never goes back to its lobby, and the step that leaves it notes who is under way.
LEMMA LobbyIsLeft ==
  ASSUME TypeOK, NEW h \in Requests, Step(h)
  PROVE  /\ status # "LOBBY" => status' # "LOBBY" /\ underway' = underway
         /\ status = "LOBBY" /\ status' # "LOBBY" =>
              underway' = {g \in Requests : InProgress(g)} /\ pc'[h] = "sync"
<1>0. pc \in [Requests -> Steps]
  BY DEF TypeOK
<1>1. CASE StartMatch(h) \/ UpdateSession(h) \/ EndSession(h)
  <2>1. NoteUnderway /\ pc'[h] = "sync"
    BY <1>0, <1>1 DEF StartMatch, UpdateSession, EndSession, Goto
  <2>2. status # "LOBBY" => status' # "LOBBY"
    BY <1>1 DEF StartMatch, UpdateSession, EndSession
  <2> QED BY <2>1, <2>2 DEF NoteUnderway
<1>2. CASE ~(StartMatch(h) \/ UpdateSession(h) \/ EndSession(h))
  <2> USE DEF sessionVars
  <2>1. h \in Joins /\ (BeginJoin(h) \/ JoinStep(h)) => status' = status /\ underway' = underway
    BY DEF BeginJoin, JoinStep, GetRecord, CountPlayers, CreateRow, TakeFaction, SyncLive
  <2>2. h \in Readies /\ (BeginReady(h) \/ ReadyStep(h)) => status' = status /\ underway' = underway
    BY <1>2 DEF BeginReady, ReadyStep, GetRecord, MarkReady, CheckReady, SyncLive, Broadcast
  <2>3. h \in Tunes /\ (BeginTune(h) \/ TuneStep(h)) => status' = status /\ underway' = underway
    BY DEF BeginTune, TuneStep, GetRecord, SetDifficulty
  <2>4. h \in PlainJoins /\ (BeginPlainJoin(h) \/ PlainJoinStep(h)) => status' = status /\ underway' = underway
    BY <1>2 DEF BeginPlainJoin, PlainJoinStep, CountPlayers, CreateRow, SyncLive
  <2>5. h \in Ends /\ (BeginEnd(h) \/ EndStep(h)) => status' = status /\ underway' = underway
    BY <1>2 DEF BeginEnd, EndStep, PlayersLeave, SyncLive
  <2>6. Fail(h) => status' = status /\ underway' = underway
    BY DEF Fail
  <2> QED BY <2>1, <2>2, <2>3, <2>4, <2>5, <2>6 DEF Step
<1> QED BY <1>1, <1>2

\* A roster is broadcast by a request that has started the match.
LEMMA StartsStep ==
  ASSUME TypeOK, NEW h \in Requests, Step(h), NEW r \in Readies
  PROVE  /\ pc'[r] \in {"sync", "publish"} =>
              pc[r] \in {"sync", "publish"} \/ status' # "LOBBY"
         /\ starts'[r] # NoRoster => starts[r] # NoRoster \/ pc[r] = "publish"
<1> USE DEF Goto, TypeOK, Requests
<1>1. pc'[r] \in {"sync", "publish"} => pc[r] \in {"sync", "publish"} \/ status' # "LOBBY"
  <2>1. CASE h # r
    BY <2>1, StepMoves
  <2>2. CASE h = r
    <3>1. r \notin Joins \cup Tunes \cup PlainJoins \cup Ends
      BY LobbyAssumption
    <3>2. Fail(r) \/ BeginReady(r) \/ ReadyStep(r)
      BY <2>2, <3>1 DEF Step
    <3> QED BY <3>2 DEF Fail, BeginReady, ReadyStep, GetRecord, MarkReady, CheckReady, StartMatch,
                        SyncLive, Broadcast
  <2> QED BY <2>1, <2>2
<1>2. starts' = starts \/ (h \in Readies /\ Broadcast(h))
  BY DEF Step, answerVars, BeginJoin, BeginReady, BeginTune, BeginPlainJoin, BeginEnd,
     JoinStep, GetRecord, CountPlayers, CreateRow, SyncLive, TakeFaction, ReadyStep,
     MarkReady, CheckReady, StartMatch, TuneStep, SetDifficulty, PlainJoinStep, UpdateSession,
     EndStep, PlayersLeave, EndSession, Fail
<1>3. ASSUME h \in Readies, Broadcast(h) PROVE starts'[r] = starts[r] \/ pc[r] = "publish"
  BY <1>3 DEF Broadcast
<1> QED BY <1>1, <1>2, <1>3

LEMMA UnderwayStep == TypeOK /\ UnderwayInv /\ [Next]_vars => UnderwayInv'
<1> SUFFICES ASSUME TypeOK, UnderwayInv, [Next]_vars PROVE UnderwayInv'
  OBVIOUS
<1>1. CASE UNCHANGED vars
  BY <1>1 DEF vars, sessionVars, answerVars, UnderwayInv, Early
<1>2. ASSUME NEW h \in Requests, Step(h) PROVE UnderwayInv'
  <2>1. ASSUME status' # "LOBBY", NEW g \in Joins \cup Readies \cup Tunes, pc'[g] \in Early
        PROVE  g \in underway'
    <3>0. g \in Requests
      BY DEF Requests
    <3>1. CASE status = "LOBBY"
      <4>1. underway' = {k \in Requests : InProgress(k)} /\ pc'[h] = "sync"
        BY <1>2, <2>1, <3>1, LobbyIsLeft
      <4>2. g # h /\ pc'[g] = pc[g]
        BY <1>2, <2>1, <3>0, <4>1, StepMoves DEF Early
      <4> QED BY <2>1, <3>0, <4>1, <4>2 DEF InProgress, Early
    <3>2. CASE status # "LOBBY"
      <4>1. pc[g] \in Early
        BY <1>2, <2>1, <3>0, <3>2, StepMoves
      <4>2. underway' = underway
        BY <1>2, <3>2, LobbyIsLeft
      <4> QED BY <3>2, <4>1, <4>2 DEF UnderwayInv
    <3> QED BY <3>1, <3>2
  <2>2. ASSUME NEW r \in Readies, pc'[r] \in {"sync", "publish"} PROVE status' # "LOBBY"
    BY <1>2, <2>2, StartsStep, LobbyIsLeft DEF UnderwayInv
  <2>3. ASSUME NEW r \in Readies, starts'[r] # NoRoster PROVE status' # "LOBBY"
    BY <1>2, <2>3, StartsStep, LobbyIsLeft DEF UnderwayInv
  <2>4. /\ (status # "LOBBY")' => \A g \in Joins \cup Readies \cup Tunes : pc'[g] \in Early => g \in underway'
        /\ \A r \in Readies : pc'[r] \in {"sync", "publish"} => (status # "LOBBY")'
        /\ \A r \in Readies : (starts[r] # NoRoster)' => (status # "LOBBY")'
    <3>1. NoRoster' = NoRoster
      BY DEF NoRoster
    <3> QED BY <2>1, <2>2, <2>3, <3>1
  <2> QED BY <2>4 DEF UnderwayInv
<1> QED BY <1>1, <1>2, NextIsStep

RosterStays ==
  \A r \in Readies : starts[r] # NoRoster /\ record'.assign # record.assign =>
    \E h \in underway : InProgress(h) /\ pc'[h] # pc[h]

LEMMA RosterStep == TypeOK /\ UnderwayInv /\ [Next]_vars => RosterStays
<1> SUFFICES ASSUME TypeOK, UnderwayInv, [Next]_vars,
                    NEW r \in Readies, starts[r] # NoRoster, record'.assign # record.assign
             PROVE  \E h \in underway : InProgress(h) /\ pc'[h] # pc[h]
  BY DEF RosterStays
<1>0. status # "LOBBY"
  BY DEF UnderwayInv
<1>1. record' # record
  OBVIOUS
<1>2. PICK h \in Joins \cup Readies \cup Tunes :
        \/ h \in Joins /\ TakeFaction(h)
        \/ h \in Readies /\ MarkReady(h)
        \/ h \in Tunes /\ SetDifficulty(h)
  BY <1>1, RecordSteps
<1>3. pc[h] \in Early /\ pc'[h] # pc[h] /\ InProgress(h)
  BY <1>2 DEF TakeFaction, MarkReady, SetDifficulty, Goto, TypeOK, Requests, Early, InProgress
<1>4. h \in underway
  BY <1>0, <1>3 DEF UnderwayInv
<1> QED BY <1>3, <1>4

\* Once a match was broadcast, nobody changes who plays which faction but a request that was under
\* way when the session left its lobby: in both stores, for any requests that overlap or fail.
THEOREM RosterStaysFixed == Spec => RosterFixed
<1>1. Init => UnderwayInv
  BY DEF Init, UnderwayInv, Requests
<1>2. Spec => []TypeOK
  BY LobbyTypes
<1>3. [][RosterStays]_vars => RosterFixed
  BY PTL DEF RosterFixed, RosterStays
<1> QED
  BY <1>1, <1>2, <1>3, UnderwayStep, RosterStep, PTL DEF Spec
-----------------------------------------------------------------------------
(* ReadyStarts: what is left to happen until it does                         *)

\* A ready request that has seen, or is going to see, that all its players are ready.
Starting(r) == \/ pc[r] = "start"
               \/ pc[r] = "check" /\ humans[r] # {} /\ humans[r] \subseteq record.ready

\* As long as nobody fails: when every human is ready, some request is about to start the match.
StartIsDue ==
  crashes = 0 /\ Humans(record) \subseteq record.ready =>
    status # "LOBBY" \/ \E r \in Readies : Starting(r)

\* Between its mark and the start of the match a ready request is moved by its own steps only.
LEMMA ReadyMoves ==
  ASSUME TypeOK, [Next]_vars, NEW r \in Readies, pc[r] \in {"check", "start"}
  PROVE  \/ pc'[r] = pc[r] /\ humans'[r] = humans[r]
         \/ CheckReady(r) \/ StartMatch(r) \/ Fail(r)
<1> DEFINE Rests == pc'[r] = pc[r] /\ humans'[r] = humans[r]
<1> USE LobbyAssumption DEF TypeOK, Goto, localVars, Requests
<1>1. ASSUME NEW j \in Joins, BeginJoin(j) \/ JoinStep(j) PROVE Rests
  <2>1. j # r /\ UNCHANGED humans /\ \E s : pc' = [pc EXCEPT ![j] = s]
    BY <1>1 DEF BeginJoin, JoinStep, GetRecord, CountPlayers, CreateRow, TakeFaction, SyncLive
  <2> QED BY <2>1
<1>2. ASSUME NEW h \in Readies, h # r, BeginReady(h) \/ ReadyStep(h) PROVE Rests
  <2>1. /\ \E s : pc' = [pc EXCEPT ![h] = s]
        /\ humans' = humans \/ \E x : humans' = [humans EXCEPT ![h] = x]
    BY <1>2 DEF BeginReady, ReadyStep, GetRecord, MarkReady, CheckReady, StartMatch, SyncLive, Broadcast
  <2> QED BY <1>2, <2>1
<1>3. ASSUME BeginReady(r) \/ ReadyStep(r) PROVE CheckReady(r) \/ StartMatch(r)
  BY <1>3 DEF BeginReady, ReadyStep, GetRecord, MarkReady, SyncLive, Broadcast
<1>4. ASSUME NEW t \in Tunes, BeginTune(t) \/ TuneStep(t) PROVE Rests
  <2>1. t # r /\ UNCHANGED humans /\ \E s : pc' = [pc EXCEPT ![t] = s]
    BY <1>4 DEF BeginTune, TuneStep, GetRecord, SetDifficulty
  <2> QED BY <2>1
<1>5. ASSUME NEW p \in PlainJoins, BeginPlainJoin(p) \/ PlainJoinStep(p) PROVE Rests
  <2>1. p # r /\ UNCHANGED humans /\ \E s : pc' = [pc EXCEPT ![p] = s]
    BY <1>5 DEF BeginPlainJoin, PlainJoinStep, CountPlayers, CreateRow, UpdateSession, SyncLive
  <2> QED BY <2>1
<1>6. ASSUME NEW e \in Ends, BeginEnd(e) \/ EndStep(e) PROVE Rests
  <2>1. e # r /\ UNCHANGED humans /\ \E s : pc' = [pc EXCEPT ![e] = s]
    BY <1>6 DEF BeginEnd, EndStep, PlayersLeave, EndSession, SyncLive
  <2> QED BY <2>1
<1>7. ASSUME NEW h \in Requests, h # r, Fail(h) PROVE Rests
  BY <1>7 DEF Fail
<1>8. CASE UNCHANGED vars
  BY <1>8 DEF vars
<1> QED BY <1>1, <1>2, <1>3, <1>4, <1>5, <1>6, <1>7, <1>8 DEF Next

\* A session does not go back to its lobby.
LEMMA StatusGoesOn == [Next]_vars /\ status # "LOBBY" => status' # "LOBBY"
<1> SUFFICES ASSUME [Next]_vars, status # "LOBBY" PROVE status' # "LOBBY"
  OBVIOUS
<1> USE DEF sessionVars
<1>1. \/ status' = status
      \/ \E r \in Readies : StartMatch(r)
      \/ \E p \in PlainJoins : UpdateSession(p)
      \/ \E e \in Ends : EndSession(e)
  <2>1. ASSUME NEW j \in Joins, BeginJoin(j) \/ JoinStep(j) PROVE status' = status
    BY <2>1 DEF BeginJoin, JoinStep, GetRecord, CountPlayers, CreateRow, TakeFaction, SyncLive
  <2>2. ASSUME NEW r \in Readies, BeginReady(r) \/ ReadyStep(r) PROVE status' = status \/ StartMatch(r)
    BY <2>2 DEF BeginReady, ReadyStep, GetRecord, MarkReady, CheckReady, SyncLive, Broadcast
  <2>3. ASSUME NEW t \in Tunes, BeginTune(t) \/ TuneStep(t) PROVE status' = status
    BY <2>3 DEF BeginTune, TuneStep, GetRecord, SetDifficulty
  <2>4. ASSUME NEW p \in PlainJoins, BeginPlainJoin(p) \/ PlainJoinStep(p)
        PROVE  status' = status \/ UpdateSession(p)
    BY <2>4 DEF BeginPlainJoin, PlainJoinStep, CountPlayers, CreateRow, SyncLive
  <2>5. ASSUME NEW e \in Ends, BeginEnd(e) \/ EndStep(e) PROVE status' = status \/ EndSession(e)
    BY <2>5 DEF BeginEnd, EndStep, PlayersLeave, SyncLive
  <2>6. ASSUME NEW h \in Requests, Fail(h) PROVE status' = status
    BY <2>6 DEF Fail
  <2> QED BY <2>1, <2>2, <2>3, <2>4, <2>5, <2>6 DEF Next, vars
<1>2. ASSUME NEW p \in PlainJoins, UpdateSession(p) PROVE status' # "LOBBY"
  BY <1>2 DEF UpdateSession
<1>3. ASSUME NEW r \in Readies, StartMatch(r) PROVE status' # "LOBBY"
  BY <1>3 DEF StartMatch
<1>4. ASSUME NEW e \in Ends, EndSession(e) PROVE status' # "LOBBY"
  BY <1>4 DEF EndSession
<1> QED BY <1>1, <1>2, <1>3, <1>4

LEMMA StartGoesOn ==
  ASSUME Store = "MEMORY", TypeOK, [Next]_vars, crashes = 0, crashes' = 0,
         record.ready \subseteq record'.ready, NEW r \in Readies, Starting(r)
  PROVE  status' # "LOBBY" \/ Starting(r)'
<1>1. CASE pc'[r] = pc[r] /\ humans'[r] = humans[r]
  BY <1>1 DEF Starting
<1>2. CASE CheckReady(r)
  <2>1. AllReady(r) /\ pc' = [pc EXCEPT ![r] = "start"]
    BY <1>2 DEF CheckReady, Starting, AllReady, Object, Goto
  <2> QED BY <2>1 DEF TypeOK, Requests, Starting
<1>3. CASE StartMatch(r)
  BY <1>3 DEF StartMatch
<1>4. ~Fail(r)
  BY DEF Fail
<1> QED BY <1>1, <1>2, <1>3, <1>4, ReadyMoves DEF Starting

LEMMA StartStep ==
  ASSUME Store = "MEMORY", IInv, StartIsDue, [Next]_vars
  PROVE  StartIsDue'
<1> SUFFICES ASSUME crashes' = 0, Humans(record)' \subseteq record'.ready
             PROVE  status' # "LOBBY" \/ \E r \in Readies : Starting(r)'
  BY DEF StartIsDue
<1>0. TypeOK /\ record \in Records /\ \A h : Object(h) = record
  BY DEF IInv, TypeOK, Object
<1>1. crashes = 0
  <2>1. crashes' = crashes \/ crashes' = crashes + 1
    BY DEF Next, vars, BeginJoin, JoinStep, GetRecord, CountPlayers, CreateRow, TakeFaction,
       SyncLive, BeginReady, ReadyStep, MarkReady, CheckReady, StartMatch, Broadcast, BeginTune,
       TuneStep, SetDifficulty, BeginPlainJoin, PlainJoinStep, UpdateSession, BeginEnd, EndStep,
       PlayersLeave, EndSession, Fail
  <2>2. crashes \in Nat
    BY <1>0, LobbyAssumption DEF TypeOK
  <2> QED BY <2>1, <2>2
<1>2. ASSUME record'.assign = record.assign, record'.ready = record.ready
      PROVE  status' # "LOBBY" \/ \E r \in Readies : Starting(r)'
  <2>1. Humans(record) \subseteq record.ready
    BY <1>2 DEF Humans
  <2>2. status # "LOBBY" \/ \E r \in Readies : Starting(r)
    BY <1>1, <2>1 DEF StartIsDue
  <2>3. CASE status # "LOBBY"
    BY <2>3, StatusGoesOn
  <2>4. ASSUME NEW r \in Readies, Starting(r) PROVE status' # "LOBBY" \/ Starting(r)'
    <3>1. record.ready \subseteq record'.ready
      BY <1>2
    <3> QED BY <1>0, <1>1, <2>4, <3>1, StartGoesOn
  <2>5. CASE \E r \in Readies : Starting(r)
    <3>1. PICK r \in Readies : Starting(r)
      BY <2>5
    <3>2. status' # "LOBBY" \/ Starting(r)'
      BY <2>4, <3>1
    <3> QED BY <3>2
  <2> QED BY <2>2, <2>3, <2>5
<1>3. ASSUME NEW j \in Joins, TakeFaction(j), record' # record PROVE FALSE
  <2>1. PICK f \in Grants(record, user[j], want[j]) : record' = Seated(record, user[j], f)
    BY <1>0, <1>3 DEF TakeFaction
  <2>2. user[j] \in Users /\ want[j] \in Factions \cup {Unnamed}
    BY <1>0 DEF TypeOK, Requests
  <2>3. f \in Factions
    BY <2>1, <2>2 DEF Grants
  <2>4. record'.assign[f] = user[j] /\ record'.ready = record.ready \ {user[j]}
    BY <1>0, <2>1, <2>3 DEF Seated, Records
  <2> QED BY <2>2, <2>3, <2>4 DEF Humans
<1>4. ASSUME NEW r \in Readies, MarkReady(r), record' # record PROVE Starting(r)'
  <2> DEFINE rts == [record EXCEPT !.ready = @ \cup {user[r]}]
  <2>1. record' = rts /\ user[r] \in Humans(record) /\ humans' = [humans EXCEPT ![r] = Humans(rts)]
        /\ pc' = [pc EXCEPT ![r] = "check"]
    BY <1>0, <1>4 DEF MarkReady, Goto
  <2>2. record'.assign = record.assign
    BY <1>0, <2>1 DEF Records
  <2>3. Humans(rts) = Humans(record') /\ Humans(rts) = Humans(record)
    BY <2>1, <2>2 DEF Humans
  <2> HIDE DEF rts
  <2>4. humans'[r] = Humans(record') /\ humans'[r] # {} /\ pc'[r] = "check"
    BY <1>0, <2>1, <2>3 DEF TypeOK, Requests
  <2> QED BY <2>4 DEF Starting
<1>5. ASSUME NEW t \in Tunes, SetDifficulty(t) PROVE record'.assign = record.assign /\ record'.ready = record.ready
  BY <1>0, <1>5 DEF SetDifficulty, Records
<1> QED BY <1>2, <1>3, <1>4, <1>5, RecordSteps

\* With the in-memory store, and however the requests overlap: when every human is ready the match
\* has been started, or a ready request that has seen all of them is about to start it.
THEOREM LastReadyStarts == Store = "MEMORY" => (Spec => []StartIsDue)
<1> SUFFICES ASSUME Store = "MEMORY" PROVE Spec => []StartIsDue
  OBVIOUS
<1>1. Init => StartIsDue
  <2> SUFFICES ASSUME Init PROVE ~(Humans(record) \subseteq record.ready)
    BY DEF StartIsDue
  <2>1. record.assign[HostFaction] = Creator /\ record.ready = {}
    BY LobbyAssumption DEF Init
  <2>2. Creator \in Humans(record)
    BY <2>1, LobbyAssumption DEF Humans
  <2> QED BY <2>1, <2>2
<1>2. IInv /\ StartIsDue /\ [Next]_vars => StartIsDue'
  BY StartStep
<1>3. Spec => []IInv
  BY InitConsistent, NextConsistent, PTL DEF Spec
<1> QED BY <1>1, <1>2, <1>3, PTL DEF Spec

-----------------------------------------------------------------------------
(***************************************************************************)
(* The match in lockstep.                                                  *)
(***************************************************************************)
LEMMA Constants ==
  /\ Host \in Peers /\ InputDelay \in Nat /\ MaxTick \in Nat /\ MaxSteps \in Nat /\ MaxFaults \in Nat
  /\ Ticks = 0 .. MaxTick + InputDelay /\ HashTicks \subseteq 1 .. MaxTick
  BY LockstepAssumption DEF Ticks, HashTicks

LEMMA TickType ==
  ASSUME LockstepTypes, NEW p \in Peers
  PROVE  /\ match[p] \in Match /\ match[p] \in Seq(Seq(Commands))
         /\ Tick(p) = Len(match[p]) /\ Tick(p) \in 0 .. MaxTick
         /\ buffer[p] \in [Ticks -> Seq(Commands)]
         /\ hashes[p] \in [HashTicks -> SUBSET Match] /\ pending[p] \in [HashTicks -> SUBSET Match]
         /\ inbox[p] \in Seq(Message)
  BY Constants DEF LockstepTypes, Match, Tick

\* What a message holds.
LEMMA MessageFields ==
  ASSUME NEW m \in Message
  PROVE  /\ m.type \in {"RTS_MATCH_START", "RTS_COMMAND", "RTS_STATE_HASH", "RTS_SNAPSHOT"}
         /\ m.type = "RTS_MATCH_START" => m = StartMsg
         /\ m.type = "RTS_COMMAND" => m.tick \in Ticks /\ m.command \in Commands
         /\ m.type = "RTS_STATE_HASH" => m.tick \in HashTicks /\ m.hash \in Match
         /\ m.type = "RTS_SNAPSHOT" => m.state \in Match
  BY DEF Message, StartMsg

LEMMA MessageKinds ==
  /\ \A tick \in Ticks, c \in Commands :
       CommandMsg(tick, c) \in Message /\ CommandMsg(tick, c).type = "RTS_COMMAND"
  /\ \A tick \in HashTicks, h \in Match :
       HashMsg(tick, h) \in Message /\ HashMsg(tick, h).type = "RTS_STATE_HASH"
  /\ \A s \in Match : SnapshotMsg(s) \in Message /\ SnapshotMsg(s).type = "RTS_SNAPSHOT"
  BY DEF Message, CommandMsg, HashMsg, SnapshotMsg

\* s is the state at the end of a frame of n ticks.
Frame(p, n, s) == s = match[p] \o Taken(p, n) /\ Tick(p) + n <= MaxTick

\* A frame adds what the buffer holds for its ticks.
LEMMA FrameTakes ==
  ASSUME LockstepTypes, NEW p \in Peers, NEW n \in 1 .. MaxSteps, NEW s, Frame(p, n, s)
  PROVE  /\ s \in Match /\ Len(s) = Tick(p) + n
         /\ \A i \in 1 .. Tick(p) : s[i] = match[p][i]
         /\ \A k \in Int : Tick(p) < k /\ k <= Tick(p) + n => s[k] = buffer[p][k - 1]
<1>0. n \in Nat /\ n >= 1 /\ MaxTick \in Nat
  BY Constants
<1>1. match[p] \in Seq(Seq(Commands)) /\ Tick(p) \in Nat /\ Tick(p) = Len(match[p])
  BY TickType, Constants
<1> DEFINE Ith(i) == buffer[p][Tick(p) + i - 1]
<1>2. Taken(p, n) = [i \in 1 .. n |-> Ith(i)]
  BY DEF Taken
<1>3. ASSUME NEW i \in 1 .. n PROVE Ith(i) \in Seq(Commands)
  <2>1. Tick(p) + i - 1 \in Ticks
    BY <1>0, <1>1, Constants DEF Frame
  <2> QED BY <2>1, TickType
<1> HIDE DEF Ith
<1>4. Taken(p, n) \in Seq(Seq(Commands))
  BY <1>0, <1>2, <1>3, IsASeq
<1>5. Len(Taken(p, n)) = n /\ \A i \in 1 .. n : Taken(p, n)[i] = Ith(i)
  BY <1>0, <1>2, <1>4, LenProperties
<1>6. /\ Len(s) = Tick(p) + n
      /\ \A i \in 1 .. Tick(p) + n :
           s[i] = IF i <= Tick(p) THEN match[p][i] ELSE Taken(p, n)[i - Tick(p)]
  <2>1. Len(s) = Len(match[p]) + Len(Taken(p, n))
    BY <1>1, <1>4, ConcatProperties DEF Frame
  <2>2. \A i \in 1 .. Len(match[p]) + Len(Taken(p, n)) :
          s[i] = IF i <= Len(match[p]) THEN match[p][i] ELSE Taken(p, n)[i - Len(match[p])]
    BY <1>1, <1>4, ConcatProperties DEF Frame
  <2> QED BY <1>1, <1>5, <2>1, <2>2
<1>7. s \in Seq(Seq(Commands))
  BY <1>1, <1>4, ConcatProperties DEF Frame
<1>8. \A i \in 1 .. Tick(p) : s[i] = match[p][i]
  BY <1>0, <1>1, <1>6
<1>9. ASSUME NEW k \in Int, Tick(p) < k, k <= Tick(p) + n PROVE s[k] = buffer[p][k - 1]
  <2>1. k \in 1 .. Tick(p) + n /\ ~(k <= Tick(p)) /\ k - Tick(p) \in 1 .. n /\ Tick(p) + (k - Tick(p)) - 1 = k - 1
    BY <1>0, <1>1, <1>9
  <2>2. s[k] = Taken(p, n)[k - Tick(p)]
    BY <1>6, <2>1
  <2>3. Taken(p, n)[k - Tick(p)] = Ith(k - Tick(p))
    BY <1>5, <2>1
  <2>4. Ith(k - Tick(p)) = buffer[p][k - 1]
    BY <2>1 DEF Ith
  <2> QED BY <2>2, <2>3, <2>4
<1> QED BY <1>6, <1>7, <1>8, <1>9 DEF Frame, Match
-----------------------------------------------------------------------------
LEMMA ScheduleTypes ==
  ASSUME LockstepTypes, NEW p \in Peers, NEW tick \in Ticks, NEW c \in Commands, Schedule(p, tick, c)
  PROVE  /\ buffer' \in [Peers -> [Ticks -> Seq(Commands)]]
         /\ LaterOf(tick, Tick(p)) \in Ticks
         /\ \A q \in Peers : q # p => buffer'[q] = buffer[q]
         /\ buffer'[p] = [buffer[p] EXCEPT ![LaterOf(tick, Tick(p))] = Append(@, c)]
<1> DEFINE T == LaterOf(tick, Tick(p))
<1>1. T \in Ticks
  BY TickType, Constants DEF LaterOf
<1>2. buffer[p] \in [Ticks -> Seq(Commands)]
  BY TickType
<1>3. Append(buffer[p][T], c) \in Seq(Commands)
  BY <1>1, <1>2, AppendProperties
<1>4. buffer' = [buffer EXCEPT ![p][T] = Append(@, c)]
  BY DEF Schedule
<1> HIDE DEF T
<1>5. buffer' = [buffer EXCEPT ![p] = [buffer[p] EXCEPT ![T] = Append(buffer[p][T], c)]]
  BY <1>4
<1> QED BY <1>1, <1>2, <1>3, <1>5 DEF LockstepTypes, T

LEMMA ScheduleAppends ==
  ASSUME LockstepTypes, NEW p \in Peers, NEW tick \in Ticks, NEW c \in Commands, Schedule(p, tick, c),
         NEW T, T = LaterOf(tick, Tick(p))
  PROVE  /\ T \in Ticks /\ buffer'[p][T] = Append(buffer[p][T], c)
         /\ \A t \in Ticks : t # T => buffer'[p][t] = buffer[p][t]
<1>1. buffer'[p] = [buffer[p] EXCEPT ![T] = Append(@, c)] /\ T \in Ticks
  BY ScheduleTypes
<1>2. buffer[p] \in [Ticks -> Seq(Commands)]
  BY TickType
<1> QED BY <1>1, <1>2

LEMMA InitLockstep == LockstepInit => LockstepTypes
<1> SUFFICES ASSUME LockstepInit PROVE LockstepTypes
  OBVIOUS
<1>1. <<>> \in Match /\ <<>> \in Seq(Commands)
  BY Constants DEF Match
<1>2. inbox \in [Peers -> Seq(Message)]
  BY DEF LockstepInit, Message
<1> QED BY <1>1, <1>2, Constants DEF LockstepInit, LockstepTypes

\* What is on its way after a peer's frame: what was, and what the frame publishes.
LEMMA PublishAdds ==
  ASSUME NEW p \in Peers, NEW msgs \in SUBSET Message, Publish(p, msgs)
  PROVE  /\ relay \subseteq relay'
         /\ connected[p] => \A m \in msgs : [from |-> p, msg |-> m] \in relay'
         /\ \A r \in relay' : r \in relay \/ (r.from = p /\ r.msg \in msgs /\ r = [from |-> p, msg |-> r.msg])
         /\ relay \subseteq [from : Peers, msg : Message] => relay' \subseteq [from : Peers, msg : Message]
  BY DEF Publish

LEMMA ReportTypes ==
  ASSUME NEW p \in Peers, NEW s \in Match, Len(s) \in Nat
  PROVE  /\ Reports(p, s) \subseteq Message
         /\ \A m \in Reports(p, s) :
              \/ Len(s) \in HashTicks /\ m = HashMsg(Len(s), s)
              \/ p = Host /\ m = SnapshotMsg(s)
  BY MessageKinds DEF Reports

\* A message is taken from the front of an inbox.
LEMMA InboxShift ==
  ASSUME LockstepTypes, NEW p \in Peers, inbox[p] # <<>>, inbox' = [inbox EXCEPT ![p] = Tail(@)]
  PROVE  /\ inbox' \in [Peers -> Seq(Message)]
         /\ \A q \in Peers : q # p => inbox'[q] = inbox[q]
         /\ Head(inbox[p]) \in Message /\ Head(inbox[p]) = inbox[p][1] /\ 1 \in DOMAIN inbox[p]
         /\ DOMAIN inbox[p] = 1 .. Len(inbox[p]) /\ Len(inbox[p]) \in Nat \ {0}
         /\ DOMAIN inbox'[p] = 1 .. Len(inbox[p]) - 1
         /\ \A i \in DOMAIN inbox'[p] : i + 1 \in DOMAIN inbox[p] /\ inbox'[p][i] = inbox[p][i + 1]
<1>1. inbox[p] \in Seq(Message)
  BY TickType
<1>2. /\ Head(inbox[p]) \in Message
      /\ Tail(inbox[p]) \in Seq(Message) /\ Len(Tail(inbox[p])) = Len(inbox[p]) - 1
      /\ \A i \in 1 .. Len(Tail(inbox[p])) : Tail(inbox[p])[i] = inbox[p][i + 1]
  BY <1>1, HeadTailProperties
<1>3. DOMAIN inbox[p] = 1 .. Len(inbox[p]) /\ Len(inbox[p]) \in Nat \ {0}
  BY <1>1, LenProperties, EmptySeq
<1>4. DOMAIN Tail(inbox[p]) = 1 .. Len(inbox[p]) - 1
  BY <1>2, LenProperties
<1>5. inbox'[p] = Tail(inbox[p]) /\ inbox' \in [Peers -> Seq(Message)]
      /\ \A q \in Peers : q # p => inbox'[q] = inbox[q]
  BY <1>2 DEF LockstepTypes
<1>6. Head(inbox[p]) = inbox[p][1]
  BY <1>1
<1> QED BY <1>2, <1>3, <1>4, <1>5, <1>6

\* A message is put at the end of an inbox.
LEMMA InboxGrows ==
  ASSUME LockstepTypes, NEW r \in relay, Relay(r)
  PROVE  /\ inbox' \in [Peers -> Seq(Message)]
         /\ r.from \in Peers /\ r.msg \in Message
         /\ \A q \in Peers :
              /\ DOMAIN inbox[q] = 1 .. Len(inbox[q]) /\ Len(inbox[q]) \in Nat
              /\ q # r.from /\ connected[q] =>
                   /\ DOMAIN inbox'[q] = 1 .. Len(inbox[q]) + 1
                   /\ \A i \in DOMAIN inbox[q] : inbox'[q][i] = inbox[q][i]
                   /\ inbox'[q][Len(inbox[q]) + 1] = r.msg
              /\ ~(q # r.from /\ connected[q]) => inbox'[q] = inbox[q]
<1>1. r.from \in Peers /\ r.msg \in Message
  BY DEF LockstepTypes
<1>2. ASSUME NEW q \in Peers
      PROVE  /\ DOMAIN inbox[q] = 1 .. Len(inbox[q]) /\ Len(inbox[q]) \in Nat
             /\ Append(inbox[q], r.msg) \in Seq(Message)
             /\ DOMAIN Append(inbox[q], r.msg) = 1 .. Len(inbox[q]) + 1
             /\ \A i \in DOMAIN inbox[q] : Append(inbox[q], r.msg)[i] = inbox[q][i]
             /\ Append(inbox[q], r.msg)[Len(inbox[q]) + 1] = r.msg
  <2>1. inbox[q] \in Seq(Message)
    BY TickType
  <2>2. DOMAIN inbox[q] = 1 .. Len(inbox[q]) /\ Len(inbox[q]) \in Nat
    BY <2>1, LenProperties
  <2>3. Append(inbox[q], r.msg) \in Seq(Message) /\ Len(Append(inbox[q], r.msg)) = Len(inbox[q]) + 1
    BY <1>1, <2>1, AppendProperties
  <2>4. DOMAIN Append(inbox[q], r.msg) = 1 .. Len(inbox[q]) + 1
    BY <2>3, LenProperties
  <2> QED BY <1>1, <2>1, <2>2, <2>3, <2>4, AppendProperties
<1>3. inbox' = [q \in Peers |-> IF q # r.from /\ connected[q] THEN Append(inbox[q], r.msg) ELSE inbox[q]]
  BY DEF Relay, Audience
<1>4. inbox' \in [Peers -> Seq(Message)]
  BY <1>2, <1>3, TickType
<1> QED BY <1>1, <1>2, <1>3, <1>4
-----------------------------------------------------------------------------
(* Type correctness *)

LEMMA IssueTypes ==
  ASSUME LockstepTypes, NEW p \in Peers, NEW c \in Commands, IssueCommand(p, c)
  PROVE  LockstepTypes'
<1> DEFINE tick == Tick(p) + InputDelay
<1>1. tick \in Ticks
  BY TickType, Constants
<1>2. buffer' \in [Peers -> [Ticks -> Seq(Commands)]]
  BY <1>1, ScheduleTypes DEF IssueCommand
<1>3. {CommandMsg(tick, c)} \subseteq Message /\ Publish(p, {CommandMsg(tick, c)})
  BY <1>1, MessageKinds DEF IssueCommand
<1>4. relay' \subseteq [from : Peers, msg : Message]
  BY <1>3, PublishAdds DEF LockstepTypes
<1>5. target' \in [Commands -> Ticks \cup {NotIssued}]
  BY <1>1 DEF IssueCommand, LockstepTypes
<1> QED BY <1>2, <1>4, <1>5 DEF IssueCommand, LockstepTypes

\* The history with the hash of one more tick: others stay, and any may have gone.
LEMMA RememberedHashes ==
  ASSUME NEW known, NEW t, NEW h, NEW k \in HashTicks
  PROVE  \/ Remembered(known, t, h)[k] = {}
         \/ k = t /\ Remembered(known, t, h)[k] = {h}
         \/ k # t /\ Remembered(known, t, h)[k] = known[k]
<1> DEFINE ticks  == {i \in HashTicks : i = t \/ known[i] # {}}
           oldest == {i \in ticks : Cardinality(ticks) > HashLimit /\ \A j \in ticks : i <= j}
<1>1. Remembered(known, t, h) = [i \in HashTicks |-> IF i \in oldest THEN {} ELSE IF i = t THEN {h} ELSE known[i]]
  BY DEF Remembered
<1> HIDE DEF oldest
<1> QED BY <1>1

LEMMA RememberedTypes ==
  ASSUME LockstepTypes, NEW p \in Peers, NEW t, NEW h \in Match
  PROVE  Remembered(hashes[p], t, h) \in [HashTicks -> SUBSET Match]
<1> DEFINE new == Remembered(hashes[p], t, h)
<1>1. new = [k \in HashTicks |-> new[k]]
  BY DEF Remembered
<1>2. ASSUME NEW k \in HashTicks PROVE new[k] \in SUBSET Match
  <2>1. {} \in SUBSET Match /\ {h} \in SUBSET Match /\ hashes[p][k] \in SUBSET Match
    BY DEF LockstepTypes
  <2> QED BY <2>1, RememberedHashes
<1> HIDE DEF new
<1>3. new \in [HashTicks -> SUBSET Match]
  BY <1>1, <1>2
<1> QED BY <1>3 DEF new

LEMMA AdvanceTypes ==
  ASSUME LockstepTypes, NEW p \in Peers, NEW n \in 1 .. MaxSteps, Advance(p, n)
  PROVE  LockstepTypes'
<1> DEFINE s == match[p] \o Taken(p, n)
<1>1. s \in Match /\ Len(s) \in Nat
  <2>1. Frame(p, n, s)
    BY DEF Advance, Frame
  <2>2. s \in Match /\ Len(s) = Tick(p) + n
    BY <2>1, FrameTakes
  <2> QED BY <2>2, TickType, Constants
<1>2. match' \in [Peers -> Match]
  BY <1>1 DEF Advance, LockstepTypes
<1>3. buffer' \in [Peers -> [Ticks -> Seq(Commands)]]
  <2>1. Untaken(p, n) \in [Ticks -> Seq(Commands)]
    BY TickType DEF Untaken
  <2> QED BY <2>1 DEF Advance, LockstepTypes
<1>4. hashes' \in [Peers -> [HashTicks -> SUBSET Match]] /\ pending' \in [Peers -> [HashTicks -> SUBSET Match]]
  <2> HIDE DEF s
  <2>1. CASE Len(s) \in HashTicks
    <3> DEFINE h == Remembered(hashes[p], Len(s), s)
    <3>1. hashes' = [hashes EXCEPT ![p] = h] /\ pending' = [pending EXCEPT ![p][Len(s)] = {}]
      BY <2>1 DEF Advance, s
    <3>2. h \in [HashTicks -> SUBSET Match]
      BY <1>1, RememberedTypes
    <3> HIDE DEF h
    <3> QED BY <2>1, <3>1, <3>2 DEF LockstepTypes
  <2>2. CASE Len(s) \notin HashTicks
    <3>1. UNCHANGED <<hashes, pending>>
      BY <2>2 DEF Advance, s
    <3> QED BY <3>1 DEF LockstepTypes
  <2> QED BY <2>1, <2>2
<1>5. desynced' \in [Peers -> BOOLEAN]
  <2>1. CASE desynced' = desynced
    BY <2>1 DEF LockstepTypes
  <2>2. CASE desynced' = [desynced EXCEPT ![p] = @ \/ Differs(pending[p][Len(s)], s)]
    <3>1. \A b : (desynced[p] \/ b) \in BOOLEAN
      OBVIOUS
    <3> QED BY <2>2, <3>1 DEF LockstepTypes
  <2> QED BY <2>1, <2>2 DEF Advance
<1>6. relay' \subseteq [from : Peers, msg : Message]
  <2>1. Publish(p, Reports(p, s)) /\ Reports(p, s) \subseteq Message
    BY <1>1, ReportTypes DEF Advance
  <2> QED BY <2>1, PublishAdds DEF LockstepTypes
<1> QED BY <1>2, <1>3, <1>4, <1>5, <1>6 DEF Advance, LockstepTypes, history

LEMMA ReceiveStartTypes ==
  ASSUME LockstepTypes, NEW p \in Peers, ReceiveStart(p)
  PROVE  /\ playing' \in [Peers -> BOOLEAN] /\ match' \in [Peers -> Match]
         /\ buffer' \in [Peers -> [Ticks -> Seq(Commands)]]
         /\ hashes' \in [Peers -> [HashTicks -> SUBSET Match]]
         /\ pending' \in [Peers -> [HashTicks -> SUBSET Match]]
         /\ desynced' \in [Peers -> BOOLEAN]
<1>1. <<>> \in Match /\ <<>> \in Seq(Commands)
  BY Constants DEF Match
<1> QED BY <1>1 DEF ReceiveStart, LockstepTypes

LEMMA ReceiveHashTypes ==
  ASSUME LockstepTypes, NEW p \in Peers, NEW m \in Message, m.type = "RTS_STATE_HASH", ReceiveHash(p, m)
  PROVE  /\ pending' \in [Peers -> [HashTicks -> SUBSET Match]]
         /\ desynced' \in [Peers -> BOOLEAN]
<1>1. m.tick \in HashTicks /\ m.hash \in Match
  BY MessageFields
<1>2. pending' \in [Peers -> [HashTicks -> SUBSET Match]]
  <2>1. pending' = pending \/ pending' = [pending EXCEPT ![p][m.tick] = {m.hash}]
    BY DEF ReceiveHash
  <2>2. [pending[p] EXCEPT ![m.tick] = {m.hash}] \in [HashTicks -> SUBSET Match]
    BY <1>1, TickType
  <2>3. [pending EXCEPT ![p][m.tick] = {m.hash}] = [pending EXCEPT ![p] = [pending[p] EXCEPT ![m.tick] = {m.hash}]]
    OBVIOUS
  <2> QED BY <2>1, <2>2, <2>3 DEF LockstepTypes
<1>3. desynced' \in [Peers -> BOOLEAN]
  <2>1. CASE desynced' = desynced
    BY <2>1 DEF LockstepTypes
  <2>2. CASE desynced' = [desynced EXCEPT ![p] = @ \/ Differs(hashes[p][m.tick], m.hash)]
    <3>1. \A b : (desynced[p] \/ b) \in BOOLEAN
      OBVIOUS
    <3> QED BY <2>2, <3>1 DEF LockstepTypes
  <2> QED BY <2>1, <2>2 DEF ReceiveHash
<1> QED BY <1>2, <1>3

LEMMA ReceiveSnapshotTypes ==
  ASSUME LockstepTypes, NEW p \in Peers, NEW m \in Message, m.type = "RTS_SNAPSHOT", ReceiveSnapshot(p, m)
  PROVE  /\ playing' \in [Peers -> BOOLEAN] /\ match' \in [Peers -> Match]
         /\ buffer' \in [Peers -> [Ticks -> Seq(Commands)]]
         /\ desynced' \in [Peers -> BOOLEAN] /\ rewound' \subseteq Peers
         /\ buffer'[p] = [t \in Ticks |-> IF t > Len(m.state) THEN buffer[p][t] ELSE <<>>]
         /\ \A q \in Peers : q # p => buffer'[q] = buffer[q]
<1>1. m.state \in Match
  BY MessageFields
<1> DEFINE b == [t \in Ticks |-> IF t > Len(m.state) THEN buffer[p][t] ELSE <<>>]
<1>2. b \in [Ticks -> Seq(Commands)]
  BY TickType
<1>3. buffer' = [buffer EXCEPT ![p] = b]
  BY DEF ReceiveSnapshot, LockstepTypes
<1> QED BY <1>1, <1>2, <1>3 DEF ReceiveSnapshot, LockstepTypes

LEMMA ReceiveTypes ==
  ASSUME LockstepTypes, NEW p \in Peers, Receive(p)
  PROVE  LockstepTypes'
<1> DEFINE m == Head(inbox[p])
<1>1. inbox' \in [Peers -> Seq(Message)] /\ m \in Message
  BY InboxShift DEF Receive
<1>2. UNCHANGED <<connected, relay, faults>>
  BY DEF Receive
<1> HIDE DEF m
<1>3. CASE m.type = "RTS_MATCH_START" /\ ReceiveStart(p)
  <2>1. UNCHANGED <<target, late, rewound>>
    BY <1>3 DEF ReceiveStart, history
  <2> QED BY <1>1, <1>2, <1>3, <2>1, ReceiveStartTypes DEF LockstepTypes
<1>4. CASE m.type = "RTS_COMMAND" /\ ReceiveCommand(p, m)
  <2>1. m.tick \in Ticks /\ m.command \in Commands
    BY <1>1, <1>4, MessageFields
  <2>2. buffer' \in [Peers -> [Ticks -> Seq(Commands)]]
    <3>1. Schedule(p, m.tick, m.command) \/ buffer' = buffer
      BY <1>4 DEF ReceiveCommand
    <3> QED BY <2>1, <3>1, ScheduleTypes DEF LockstepTypes
  <2>3. late' \subseteq Peers \X Commands
    BY <1>4, <2>1 DEF ReceiveCommand, LockstepTypes
  <2>4. UNCHANGED <<playing, match, hashes, pending, desynced, target, rewound>>
    BY <1>4 DEF ReceiveCommand
  <2> QED BY <1>1, <1>2, <2>2, <2>3, <2>4 DEF LockstepTypes
<1>5. CASE m.type = "RTS_STATE_HASH" /\ ReceiveHash(p, m)
  <2>1. UNCHANGED <<playing, match, buffer, hashes, target, late, rewound>>
    BY <1>5 DEF ReceiveHash, history
  <2> QED BY <1>1, <1>2, <1>5, <2>1, ReceiveHashTypes DEF LockstepTypes
<1>6. CASE m.type = "RTS_SNAPSHOT" /\ ReceiveSnapshot(p, m)
  <2>1. UNCHANGED <<hashes, pending, target, late>>
    BY <1>6 DEF ReceiveSnapshot
  <2>2. /\ playing' \in [Peers -> BOOLEAN] /\ match' \in [Peers -> Match]
        /\ buffer' \in [Peers -> [Ticks -> Seq(Commands)]]
        /\ desynced' \in [Peers -> BOOLEAN] /\ rewound' \subseteq Peers
    BY <1>1, <1>6, ReceiveSnapshotTypes
  <2> QED BY <1>1, <1>2, <2>1, <2>2 DEF LockstepTypes
<1> QED BY <1>3, <1>4, <1>5, <1>6 DEF Receive, m

LEMMA NetworkTypes ==
  ASSUME LockstepTypes
  PROVE  /\ \A r \in relay : Relay(r) \/ Drop(r) => LockstepTypes'
         /\ \A p \in Peers : Disconnect(p) \/ Reconnect(p) => LockstepTypes'
<1>1. ASSUME NEW r \in relay, Relay(r) PROVE LockstepTypes'
  <2>1. inbox' \in [Peers -> Seq(Message)]
    BY <1>1, InboxGrows
  <2> QED BY <1>1, <2>1 DEF Relay, LockstepTypes, storeVars, history
<1>2. ASSUME NEW r \in relay, Drop(r) PROVE LockstepTypes'
  BY <1>2, Constants DEF Drop, LockstepTypes, storeVars, history
<1>3. ASSUME NEW p \in Peers, Disconnect(p) PROVE LockstepTypes'
  BY <1>3, Constants DEF Disconnect, LockstepTypes, storeVars, history
<1>4. ASSUME NEW p \in Peers, Reconnect(p) PROVE LockstepTypes'
  BY <1>4 DEF Reconnect, LockstepTypes, storeVars, history
<1> QED BY <1>1, <1>2, <1>3, <1>4

LEMMA StepTypes ==
  ASSUME LockstepTypes, [LockstepNext]_lockstepVars
  PROVE  LockstepTypes'
<1>1. CASE UNCHANGED lockstepVars
  BY <1>1 DEF LockstepTypes, lockstepVars, storeVars, netVars, history
<1>2. CASE LockstepNext
  BY <1>2, IssueTypes, AdvanceTypes, ReceiveTypes, NetworkTypes DEF LockstepNext
<1> QED BY <1>1, <1>2
-----------------------------------------------------------------------------
(* Prefixes *)

LEMMA PrefixMeans ==
  ASSUME NEW S, NEW s \in Seq(S), NEW t \in Seq(S)
  PROVE  IsPrefix(s, t) <=> Len(s) <= Len(t) /\ \A i \in 1 .. Len(s) : s[i] = t[i]
<1>1. Len(s) \in Nat /\ Len(t) \in Nat
  BY LenProperties
<1>2. SubSeq(s, 1, Len(s)) = s
  BY SubSeqFull
<1>3. ASSUME Len(s) <= Len(t)
      PROVE  /\ SubSeq(t, 1, Len(s)) \in Seq(S) /\ Len(SubSeq(t, 1, Len(s))) = Len(s)
             /\ \A i \in 1 .. Len(s) : SubSeq(t, 1, Len(s))[i] = t[i]
  <2>1. \A i \in 1 .. Len(s) : t[i] \in S
    BY <1>1, <1>3, ElementOfSeq
  <2>2. /\ SubSeq(t, 1, Len(s)) \in Seq(S)
        /\ Len(SubSeq(t, 1, Len(s))) = IF 1 <= Len(s) THEN Len(s) - 1 + 1 ELSE 0
        /\ \A i \in 1 .. Len(s) - 1 + 1 : SubSeq(t, 1, Len(s))[i] = t[1 + i - 1]
    BY <1>1, <2>1, SubSeqProperties
  <2> QED BY <1>1, <2>2
<1>4. ASSUME Len(s) <= Len(t), \A i \in 1 .. Len(s) : s[i] = t[i]
      PROVE  s = SubSeq(t, 1, Len(s))
  BY <1>3, <1>4, SeqEqual
<1> QED BY <1>1, <1>2, <1>3, <1>4 DEF IsPrefix

LEMMA PrefixGrows ==
  ASSUME NEW S, NEW s \in Seq(S), NEW t \in Seq(S), NEW u \in Seq(S), IsPrefix(s, t),
         Len(t) <= Len(u), \A i \in 1 .. Len(t) : u[i] = t[i]
  PROVE  IsPrefix(s, u)
<1>1. Len(s) \in Nat /\ Len(t) \in Nat /\ Len(u) \in Nat
  BY LenProperties
<1>2. Len(s) <= Len(t) /\ \A i \in 1 .. Len(s) : s[i] = t[i]
  BY PrefixMeans
<1>3. Len(s) <= Len(u) /\ \A i \in 1 .. Len(s) : s[i] = u[i]
  BY <1>1, <1>2
<1> QED BY <1>3, PrefixMeans

\* Two states of one tick, each a prefix of a match: if they differ, so do the matches up to it.
LEMMA PrefixesDiffer ==
  ASSUME NEW S, NEW g \in Seq(S), NEW h \in Seq(S), NEW s \in Seq(S), NEW t \in Seq(S),
         IsPrefix(g, s), IsPrefix(h, t), Len(g) = Len(h), g # h
  PROVE  Len(g) <= Len(s) /\ Len(g) <= Len(t) /\ SubSeq(s, 1, Len(g)) # SubSeq(t, 1, Len(g))
<1>1. SubSeq(g, 1, Len(g)) = g /\ SubSeq(h, 1, Len(h)) = h
  BY SubSeqFull
<1> QED BY <1>1 DEF IsPrefix
-----------------------------------------------------------------------------
(* The inductive invariant: messages, matches and hashes *)

\* RTS_MATCH_START comes first, and to a peer that has done nothing yet.
StartsOnce ==
  /\ \A r \in relay : r.msg.type # "RTS_MATCH_START"
  /\ \A p \in Peers : \A i \in DOMAIN inbox[p] :
       inbox[p][i].type = "RTS_MATCH_START" => i = 1 /\ ~playing[p]
  /\ \A p \in Peers : ~playing[p] =>
       /\ match[p] = <<>>
       /\ ~desynced[p]
       /\ \A t \in Ticks : buffer[p][t] = <<>>
       /\ \A t \in HashTicks : hashes[p][t] = {}

\* Snapshots come from the host, so its own match is never replaced.
HostLeads ==
  /\ Host \notin rewound
  /\ \A r \in relay : r.msg.type = "RTS_SNAPSHOT" => r.from = Host
  /\ \A i \in DOMAIN inbox[Host] : inbox[Host][i].type # "RTS_SNAPSHOT"

\* Some peer was in state h at the end of tick t.
Ended(h, t) == Len(h) = t /\ \E q \in Peers : IsPrefix(h, match[q])

Sound(m) ==
  /\ m.type = "RTS_COMMAND" => target[m.command] # NotIssued /\ m.tick = target[m.command]
  /\ m.type = "RTS_SNAPSHOT" => IsPrefix(m.state, match[Host])
  /\ m.type = "RTS_STATE_HASH" /\ rewound = {} => Ended(m.hash, m.tick)

InFlight == {r.msg : r \in relay} \cup UNION {{inbox[p][i] : i \in DOMAIN inbox[p]} : p \in Peers}

\* A message on its way says what was so when it was sent.
MessagesAreSound == \A m \in InFlight : Sound(m)

\* The hashes a peer keeps are of states some peer, or it itself, was in.
RecordsAreSound ==
  rewound = {} =>
    \A p \in Peers, t \in HashTicks :
      /\ \A h \in pending[p][t] : Ended(h, t)
      /\ \A h \in hashes[p][t] : Len(h) = t /\ IsPrefix(h, match[p])

Continues(p) ==
  Len(match[p]) <= Len(match'[p]) /\ \A i \in 1 .. Len(match[p]) : match'[p][i] = match[p][i]

\* What is new on its way after a step, and what was there before.
LEMMA SentByStep ==
  ASSUME LockstepTypes, [LockstepNext]_lockstepVars, NEW r \in relay'
  PROVE  /\ r.from \in Peers
         /\ \/ r \in relay
            \/ \E p \in Peers, c \in Commands :
                 IssueCommand(p, c) /\ r.from = p /\ r.msg = CommandMsg(Tick(p) + InputDelay, c)
            \/ \E p \in Peers, n \in 1 .. MaxSteps :
                 /\ Advance(p, n)
                 /\ r.from = p
                 /\ r.msg \in Reports(p, match[p] \o Taken(p, n))
<1>1. LockstepTypes'
  BY StepTypes
<1>2. r.from \in Peers
  BY <1>1 DEF LockstepTypes
<1>3. CASE UNCHANGED lockstepVars
  BY <1>2, <1>3 DEF lockstepVars, netVars
<1>4. ASSUME NEW p \in Peers, NEW c \in Commands, IssueCommand(p, c)
      PROVE  r \in relay \/ (r.from = p /\ r.msg = CommandMsg(Tick(p) + InputDelay, c))
  <2>1. relay' = relay \/ relay' = relay \cup [from : {p}, msg : {CommandMsg(Tick(p) + InputDelay, c)}]
    BY <1>4 DEF IssueCommand, Publish
  <2> QED BY <2>1
<1>5. ASSUME NEW p \in Peers, NEW n \in 1 .. MaxSteps, Advance(p, n)
      PROVE  r \in relay \/ (r.from = p /\ r.msg \in Reports(p, match[p] \o Taken(p, n)))
  <2>1. \/ relay' = relay
        \/ relay' = relay \cup [from : {p}, msg : Reports(p, match[p] \o Taken(p, n))]
    BY <1>5 DEF Advance, Publish
  <2> QED BY <2>1
<1>6. ASSUME NEW p \in Peers, Receive(p) \/ Disconnect(p) \/ Reconnect(p) PROVE r \in relay
  BY <1>6 DEF Receive, Disconnect, Reconnect
<1>7. ASSUME NEW x \in relay, Relay(x) \/ Drop(x) PROVE r \in relay
  BY <1>7 DEF Relay, Drop
<1> QED BY <1>2, <1>3, <1>4, <1>5, <1>6, <1>7 DEF LockstepNext

\* What is in an inbox after a step was there, or on its way from somebody else.
LEMMA DeliveredByStep ==
  ASSUME LockstepTypes, [LockstepNext]_lockstepVars, NEW p \in Peers, NEW i \in DOMAIN inbox'[p]
  PROVE  \/ \E j \in DOMAIN inbox[p] : inbox'[p][i] = inbox[p][j]
         \/ \E r \in relay : p # r.from /\ inbox'[p][i] = r.msg
<1>1. CASE inbox' = inbox
  BY <1>1
<1>2. ASSUME NEW q \in Peers, Receive(q) PROVE \E j \in DOMAIN inbox[p] : inbox'[p][i] = inbox[p][j]
  <2>1. inbox[q] # <<>> /\ inbox' = [inbox EXCEPT ![q] = Tail(@)]
    BY <1>2 DEF Receive
  <2> QED BY <2>1, InboxShift
<1>3. ASSUME NEW r \in relay, Relay(r)
      PROVE  \/ \E j \in DOMAIN inbox[p] : inbox'[p][i] = inbox[p][j]
             \/ p # r.from /\ inbox'[p][i] = r.msg
  <2>1. CASE p # r.from /\ connected[p]
    <3>1. /\ DOMAIN inbox[p] = 1 .. Len(inbox[p]) /\ Len(inbox[p]) \in Nat
          /\ DOMAIN inbox'[p] = 1 .. Len(inbox[p]) + 1
          /\ \A j \in DOMAIN inbox[p] : inbox'[p][j] = inbox[p][j]
          /\ inbox'[p][Len(inbox[p]) + 1] = r.msg
      BY <1>3, <2>1, InboxGrows
    <3>2. CASE i \in DOMAIN inbox[p]
      BY <3>1, <3>2
    <3>3. CASE i = Len(inbox[p]) + 1
      BY <2>1, <3>1, <3>3
    <3> QED BY <3>1, <3>2, <3>3
  <2>2. CASE ~(p # r.from /\ connected[p])
    BY <1>3, <2>2, InboxGrows
  <2> QED BY <2>1, <2>2
<1>4. ASSUME NEW q \in Peers, Disconnect(q) PROVE \E j \in DOMAIN inbox[p] : inbox'[p][i] = inbox[p][j]
  <2>1. inbox' = [inbox EXCEPT ![q] = <<>>]
    BY <1>4 DEF Disconnect
  <2>2. q # p
    BY <2>1 DEF LockstepTypes
  <2> QED BY <2>1, <2>2 DEF LockstepTypes
<1>5. inbox' = inbox \/ (\E q \in Peers : Receive(q) \/ Disconnect(q)) \/ \E r \in relay : Relay(r)
  BY DEF LockstepNext, IssueCommand, Advance, Reconnect, Drop, lockstepVars, netVars
<1> QED BY <1>1, <1>2, <1>3, <1>4, <1>5
-----------------------------------------------------------------------------
LEMMA AdvanceExtends ==
  ASSUME LockstepTypes, NEW p \in Peers, NEW n \in 1 .. MaxSteps, Advance(p, n)
  PROVE  /\ match[p] \o Taken(p, n) = match'[p]
         /\ match'[p] \in Match /\ Len(match'[p]) = Tick(p) + n
         /\ \A i \in 1 .. Tick(p) : match'[p][i] = match[p][i]
         /\ \A k \in Int : Tick(p) < k /\ k <= Tick(p) + n => match'[p][k] = buffer[p][k - 1]
         /\ \A q \in Peers : q # p => match'[q] = match[q]
         /\ Tick(p) \in Nat /\ n \in Nat /\ n >= 1 /\ Tick(p) + n \in 1 .. MaxTick
<1> DEFINE s == match[p] \o Taken(p, n)
<1>1. match' = [match EXCEPT ![p] = s] /\ Tick(p) + n <= MaxTick
  BY DEF Advance
<1>2. match'[p] = s /\ \A q \in Peers : q # p => match'[q] = match[q]
  BY <1>1 DEF LockstepTypes
<1>3. Frame(p, n, s)
  BY <1>1 DEF Frame
<1> HIDE DEF s
<1>4. /\ s \in Match /\ Len(s) = Tick(p) + n
      /\ \A i \in 1 .. Tick(p) : s[i] = match[p][i]
      /\ \A k \in Int : Tick(p) < k /\ k <= Tick(p) + n => s[k] = buffer[p][k - 1]
  BY <1>3, FrameTakes
<1>5. Tick(p) \in Nat /\ n \in Nat /\ n >= 1 /\ Tick(p) + n \in 1 .. MaxTick
  BY <1>1, <1>4, TickType, Constants
<1>6. s = match[p] \o Taken(p, n)
  BY DEF s
<1> QED BY <1>2, <1>4, <1>5, <1>6

\* Matches only grow, but for those that snapshots replace; a command keeps the tick it was given.
LEMMA MatchesGrow ==
  ASSUME LockstepTypes, StartsOnce, HostLeads, [LockstepNext]_lockstepVars
  PROVE  /\ rewound \subseteq rewound' /\ Host \notin rewound'
         /\ \A p \in Peers \ rewound' : Continues(p)
         /\ \A c \in Commands : target[c] # NotIssued => target'[c] = target[c]
<1>0. \A p \in Peers : Tick(p) = Len(match[p]) /\ Tick(p) \in Nat
  BY TickType, Constants
<1>1. CASE UNCHANGED <<match, rewound, target>>
  BY <1>0, <1>1 DEF HostLeads, Continues
<1>2. ASSUME NEW p \in Peers, NEW c \in Commands, IssueCommand(p, c)
      PROVE  /\ UNCHANGED <<match, rewound>>
             /\ \A d \in Commands : target[d] # NotIssued => target'[d] = target[d]
  BY <1>2 DEF IssueCommand, LockstepTypes
<1>3. ASSUME NEW p \in Peers, NEW n \in 1 .. MaxSteps, Advance(p, n)
      PROVE  UNCHANGED <<rewound, target>> /\ \A q \in Peers : Continues(q)
  <2>1. UNCHANGED <<rewound, target>>
    BY <1>3 DEF Advance, history
  <2>2. Len(match'[p]) = Tick(p) + n /\ Tick(p) \in Nat /\ n \in Nat
        /\ (\A i \in 1 .. Tick(p) : match'[p][i] = match[p][i])
        /\ \A q \in Peers : q # p => match'[q] = match[q]
    BY <1>3, AdvanceExtends
  <2>3. ASSUME NEW q \in Peers PROVE Continues(q)
    <3>1. CASE q = p
      BY <1>0, <2>2, <3>1 DEF Continues
    <3>2. CASE q # p
      BY <1>0, <2>2, <3>2 DEF Continues
    <3> QED BY <3>1, <3>2
  <2> QED BY <2>1, <2>3
<1>4. ASSUME NEW p \in Peers, Receive(p)
      PROVE  /\ UNCHANGED target /\ rewound \subseteq rewound' /\ Host \notin rewound'
             /\ \A q \in Peers \ rewound' : Continues(q)
  <2> DEFINE m == Head(inbox[p])
  <2>1. m = inbox[p][1] /\ 1 \in DOMAIN inbox[p]
    BY <1>4, InboxShift DEF Receive
  <2>2. CASE m.type = "RTS_MATCH_START" /\ ReceiveStart(p)
    <3>1. match[p] = <<>>
      BY <2>1, <2>2 DEF StartsOnce
    <3>2. match' = [match EXCEPT ![p] = <<>>]
      BY <2>2 DEF ReceiveStart
    <3>3. match' = match
      BY <3>1, <3>2 DEF LockstepTypes
    <3> QED BY <1>0, <2>2, <3>3 DEF ReceiveStart, history, Continues, HostLeads
  <2>3. CASE m.type = "RTS_COMMAND" /\ ReceiveCommand(p, m)
    BY <1>0, <2>3 DEF ReceiveCommand, Continues, HostLeads
  <2>4. CASE m.type = "RTS_STATE_HASH" /\ ReceiveHash(p, m)
    BY <1>0, <2>4 DEF ReceiveHash, history, Continues, HostLeads
  <2>5. CASE m.type = "RTS_SNAPSHOT" /\ ReceiveSnapshot(p, m)
    <3>1. p # Host
      BY <2>1, <2>5 DEF HostLeads
    <3>2. rewound' = rewound \cup {p} /\ UNCHANGED target /\ match' = [match EXCEPT ![p] = m.state]
      BY <2>5 DEF ReceiveSnapshot
    <3> HIDE DEF m
    <3>3. \A q \in Peers \ rewound' : match'[q] = match[q]
      BY <3>2 DEF LockstepTypes
    <3> QED BY <1>0, <3>1, <3>2, <3>3 DEF Continues, HostLeads
  <2> QED BY <1>4, <2>2, <2>3, <2>4, <2>5 DEF Receive
<1>5. ASSUME NEW r \in relay, Relay(r) \/ Drop(r) PROVE UNCHANGED <<match, rewound, target>>
  BY <1>5 DEF Relay, Drop, storeVars, history
<1>6. ASSUME NEW p \in Peers, Disconnect(p) \/ Reconnect(p) PROVE UNCHANGED <<match, rewound, target>>
  BY <1>6 DEF Disconnect, Reconnect, storeVars, history
<1>7. CASE UNCHANGED lockstepVars
  BY <1>1, <1>7 DEF lockstepVars, storeVars, history
<1>8. CASE \E p \in Peers, c \in Commands : IssueCommand(p, c)
  BY <1>0, <1>2, <1>8 DEF Continues, HostLeads
<1>9. CASE \E p \in Peers, n \in 1 .. MaxSteps : Advance(p, n)
  BY <1>3, <1>9 DEF HostLeads
<1>10. CASE \E p \in Peers : Receive(p)
  BY <1>4, <1>10
<1>11. CASE (\E r \in relay : Relay(r) \/ Drop(r)) \/ \E p \in Peers : Disconnect(p) \/ Reconnect(p)
  BY <1>1, <1>5, <1>6, <1>11
<1> QED BY <1>7, <1>8, <1>9, <1>10, <1>11 DEF LockstepNext

LEMMA HostLeadsStep ==
  ASSUME LockstepTypes, StartsOnce, HostLeads, [LockstepNext]_lockstepVars
  PROVE  HostLeads'
<1>1. Host \in Peers
  BY Constants
<1>2. Host \notin rewound'
  BY MatchesGrow
<1>3. ASSUME NEW r \in relay', r.msg.type = "RTS_SNAPSHOT" PROVE r.from = Host
  <2>1. CASE r \in relay
    BY <1>3, <2>1 DEF HostLeads
  <2>2. ASSUME NEW c \in Commands, NEW t, r.msg = CommandMsg(t, c) PROVE FALSE
    BY <1>3, <2>2 DEF CommandMsg
  <2>3. ASSUME NEW p \in Peers, NEW n \in 1 .. MaxSteps, Advance(p, n), r.from = p,
               r.msg \in Reports(p, match[p] \o Taken(p, n))
        PROVE  p = Host
    <3> DEFINE s == match[p] \o Taken(p, n)
    <3>1. r.msg = HashMsg(Len(s), s) \/ p = Host
      BY <2>3 DEF Reports
    <3>2. HashMsg(Len(s), s).type = "RTS_STATE_HASH"
      BY DEF HashMsg
    <3> HIDE DEF s
    <3> QED BY <1>3, <3>1, <3>2
  <2> QED BY <2>1, <2>2, <2>3, SentByStep
<1>4. ASSUME NEW i \in DOMAIN inbox'[Host] PROVE inbox'[Host][i].type # "RTS_SNAPSHOT"
  <2>1. CASE \E j \in DOMAIN inbox[Host] : inbox'[Host][i] = inbox[Host][j]
    BY <2>1 DEF HostLeads
  <2>2. CASE \E r \in relay : Host # r.from /\ inbox'[Host][i] = r.msg
    BY <2>2 DEF HostLeads
  <2> QED BY <1>1, <2>1, <2>2, DeliveredByStep
<1> QED BY <1>2, <1>3, <1>4 DEF HostLeads

LEMMA StartsOnceStep ==
  ASSUME LockstepTypes, StartsOnce, HostLeads, [LockstepNext]_lockstepVars
  PROVE  StartsOnce'
<1>1. ASSUME NEW r \in relay' PROVE r.msg.type # "RTS_MATCH_START"
  <2>1. CASE r \in relay
    BY <2>1 DEF StartsOnce
  <2>2. ASSUME NEW c \in Commands, NEW t, r.msg = CommandMsg(t, c) PROVE r.msg.type # "RTS_MATCH_START"
    BY <2>2 DEF CommandMsg
  <2>3. ASSUME NEW p \in Peers, NEW s, r.msg \in Reports(p, s) PROVE r.msg.type # "RTS_MATCH_START"
    <3>1. r.msg = HashMsg(Len(s), s) \/ r.msg = SnapshotMsg(s)
      BY <2>3 DEF Reports
    <3>2. HashMsg(Len(s), s).type = "RTS_STATE_HASH" /\ SnapshotMsg(s).type = "RTS_SNAPSHOT"
      BY DEF HashMsg, SnapshotMsg
    <3> QED BY <3>1, <3>2
  <2> QED BY <2>1, <2>2, <2>3, SentByStep
<1>2. ASSUME NEW p \in Peers, NEW i \in DOMAIN inbox'[p], inbox'[p][i].type = "RTS_MATCH_START"
      PROVE  i = 1 /\ ~playing'[p]
  <2>1. CASE inbox' = inbox /\ playing' = playing
    BY <1>2, <2>1 DEF StartsOnce
  <2>2. ASSUME NEW q \in Peers, Receive(q) PROVE i = 1 /\ ~playing'[p]
    <3>1. /\ \A x \in Peers : x # q => inbox'[x] = inbox[x]
          /\ \A j \in DOMAIN inbox'[q] : j + 1 \in DOMAIN inbox[q] /\ inbox'[q][j] = inbox[q][j + 1]
          /\ DOMAIN inbox'[q] = 1 .. Len(inbox[q]) - 1
      BY <2>2, InboxShift DEF Receive
    <3>2. CASE p = q
      <4>1. i + 1 \in DOMAIN inbox[q] /\ inbox[q][i + 1].type = "RTS_MATCH_START" /\ i \in Nat /\ i >= 1
        BY <1>2, <3>1, <3>2
      <4>2. i + 1 = 1
        BY <4>1 DEF StartsOnce
      <4> QED BY <4>1, <4>2
    <3>3. CASE p # q
      <4>1. playing'[p] = playing[p]
        BY <2>2, <3>3 DEF Receive, ReceiveStart, ReceiveCommand, ReceiveHash, ReceiveSnapshot, LockstepTypes
      <4> QED BY <1>2, <3>1, <3>3, <4>1 DEF StartsOnce
    <3> QED BY <3>2, <3>3
  <2>3. ASSUME NEW r \in relay, Relay(r) PROVE i = 1 /\ ~playing'[p]
    <3>1. playing' = playing
      BY <2>3 DEF Relay, storeVars
    <3>2. r.msg.type # "RTS_MATCH_START"
      BY DEF StartsOnce
    <3>3. CASE p # r.from /\ connected[p]
      <4>1. /\ DOMAIN inbox[p] = 1 .. Len(inbox[p]) /\ Len(inbox[p]) \in Nat
            /\ DOMAIN inbox'[p] = 1 .. Len(inbox[p]) + 1
            /\ \A j \in DOMAIN inbox[p] : inbox'[p][j] = inbox[p][j]
            /\ inbox'[p][Len(inbox[p]) + 1] = r.msg
        BY <2>3, <3>3, InboxGrows
      <4>2. i # Len(inbox[p]) + 1
        BY <1>2, <3>2, <4>1
      <4>3. i \in DOMAIN inbox[p] /\ inbox'[p][i] = inbox[p][i]
        BY <4>1, <4>2
      <4> QED BY <1>2, <3>1, <4>3 DEF StartsOnce
    <3>4. CASE ~(p # r.from /\ connected[p])
      BY <1>2, <2>3, <3>1, <3>4, InboxGrows DEF StartsOnce
    <3> QED BY <3>3, <3>4
  <2>4. ASSUME NEW q \in Peers, Disconnect(q) PROVE i = 1 /\ ~playing'[p]
    <3>1. inbox' = [inbox EXCEPT ![q] = <<>>] /\ playing' = playing
      BY <2>4 DEF Disconnect, storeVars
    <3>2. inbox'[p] = inbox[p]
      BY <3>1 DEF LockstepTypes
    <3> QED BY <1>2, <3>1, <3>2 DEF StartsOnce
  <2> QED BY <2>1, <2>2, <2>3, <2>4
        DEF LockstepNext, IssueCommand, Advance, Reconnect, Drop, lockstepVars, netVars, storeVars
<1>3. ASSUME NEW p \in Peers, ~playing'[p]
      PROVE  /\ match'[p] = <<>>
             /\ ~desynced'[p]
             /\ \A t \in Ticks : buffer'[p][t] = <<>>
             /\ \A t \in HashTicks : hashes'[p][t] = {}
  <2> DEFINE Untouched(q) == /\ match'[q] = match[q] /\ desynced'[q] = desynced[q]
                             /\ buffer'[q] = buffer[q] /\ hashes'[q] = hashes[q] /\ playing'[q] = playing[q]
  <2>1. CASE Untouched(p)
    BY <1>3, <2>1 DEF StartsOnce
  <2>2. CASE UNCHANGED storeVars
    BY <2>1, <2>2 DEF storeVars
  <2>3. ASSUME NEW q \in Peers, NEW c \in Commands, IssueCommand(q, c) PROVE Untouched(p)
    <3>1. q # p
      BY <1>3, <2>3 DEF IssueCommand
    <3> QED BY <2>3, <3>1 DEF IssueCommand, Schedule, LockstepTypes
  <2>4. ASSUME NEW q \in Peers, NEW n \in 1 .. MaxSteps, Advance(q, n) PROVE Untouched(p)
    <3>1. q # p
      BY <1>3, <2>4 DEF Advance
    <3>2. \A f, x : [f EXCEPT ![q] = x][p] = f[p]
      BY <3>1
    <3>3. match'[p] = match[p] /\ buffer'[p] = buffer[p] /\ playing'[p] = playing[p]
      BY <2>4, <3>1 DEF Advance, LockstepTypes
    <3>4. hashes'[p] = hashes[p] /\ desynced'[p] = desynced[p]
      BY <2>4, <3>1 DEF Advance, LockstepTypes
    <3> QED BY <3>3, <3>4
  <2>5. ASSUME NEW q \in Peers, Receive(q), q # p PROVE Untouched(p)
    <3> DEFINE m == Head(inbox[q])
    <3>1. CASE ReceiveStart(q)
      BY <2>5, <3>1 DEF ReceiveStart, LockstepTypes
    <3>2. CASE ReceiveCommand(q, m)
      BY <2>5, <3>2 DEF ReceiveCommand, Schedule, LockstepTypes
    <3>3. CASE ReceiveHash(q, m)
      BY <2>5, <3>3 DEF ReceiveHash, LockstepTypes
    <3>4. CASE ReceiveSnapshot(q, m)
      BY <2>5, <3>4 DEF ReceiveSnapshot, LockstepTypes
    <3> QED BY <2>5, <3>1, <3>2, <3>3, <3>4 DEF Receive
  <2>6. ASSUME Receive(p) PROVE Untouched(p)
    <3> DEFINE m == Head(inbox[p])
    <3>1. ~ReceiveStart(p) /\ ~ReceiveSnapshot(p, m)
      BY <1>3 DEF ReceiveStart, ReceiveSnapshot, LockstepTypes
    <3>2. CASE ReceiveCommand(p, m)
      BY <1>3, <3>2 DEF ReceiveCommand
    <3>3. CASE ReceiveHash(p, m) /\ m.type = "RTS_STATE_HASH"
      <4>1. UNCHANGED <<playing, match, buffer, hashes>>
        BY <3>3 DEF ReceiveHash
      <4>2. m \in Message
        BY <2>6, InboxShift DEF Receive
      <4>3. m.tick \in HashTicks
        BY <3>3, <4>2, MessageFields
      <4>4. hashes[p][m.tick] = {}
        BY <1>3, <4>1, <4>3 DEF StartsOnce
      <4>5. desynced' = desynced
        BY <3>3, <4>4 DEF ReceiveHash
      <4> QED BY <4>1, <4>5
    <3> QED BY <2>6, <3>1, <3>2, <3>3 DEF Receive
  <2>7. ASSUME NEW q \in Peers, Receive(q) PROVE Untouched(p)
    BY <2>5, <2>6, <2>7
  <2> HIDE DEF Untouched
  <2> QED BY <2>1, <2>2, <2>3, <2>4, <2>7 DEF LockstepNext, Relay, Drop, Disconnect, Reconnect, lockstepVars
<1> QED BY <1>1, <1>2, <1>3 DEF StartsOnce
-----------------------------------------------------------------------------
LEMMA MatchSeq == \A s \in Match : s \in Seq(Seq(Commands)) /\ Len(s) \in Nat
  BY LenProperties DEF Match

LEMMA PrefixContinues ==
  ASSUME LockstepTypes, LockstepTypes', NEW p \in Peers, Continues(p), NEW h \in Match, IsPrefix(h, match[p])
  PROVE  IsPrefix(h, match'[p])
<1>1. match[p] \in Match /\ match'[p] \in Match
  BY DEF LockstepTypes
<1> DEFINE t == match[p]
           u == match'[p]
<1>2. h \in Seq(Seq(Commands)) /\ t \in Seq(Seq(Commands)) /\ u \in Seq(Seq(Commands))
  BY <1>1, MatchSeq
<1>3. IsPrefix(h, t) /\ Len(t) <= Len(u) /\ \A i \in 1 .. Len(t) : u[i] = t[i]
  BY DEF Continues
<1> HIDE DEF t, u
<1>4. IsPrefix(h, u)
  BY <1>2, <1>3, PrefixGrows
<1> QED BY <1>4 DEF u

LEMMA PrefixOfItself == \A s \in Match : IsPrefix(s, s)
  BY MatchSeq, PrefixMeans

LEMMA EndedStays ==
  ASSUME LockstepTypes, LockstepTypes', StartsOnce, HostLeads, [LockstepNext]_lockstepVars, rewound' = {},
         NEW h \in Match, NEW t, Ended(h, t)
  PROVE  Ended(h, t)'
<1>1. PICK q \in Peers : IsPrefix(h, match[q])
  BY DEF Ended
<1>2. Continues(q)
  BY MatchesGrow
<1>3. IsPrefix(h, match'[q])
  BY <1>1, <1>2, PrefixContinues
<1> QED BY <1>3 DEF Ended

LEMMA SoundStays ==
  ASSUME LockstepTypes, LockstepTypes', StartsOnce, HostLeads, [LockstepNext]_lockstepVars,
         NEW m \in Message, Sound(m)
  PROVE  Sound(m)'
<1>1. ASSUME m.type = "RTS_COMMAND" PROVE target'[m.command] # NotIssued /\ m.tick = target'[m.command]
  <2>1. m.command \in Commands
    BY <1>1, MessageFields
  <2>2. target'[m.command] = target[m.command]
    BY <1>1, <2>1, MatchesGrow DEF Sound
  <2> QED BY <1>1, <2>2 DEF Sound
<1>2. ASSUME m.type = "RTS_SNAPSHOT" PROVE IsPrefix(m.state, match'[Host])
  <2>1. m.state \in Match /\ IsPrefix(m.state, match[Host])
    BY <1>2, MessageFields DEF Sound
  <2>2. Host \in Peers /\ Continues(Host)
    BY Constants, MatchesGrow
  <2> QED BY <2>1, <2>2, PrefixContinues
<1>3. ASSUME m.type = "RTS_STATE_HASH", rewound' = {} PROVE Ended(m.hash, m.tick)'
  <2>1. rewound = {} /\ m.hash \in Match
    BY <1>3, MatchesGrow, MessageFields
  <2>2. Ended(m.hash, m.tick)
    BY <1>3, <2>1 DEF Sound
  <2> QED BY <1>3, <2>1, <2>2, EndedStays
<1> QED BY <1>1, <1>2, <1>3 DEF Sound

LEMMA SentIsSound ==
  ASSUME LockstepTypes, LockstepTypes'
  PROVE  /\ \A p \in Peers, c \in Commands :
              IssueCommand(p, c) => \A m : m = CommandMsg(Tick(p) + InputDelay, c) => Sound(m)'
         /\ \A p \in Peers, n \in 1 .. MaxSteps : Advance(p, n) =>
              \A m \in Reports(p, match[p] \o Taken(p, n)) : Sound(m)'
<1>1. ASSUME NEW p \in Peers, NEW c \in Commands, IssueCommand(p, c),
             NEW m, m = CommandMsg(Tick(p) + InputDelay, c)
      PROVE  Sound(m)'
  <2> DEFINE tick == Tick(p) + InputDelay
  <2>1. target' = [target EXCEPT ![c] = tick]
    BY <1>1 DEF IssueCommand
  <2>2. tick # NotIssued
    BY TickType, Constants DEF NotIssued
  <2>3. m.type = "RTS_COMMAND" /\ m.tick = tick /\ m.command = c
    BY <1>1 DEF CommandMsg
  <2> HIDE DEF tick
  <2>4. target'[c] = tick
    BY <2>1 DEF LockstepTypes
  <2> QED BY <2>2, <2>3, <2>4 DEF Sound
<1>2. ASSUME NEW p \in Peers, NEW n \in 1 .. MaxSteps, Advance(p, n),
             NEW m \in Reports(p, match[p] \o Taken(p, n))
      PROVE  Sound(m)'
  <2> DEFINE s == match'[p]
  <2>1. match[p] \o Taken(p, n) = s /\ s \in Match
    BY <1>2, AdvanceExtends
  <2>2. IsPrefix(s, s)
    BY <2>1, PrefixOfItself
  <2>3. m = HashMsg(Len(s), s) \/ (p = Host /\ m = SnapshotMsg(s))
    BY <1>2, <2>1 DEF Reports
  <2>4. CASE m = HashMsg(Len(s), s)
    <3>1. m.type = "RTS_STATE_HASH" /\ m.hash = s /\ m.tick = Len(s)
      BY <2>4 DEF HashMsg
    <3>2. Ended(m.hash, m.tick)'
      BY <2>2, <3>1 DEF Ended
    <3> QED BY <3>1, <3>2 DEF Sound
  <2>5. CASE p = Host /\ m = SnapshotMsg(s)
    <3>1. m.type = "RTS_SNAPSHOT" /\ m.state = match'[Host]
      BY <2>5 DEF SnapshotMsg
    <3> QED BY <2>2, <2>5, <3>1 DEF Sound
  <2> QED BY <2>3, <2>4, <2>5
<1> QED BY <1>1, <1>2

LEMMA MessagesStep ==
  ASSUME LockstepTypes, LockstepTypes', StartsOnce, HostLeads, MessagesAreSound, [LockstepNext]_lockstepVars
  PROVE  MessagesAreSound'
<1>1. \A r \in relay : r.msg \in Message /\ Sound(r.msg)
  BY DEF LockstepTypes, MessagesAreSound, InFlight
<1>2. ASSUME NEW p \in Peers, NEW i \in DOMAIN inbox[p] PROVE inbox[p][i] \in Message /\ Sound(inbox[p][i])
  <2>1. inbox[p] \in Seq(Message)
    BY TickType
  <2>2. inbox[p][i] \in Message
    BY <2>1
  <2> QED BY <2>2 DEF MessagesAreSound, InFlight
<1>3. ASSUME NEW r \in relay', NEW m, m = r.msg PROVE Sound(m)'
  <2>1. CASE r \in relay
    BY <1>1, <1>3, <2>1, SoundStays
  <2>2. CASE \E p \in Peers, c \in Commands :
               IssueCommand(p, c) /\ r.from = p /\ r.msg = CommandMsg(Tick(p) + InputDelay, c)
    BY <1>3, <2>2, SentIsSound
  <2>3. CASE \E p \in Peers, n \in 1 .. MaxSteps :
               Advance(p, n) /\ r.from = p /\ r.msg \in Reports(p, match[p] \o Taken(p, n))
    BY <1>3, <2>3, SentIsSound
  <2> QED BY <2>1, <2>2, <2>3, SentByStep
<1>4. ASSUME NEW p \in Peers, NEW i \in DOMAIN inbox'[p], NEW m, m = inbox'[p][i] PROVE Sound(m)'
  <2>1. m \in Message /\ Sound(m)
    BY <1>1, <1>2, <1>4, DeliveredByStep
  <2> QED BY <2>1, SoundStays
<1>5. ASSUME NEW m \in InFlight' PROVE Sound(m)'
  <2>1. \/ \E r \in relay' : m = r.msg
        \/ \E p \in Peers : \E i \in DOMAIN inbox'[p] : m = inbox'[p][i]
    BY DEF InFlight
  <2>2. CASE \E r \in relay' : m = r.msg
    BY <1>3, <2>2
  <2>3. CASE \E p \in Peers : \E i \in DOMAIN inbox'[p] : m = inbox'[p][i]
    BY <1>4, <2>3
  <2> QED BY <2>1, <2>2, <2>3
<1> QED BY <1>5 DEF MessagesAreSound
-----------------------------------------------------------------------------
LEMMA HeadInFlight ==
  ASSUME LockstepTypes, NEW p \in Peers, Receive(p)
  PROVE  Head(inbox[p]) \in Message /\ Head(inbox[p]) \in InFlight
<1>1. Head(inbox[p]) \in Message /\ Head(inbox[p]) = inbox[p][1] /\ 1 \in DOMAIN inbox[p]
  BY InboxShift DEF Receive
<1>2. inbox[p][1] \in {inbox[p][i] : i \in DOMAIN inbox[p]}
  BY <1>1
<1> QED BY <1>1, <1>2 DEF InFlight

\* The hashes a peer keeps after a step it kept before, or they are those of a frame or of a message.
LEMMA RecordedByStep ==
  ASSUME LockstepTypes, [LockstepNext]_lockstepVars, MessagesAreSound, rewound = {},
         NEW p \in Peers, NEW t \in HashTicks
  PROVE  /\ \A h \in pending'[p][t] : h \in pending[p][t] \/ Ended(h, t)
         /\ \A h \in hashes'[p][t] : h \in hashes[p][t] \/ (h = match'[p] /\ Len(h) = t)
<1> DEFINE Kept == (\A h \in pending'[p][t] : h \in pending[p][t] \/ Ended(h, t))
                   /\ (\A h \in hashes'[p][t] : h \in hashes[p][t] \/ (h = match'[p] /\ Len(h) = t))
<1>1. CASE UNCHANGED <<pending, hashes>>
  BY <1>1
<1>2. ASSUME NEW q \in Peers, NEW n \in 1 .. MaxSteps, Advance(q, n) PROVE Kept
  <2> DEFINE s == match'[q]
  <2>1. match[q] \o Taken(q, n) = s /\ s \in Match
    BY <1>2, AdvanceExtends
  <2>2. CASE Len(s) \in HashTicks
    <3> DEFINE new == Remembered(hashes[q], Len(s), s)
    <3>1. hashes' = [hashes EXCEPT ![q] = new] /\ pending' = [pending EXCEPT ![q][Len(s)] = {}]
      BY <1>2, <2>1, <2>2 DEF Advance
    <3>2. \A k \in HashTicks : new[k] = {} \/ (k = Len(s) /\ new[k] = {s}) \/ (k # Len(s) /\ new[k] = hashes[q][k])
      BY RememberedHashes
    <3> HIDE DEF s, new
    <3>3. pending'[p][t] = IF p = q /\ t = Len(s) THEN {} ELSE pending[p][t]
      BY <2>2, <3>1 DEF LockstepTypes
    <3>4. hashes'[p] = IF p = q THEN new ELSE hashes[p]
      BY <3>1 DEF LockstepTypes
    <3>5. p = q => s = match'[p]
      BY DEF s
    <3> QED BY <2>2, <3>2, <3>3, <3>4, <3>5
  <2>3. CASE Len(s) \notin HashTicks
    <3>1. UNCHANGED <<hashes, pending>>
      BY <1>2, <2>1, <2>3 DEF Advance
    <3> QED BY <3>1
  <2> QED BY <2>2, <2>3
<1>3. ASSUME NEW q \in Peers, Receive(q) PROVE Kept
  <2> DEFINE m == Head(inbox[q])
  <2>1. m \in Message /\ m \in InFlight
    BY <1>3, HeadInFlight
  <2> HIDE DEF m
  <2>2. CASE ReceiveStart(q)
    BY <2>2 DEF ReceiveStart, LockstepTypes
  <2>3. CASE ReceiveCommand(q, m) \/ ReceiveSnapshot(q, m)
    BY <2>3 DEF ReceiveCommand, ReceiveSnapshot
  <2>4. CASE m.type = "RTS_STATE_HASH" /\ ReceiveHash(q, m)
    <3>1. m.tick \in HashTicks /\ Ended(m.hash, m.tick)
      BY <2>1, <2>4, MessageFields DEF MessagesAreSound, Sound
    <3>2. UNCHANGED hashes
      BY <2>4 DEF ReceiveHash
    <3>3. CASE UNCHANGED pending
      BY <3>2, <3>3
    <3>4. CASE pending' = [pending EXCEPT ![q][m.tick] = {m.hash}]
      <4>1. pending'[p][t] = IF p = q /\ t = m.tick THEN {m.hash} ELSE pending[p][t]
        BY <3>1, <3>4 DEF LockstepTypes
      <4> QED BY <3>1, <3>2, <4>1
    <3> QED BY <2>4, <3>3, <3>4 DEF ReceiveHash
  <2> QED BY <1>3, <2>2, <2>3, <2>4 DEF Receive, m
<1> HIDE DEF Kept
<1>4. Kept
  BY <1>1, <1>2, <1>3
     DEF Kept, LockstepNext, IssueCommand, Disconnect, Reconnect, Relay, Drop, lockstepVars, storeVars
<1> QED BY <1>4 DEF Kept

LEMMA RecordsStep ==
  ASSUME LockstepTypes, LockstepTypes', StartsOnce, HostLeads, MessagesAreSound, RecordsAreSound,
         [LockstepNext]_lockstepVars
  PROVE  RecordsAreSound'
<1> SUFFICES ASSUME rewound' = {}, NEW p \in Peers, NEW t \in HashTicks
             PROVE  /\ \A h \in pending'[p][t] : Ended(h, t)'
                    /\ \A h \in hashes'[p][t] : Len(h) = t /\ IsPrefix(h, match'[p])
  BY DEF RecordsAreSound
<1>1. rewound = {} /\ Continues(p)
  BY MatchesGrow
<1>2. pending'[p][t] \in SUBSET Match /\ hashes'[p][t] \in SUBSET Match /\ match'[p] \in Match
  BY DEF LockstepTypes
<1>3. ASSUME NEW h \in pending'[p][t] PROVE Ended(h, t)'
  <2>1. Ended(h, t)
    BY <1>1, RecordedByStep DEF RecordsAreSound
  <2> QED BY <1>2, <2>1, EndedStays
<1>4. ASSUME NEW h \in hashes'[p][t] PROVE Len(h) = t /\ IsPrefix(h, match'[p])
  <2>1. CASE h \in hashes[p][t]
    <3>1. Len(h) = t /\ IsPrefix(h, match[p])
      BY <1>1, <2>1 DEF RecordsAreSound
    <3> QED BY <1>1, <1>2, <3>1, PrefixContinues
  <2>2. CASE h = match'[p] /\ Len(h) = t
    BY <1>2, <2>2, PrefixOfItself
  <2> QED BY <1>1, <2>1, <2>2, RecordedByStep
<1> QED BY <1>3, <1>4

\* The states two peers ended tick t in, and they differ.
Drift(p, q, t) ==
  t <= Tick(p) /\ t <= Tick(q) /\ SubSeq(match[p], 1, t) # SubSeq(match[q], 1, t)

LEMMA ContinuedPrefix ==
  ASSUME LockstepTypes, LockstepTypes', NEW p \in Peers, Continues(p), NEW t \in 1 .. MaxTick, t <= Tick(p)
  PROVE  t <= Tick(p)' /\ SubSeq(match'[p], 1, t) = SubSeq(match[p], 1, t)
<1> DEFINE u == match[p]
           v == match'[p]
<1>1. u \in Seq(Seq(Commands)) /\ v \in Seq(Seq(Commands)) /\ Len(u) \in Nat /\ Len(v) \in Nat
  BY MatchSeq DEF LockstepTypes
<1>2. Len(u) <= Len(v) /\ (\A i \in 1 .. Len(u) : v[i] = u[i]) /\ t <= Len(u) /\ t \in Nat /\ t >= 1
  BY Constants DEF Continues, Tick
<1> HIDE DEF u, v
<1>3. \A i \in 1 .. t : u[i] \in Seq(Commands) /\ v[i] = u[i]
  BY <1>1, <1>2, ElementOfSeq
<1>4. /\ SubSeq(u, 1, t) \in Seq(Seq(Commands)) /\ Len(SubSeq(u, 1, t)) = t
      /\ \A i \in 1 .. t : SubSeq(u, 1, t)[i] = u[i]
  <2>1. /\ SubSeq(u, 1, t) \in Seq(Seq(Commands))
        /\ Len(SubSeq(u, 1, t)) = IF 1 <= t THEN t - 1 + 1 ELSE 0
        /\ \A i \in 1 .. t - 1 + 1 : SubSeq(u, 1, t)[i] = u[1 + i - 1]
    BY <1>2, <1>3, SubSeqProperties
  <2> QED BY <1>2, <2>1
<1>5. /\ SubSeq(v, 1, t) \in Seq(Seq(Commands)) /\ Len(SubSeq(v, 1, t)) = t
      /\ \A i \in 1 .. t : SubSeq(v, 1, t)[i] = v[i]
  <2>1. /\ SubSeq(v, 1, t) \in Seq(Seq(Commands))
        /\ Len(SubSeq(v, 1, t)) = IF 1 <= t THEN t - 1 + 1 ELSE 0
        /\ \A i \in 1 .. t - 1 + 1 : SubSeq(v, 1, t)[i] = v[1 + i - 1]
    BY <1>2, <1>3, SubSeqProperties
  <2> QED BY <1>2, <2>1
<1>6. SubSeq(v, 1, t) = SubSeq(u, 1, t)
  BY <1>3, <1>4, <1>5, SeqEqual
<1>7. t <= Len(v)
  BY <1>1, <1>2
<1> QED BY <1>6, <1>7 DEF u, v, Tick

LEMMA DriftFound ==
  ASSUME LockstepTypes', NEW p \in Peers, NEW t \in 1 .. MaxTick, NEW g \in Match, NEW h \in Match,
         Len(g) = t, IsPrefix(g, match'[p]), Ended(h, t)', g # h
  PROVE  \E q \in Peers : Drift(p, q, t)'
<1>1. PICK q \in Peers : IsPrefix(h, match'[q])
  BY DEF Ended
<1>2. Len(h) = t
  BY DEF Ended
<1>3. match'[p] \in Match /\ match'[q] \in Match
  BY DEF LockstepTypes
<1>4. Len(g) <= Len(match'[p]) /\ Len(g) <= Len(match'[q])
      /\ SubSeq(match'[p], 1, Len(g)) # SubSeq(match'[q], 1, Len(g))
  BY <1>1, <1>2, <1>3, MatchSeq, PrefixesDiffer
<1> QED BY <1>4 DEF Drift, Tick

\* A peer that newly shows a difference has compared the hash of its own state with another one.
LEMMA AlarmStep ==
  ASSUME LockstepTypes, LockstepTypes', StartsOnce, HostLeads, MessagesAreSound, RecordsAreSound,
         [LockstepNext]_lockstepVars, rewound' = {}, NEW p \in Peers, desynced'[p], ~desynced[p]
  PROVE  \E q \in Peers : \E t \in 1 .. MaxTick : Drift(p, q, t)'
<1>1. rewound = {}
  BY MatchesGrow
<1>2. HashTicks \subseteq 1 .. MaxTick
  BY Constants
<1>3. ASSUME NEW n \in 1 .. MaxSteps, Advance(p, n) PROVE \E q \in Peers : \E t \in 1 .. MaxTick : Drift(p, q, t)'
  <2> DEFINE s == match'[p]
  <2>1. match[p] \o Taken(p, n) = s /\ s \in Match
    BY <1>3, AdvanceExtends
  <2>2. Len(s) \in HashTicks /\ Differs(pending[p][Len(s)], s)
    BY <1>3, <2>1 DEF Advance, LockstepTypes
  <2>3. PICK h \in pending[p][Len(s)] : h # s
    BY <2>2 DEF Differs
  <2>4. h \in Match /\ Ended(h, Len(s))
    BY <1>1, <2>2, <2>3 DEF RecordsAreSound, LockstepTypes
  <2>5. PICK t \in HashTicks : t = Len(s)
    BY <2>2
  <2>6. Ended(h, t)'
    BY <2>4, <2>5, EndedStays
  <2>7. IsPrefix(s, s)
    BY <2>1, PrefixOfItself
  <2>8. PICK g \in Match : g = s
    BY <2>1
  <2>9. Len(g) = t /\ IsPrefix(g, match'[p]) /\ g # h
    BY <2>3, <2>5, <2>7, <2>8
  <2> QED BY <1>2, <2>4, <2>6, <2>9, DriftFound
<1>4. ASSUME Receive(p) PROVE \E q \in Peers : \E t \in 1 .. MaxTick : Drift(p, q, t)'
  <2> DEFINE m == Head(inbox[p])
  <2>1. m \in Message /\ m \in InFlight
    BY <1>4, HeadInFlight
  <2>2. m.type = "RTS_STATE_HASH" /\ ReceiveHash(p, m)
    <3>1. ~ReceiveStart(p) /\ ~ReceiveSnapshot(p, m)
      BY DEF ReceiveStart, ReceiveSnapshot, LockstepTypes
    <3>2. ~ReceiveCommand(p, m)
      BY DEF ReceiveCommand
    <3> QED BY <1>4, <3>1, <3>2 DEF Receive
  <2> HIDE DEF m
  <2>3. PICK t \in HashTicks, h \in Match : t = m.tick /\ h = m.hash
    BY <2>1, <2>2, MessageFields
  <2>4. Ended(h, t)
    BY <1>1, <2>1, <2>2, <2>3 DEF MessagesAreSound, Sound
  <2>5. Differs(hashes[p][t], h)
    BY <2>2, <2>3 DEF ReceiveHash, LockstepTypes
  <2>6. PICK g \in hashes[p][t] : g # h
    BY <2>5 DEF Differs
  <2>7. g \in Match /\ Len(g) = t /\ IsPrefix(g, match[p])
    BY <1>1, <2>6 DEF RecordsAreSound, LockstepTypes
  <2>8. IsPrefix(g, match'[p])
    BY <2>2, <2>7 DEF ReceiveHash
  <2>9. Ended(h, t)'
    BY <2>4, EndedStays
  <2> QED BY <1>2, <2>6, <2>7, <2>8, <2>9, DriftFound
<1>5. (\E n \in 1 .. MaxSteps : Advance(p, n)) \/ Receive(p)
  <2>1. ASSUME NEW q \in Peers, NEW n \in 1 .. MaxSteps, Advance(q, n) PROVE q = p
    BY <2>1 DEF Advance, LockstepTypes
  <2>2. ASSUME NEW q \in Peers, Receive(q) PROVE q = p
    BY <2>2 DEF Receive, ReceiveStart, ReceiveCommand, ReceiveHash, ReceiveSnapshot, LockstepTypes
  <2> QED BY <2>1, <2>2
        DEF LockstepNext, IssueCommand, Disconnect, Reconnect, Relay, Drop, lockstepVars, storeVars
<1> QED BY <1>3, <1>4, <1>5

LEMMA NoFalseAlarmStep ==
  ASSUME LockstepTypes, LockstepTypes', StartsOnce, HostLeads, MessagesAreSound, RecordsAreSound,
         NoFalseAlarm, [LockstepNext]_lockstepVars
  PROVE  NoFalseAlarm'
<1> SUFFICES ASSUME rewound' = {}, NEW p \in Peers, desynced'[p]
             PROVE  \E q, r \in Peers : \E t \in 1 .. MaxTick : Drift(q, r, t)'
  BY DEF NoFalseAlarm, Drift
<1>1. CASE ~desynced[p]
  BY <1>1, AlarmStep
<1>2. CASE desynced[p]
  <2>1. rewound = {} /\ \A q \in Peers : Continues(q)
    BY MatchesGrow
  <2>2. PICK q \in Peers, r \in Peers : \E t \in 1 .. MaxTick : Drift(q, r, t)
    BY <1>2, <2>1 DEF NoFalseAlarm, Drift
  <2>3. PICK t \in 1 .. MaxTick : Drift(q, r, t)
    BY <2>2
  <2>4. /\ t <= Tick(q)' /\ SubSeq(match'[q], 1, t) = SubSeq(match[q], 1, t)
        /\ t <= Tick(r)' /\ SubSeq(match'[r], 1, t) = SubSeq(match[r], 1, t)
    BY <2>1, <2>3, ContinuedPrefix DEF Drift
  <2>5. Drift(q, r, t)'
    BY <2>3, <2>4 DEF Drift
  <2> QED BY <2>5
<1> QED BY <1>1, <1>2
-----------------------------------------------------------------------------
(* The inductive invariant: commands *)

\* A buffer holds nothing for the ticks a peer has past.
BuffersAhead == \A p \in Peers, t \in Ticks : t < Tick(p) => buffer[p][t] = <<>>

LateIssued == \A p \in Peers, c \in Commands : <<p, c>> \in late => target[c] # NotIssued

\* While nothing fails, a peer that has no match has RTS_MATCH_START next in its inbox.
Undisturbed ==
  faults = 0 => \A p \in Peers :
    connected[p] /\ (playing[p] \/ (inbox[p] # <<>> /\ inbox[p][1].type = "RTS_MATCH_START"))

Nowhere(p, c) ==
  Applied(p, c) = {} /\ Buffered(p, c) = {} /\ Relayed(p, c) = {} /\ Inbound(p, c) = {}

OnItsWay(p, c) ==
  /\ Applied(p, c) = {} /\ Buffered(p, c) = {} /\ <<p, c>> \notin late
  /\ \/ Inbound(p, c) = {} /\ \E r : Relayed(p, c) = {r}
     \/ Relayed(p, c) = {} /\ \E i : Inbound(p, c) = {i}

InTime(p, c, t) == IF <<p, c>> \in late THEN t > target[c] ELSE t = target[c]

Delivered(p, c) ==
  /\ Relayed(p, c) = {} /\ Inbound(p, c) = {}
  /\ \E t \in Ticks, i \in Nat :
       /\ InTime(p, c, t)
       /\ \/ Applied(p, c) = {} /\ Buffered(p, c) = {<<t, i>>}
          \/ Applied(p, c) = {<<t, i>>} /\ Buffered(p, c) = {}

Settled(p, c) == IF target[c] = NotIssued THEN Nowhere(p, c) ELSE OnItsWay(p, c) \/ Delivered(p, c)

CommandsSettled == faults = 0 => \A p \in Peers \ rewound, c \in Commands : Settled(p, c)
-----------------------------------------------------------------------------
LEMMA PlacesMember ==
  ASSUME NEW lists, NEW ticks, NEW c, NEW x
  PROVE  x \in Places(lists, ticks, c) <=>
           \E t \in ticks : \E i \in DOMAIN lists[t] : lists[t][i] = c /\ x = <<t, i>>
  BY DEF Places

\* Scheduling a command puts it at the end of its tick's list, and moves no other.
\* Of two buffers, the second has command d more, at the end of tick t.
Gains(b, b2, t, d) == b2[t] = Append(b[t], d) /\ \A o \in Ticks : o # t => b2[o] = b[o]

LEMMA PlacesAppend ==
  ASSUME NEW b \in [Ticks -> Seq(Commands)], NEW T \in Ticks, NEW d \in Commands, NEW c \in Commands,
         NEW b2, Gains(b, b2, T, d)
  PROVE  Places(b2, Ticks, c)
           = Places(b, Ticks, c) \cup (IF c = d THEN {<<T, Len(b[T]) + 1>>} ELSE {})
<1> DEFINE n == Len(b[T])
<1>1. b[T] \in Seq(Commands) /\ n \in Nat /\ DOMAIN b[T] = 1 .. n
  BY LenProperties
<1>2. /\ Append(b[T], d) \in Seq(Commands) /\ DOMAIN Append(b[T], d) = 1 .. n + 1
      /\ \A i \in 1 .. n : Append(b[T], d)[i] = b[T][i]
      /\ Append(b[T], d)[n + 1] = d
  <2>1. Append(b[T], d) \in Seq(Commands) /\ Len(Append(b[T], d)) = n + 1
    BY <1>1, AppendProperties
  <2>2. DOMAIN Append(b[T], d) = 1 .. n + 1
    BY <2>1, LenProperties
  <2> QED BY <1>1, <2>1, <2>2, AppendProperties
<1>3. b2[T] = Append(b[T], d) /\ \A t \in Ticks : t # T => b2[t] = b[t]
  BY DEF Gains
<1> HIDE DEF n
<1>4. ASSUME NEW x \in Places(b2, Ticks, c)
      PROVE  x \in Places(b, Ticks, c) \/ (c = d /\ x = <<T, n + 1>>)
  <2>1. PICK t \in Ticks : \E i \in DOMAIN b2[t] : b2[t][i] = c /\ x = <<t, i>>
    BY PlacesMember
  <2>2. PICK i \in DOMAIN b2[t] : b2[t][i] = c /\ x = <<t, i>>
    BY <2>1
  <2>3. CASE t = T /\ i = n + 1
    BY <1>2, <1>3, <2>2, <2>3
  <2>4. CASE ~(t = T /\ i = n + 1)
    <3>1. i \in DOMAIN b[t] /\ b[t][i] = c
      BY <1>1, <1>2, <1>3, <2>2, <2>4
    <3> QED BY <2>2, <3>1, PlacesMember
  <2> QED BY <2>3, <2>4
<1>5. ASSUME NEW x \in Places(b, Ticks, c) PROVE x \in Places(b2, Ticks, c)
  <2>1. PICK t \in Ticks : \E i \in DOMAIN b[t] : b[t][i] = c /\ x = <<t, i>>
    BY PlacesMember
  <2>2. PICK i \in DOMAIN b[t] : b[t][i] = c /\ x = <<t, i>>
    BY <2>1
  <2>3. i \in DOMAIN b2[t] /\ b2[t][i] = c
    <3>1. CASE t = T
      <4>1. i \in 1 .. n /\ i \in 1 .. n + 1
        BY <1>1, <2>2, <3>1
      <4> QED BY <1>2, <1>3, <2>2, <3>1, <4>1
    <3>2. CASE t # T
      BY <1>3, <2>2, <3>2
    <3> QED BY <3>1, <3>2
  <2> QED BY <2>2, <2>3, PlacesMember
<1>6. ASSUME c = d PROVE <<T, n + 1>> \in Places(b2, Ticks, c)
  <2>1. n + 1 \in DOMAIN b2[T] /\ b2[T][n + 1] = c
    BY <1>1, <1>2, <1>3, <1>6
  <2> QED BY <2>1, PlacesMember
<1>7. Places(b2, Ticks, c) = Places(b, Ticks, c) \cup (IF c = d THEN {<<T, n + 1>>} ELSE {})
  BY <1>4, <1>5, <1>6
<1> QED BY <1>7 DEF n

\* What the first T ticks of match m took, by tick.
Past(m, T) == [t \in 0 .. T - 1 |-> m[t + 1]]

LEMMA PastMember ==
  ASSUME NEW m, NEW T \in Nat, NEW c, NEW x
  PROVE  x \in Places(Past(m, T), 0 .. T - 1, c) <=>
           \E t \in 0 .. T - 1 : \E i \in DOMAIN m[t + 1] : m[t + 1][i] = c /\ x = <<t, i>>
<1> DEFINE ticks == 0 .. T - 1
<1>1. \A t \in ticks : Past(m, T)[t] = m[t + 1]
  BY DEF Past
<1> HIDE DEF ticks
<1>2. x \in Places(Past(m, T), ticks, c) <=>
        \E t \in ticks : \E i \in DOMAIN Past(m, T)[t] : Past(m, T)[t][i] = c /\ x = <<t, i>>
  BY PlacesMember
<1>3. x \in Places(Past(m, T), ticks, c) <=> \E t \in ticks : \E i \in DOMAIN m[t + 1] : m[t + 1][i] = c /\ x = <<t, i>>
  BY <1>1, <1>2
<1> QED BY <1>3 DEF ticks

LEMMA AppliedIsPast ==
  /\ \A p, c : Applied(p, c) = Places(Past(match[p], Tick(p)), 0 .. Tick(p) - 1, c)
  /\ \A p, c : Applied(p, c)' = Places(Past(match'[p], Tick(p)'), 0 .. Tick(p)' - 1, c)
  BY DEF Applied, Past, Tick

\* A frame takes the commands of its ticks from the buffer, each to its tick.
LEMMA FramePlaces ==
  ASSUME LockstepTypes, LockstepTypes', NEW p \in Peers, NEW n \in 1 .. MaxSteps, Advance(p, n), NEW c \in Commands
  PROVE  /\ \A x : x \in Applied(p, c)' <=>
              x \in Applied(p, c) \/ (x \in Buffered(p, c) /\ x[1] \in Tick(p) .. Tick(p) + n - 1)
         /\ \A x : x \in Buffered(p, c)' <=>
              x \in Buffered(p, c) /\ x[1] \notin Tick(p) .. Tick(p) + n - 1
<1> DEFINE T == Tick(p)
           s == match'[p]
           b == buffer[p]
<1>1. /\ T \in Nat /\ n \in Nat /\ n >= 1 /\ T + n \in 1 .. MaxTick /\ Tick(p)' = T + n
      /\ \A k \in 1 .. T : s[k] = match[p][k]
      /\ \A k \in Int : T < k /\ k <= T + n => s[k] = b[k - 1]
  BY AdvanceExtends DEF Tick
<1>2. b \in [Ticks -> Seq(Commands)] /\ Ticks = 0 .. MaxTick + InputDelay /\ InputDelay \in Nat /\ MaxTick \in Nat
  BY TickType, Constants
<1>3. \A t \in Ticks : buffer'[p][t] = IF t \in T .. T + n - 1 THEN <<>> ELSE b[t]
  <2>1. buffer' = [buffer EXCEPT ![p] = Untaken(p, n)]
    BY DEF Advance
  <2>2. buffer'[p] = Untaken(p, n)
    BY <2>1 DEF LockstepTypes
  <2> QED BY <2>2 DEF Untaken
<1>4. \A x : x \in Applied(p, c) <=>
        \E t \in 0 .. T - 1 : \E i \in DOMAIN match[p][t + 1] : match[p][t + 1][i] = c /\ x = <<t, i>>
  <2>1. Applied(p, c) = Places(Past(match[p], T), 0 .. T - 1, c)
    BY AppliedIsPast
  <2> HIDE DEF T
  <2> QED BY <1>1, <2>1, PastMember
<1>5. \A x : x \in Applied(p, c)' <=>
        \E t \in 0 .. T + n - 1 : \E i \in DOMAIN s[t + 1] : s[t + 1][i] = c /\ x = <<t, i>>
  <2>1. Applied(p, c)' = Places(Past(s, T + n), 0 .. T + n - 1, c)
    BY <1>1, AppliedIsPast
  <2> DEFINE u == T + n
  <2>2. u \in Nat
    BY <1>1
  <2> HIDE DEF T, s, u
  <2>3. \A x : x \in Places(Past(s, u), 0 .. u - 1, c) <=>
          \E t \in 0 .. u - 1 : \E i \in DOMAIN s[t + 1] : s[t + 1][i] = c /\ x = <<t, i>>
    BY <2>2, PastMember
  <2>4. u - 1 = T + n - 1
    BY <1>1 DEF u
  <2> QED BY <2>1, <2>3, <2>4 DEF u
<1>6. \A x : x \in Buffered(p, c) <=> \E t \in Ticks : \E i \in DOMAIN b[t] : b[t][i] = c /\ x = <<t, i>>
  BY PlacesMember DEF Buffered
<1>7. \A x : x \in Buffered(p, c)' <=>
        \E t \in Ticks : \E i \in DOMAIN buffer'[p][t] : buffer'[p][t][i] = c /\ x = <<t, i>>
  BY PlacesMember DEF Buffered
<1> HIDE DEF T, s, b
<1>8. \A t \in 0 .. T - 1 : s[t + 1] = match[p][t + 1]
  BY <1>1
<1>9. \A t \in T .. T + n - 1 : t \in Ticks /\ s[t + 1] = b[t]
  <2> TAKE t \in T .. T + n - 1
  <2>1. t + 1 \in Int /\ T < t + 1 /\ t + 1 <= T + n /\ t + 1 - 1 = t /\ t \in Ticks
    BY <1>1, <1>2
  <2> QED BY <1>1, <2>1
<1>10. \A t : t \in 0 .. T + n - 1 <=> t \in 0 .. T - 1 \/ t \in T .. T + n - 1
  BY <1>1
<1>11. ASSUME NEW x
       PROVE  x \in Applied(p, c)' <=> x \in Applied(p, c) \/ (x \in Buffered(p, c) /\ x[1] \in T .. T + n - 1)
  <2>1. x \in Applied(p, c)' => x \in Applied(p, c) \/ (x \in Buffered(p, c) /\ x[1] \in T .. T + n - 1)
    <3> SUFFICES ASSUME x \in Applied(p, c)'
                 PROVE  x \in Applied(p, c) \/ (x \in Buffered(p, c) /\ x[1] \in T .. T + n - 1)
      OBVIOUS
    <3>1. PICK t \in 0 .. T + n - 1 : \E i \in DOMAIN s[t + 1] : s[t + 1][i] = c /\ x = <<t, i>>
      BY <1>5
    <3>2. CASE t \in 0 .. T - 1
      BY <1>4, <1>8, <3>1, <3>2
    <3>3. CASE t \in T .. T + n - 1
      <4>1. t \in Ticks /\ s[t + 1] = b[t] /\ x[1] = t
        BY <1>9, <3>1, <3>3
      <4> QED BY <1>6, <3>1, <3>3, <4>1
    <3> QED BY <1>10, <3>1, <3>2, <3>3
  <2>2. x \in Applied(p, c) => x \in Applied(p, c)'
    <3> SUFFICES ASSUME x \in Applied(p, c) PROVE x \in Applied(p, c)'
      OBVIOUS
    <3>1. PICK t \in 0 .. T - 1 : \E i \in DOMAIN match[p][t + 1] : match[p][t + 1][i] = c /\ x = <<t, i>>
      BY <1>4
    <3>2. t \in 0 .. T + n - 1 /\ s[t + 1] = match[p][t + 1]
      BY <1>8, <1>10
    <3> QED BY <1>5, <3>1, <3>2
  <2>3. x \in Buffered(p, c) /\ x[1] \in T .. T + n - 1 => x \in Applied(p, c)'
    <3> SUFFICES ASSUME x \in Buffered(p, c), x[1] \in T .. T + n - 1 PROVE x \in Applied(p, c)'
      OBVIOUS
    <3>1. PICK t \in Ticks : \E i \in DOMAIN b[t] : b[t][i] = c /\ x = <<t, i>>
      BY <1>6
    <3>2. x[1] = t
      BY <3>1
    <3>3. t \in 0 .. T + n - 1 /\ s[t + 1] = b[t]
      BY <1>9, <1>10, <3>2
    <3> QED BY <1>5, <3>1, <3>3
  <2> QED BY <2>1, <2>2, <2>3
<1>12. ASSUME NEW x
       PROVE  x \in Buffered(p, c)' <=> x \in Buffered(p, c) /\ x[1] \notin T .. T + n - 1
  <2>1. x \in Buffered(p, c)' => x \in Buffered(p, c) /\ x[1] \notin T .. T + n - 1
    <3> SUFFICES ASSUME x \in Buffered(p, c)' PROVE x \in Buffered(p, c) /\ x[1] \notin T .. T + n - 1
      OBVIOUS
    <3>1. PICK t \in Ticks : \E i \in DOMAIN buffer'[p][t] : buffer'[p][t][i] = c /\ x = <<t, i>>
      BY <1>7
    <3>2. x[1] = t
      BY <3>1
    <3>3. t \notin T .. T + n - 1
      BY <1>3, <3>1
    <3>4. buffer'[p][t] = b[t]
      BY <1>3, <3>3
    <3> QED BY <1>6, <3>1, <3>2, <3>3, <3>4
  <2>2. x \in Buffered(p, c) /\ x[1] \notin T .. T + n - 1 => x \in Buffered(p, c)'
    <3> SUFFICES ASSUME x \in Buffered(p, c), x[1] \notin T .. T + n - 1 PROVE x \in Buffered(p, c)'
      OBVIOUS
    <3>1. PICK t \in Ticks : \E i \in DOMAIN b[t] : b[t][i] = c /\ x = <<t, i>>
      BY <1>6
    <3>2. x[1] = t
      BY <3>1
    <3>3. buffer'[p][t] = b[t]
      BY <1>3, <3>2
    <3> QED BY <1>7, <3>1, <3>3
  <2> QED BY <2>1, <2>2
<1> QED BY <1>11, <1>12 DEF T
-----------------------------------------------------------------------------
\* What a step does to the commands on their way to a peer.
LEMMA InboundShift ==
  ASSUME LockstepTypes, NEW p \in Peers, inbox[p] # <<>>, inbox' = [inbox EXCEPT ![p] = Tail(@)], NEW c
  PROVE  \A i : i \in Inbound(p, c)' <=> i \in Nat \ {0} /\ i + 1 \in Inbound(p, c)
<1>1. /\ DOMAIN inbox[p] = 1 .. Len(inbox[p]) /\ Len(inbox[p]) \in Nat \ {0}
      /\ DOMAIN inbox'[p] = 1 .. Len(inbox[p]) - 1
      /\ \A i \in DOMAIN inbox'[p] : i + 1 \in DOMAIN inbox[p] /\ inbox'[p][i] = inbox[p][i + 1]
  BY InboxShift
<1>2. \A i : i \in Inbound(p, c) <=>
        i \in DOMAIN inbox[p] /\ inbox[p][i].type = "RTS_COMMAND" /\ inbox[p][i].command = c
  BY DEF Inbound
<1>3. \A i : i \in Inbound(p, c)' <=>
        i \in DOMAIN inbox'[p] /\ inbox'[p][i].type = "RTS_COMMAND" /\ inbox'[p][i].command = c
  BY DEF Inbound
<1>4. ASSUME NEW i \in Nat \ {0}, i + 1 \in DOMAIN inbox[p] PROVE i \in DOMAIN inbox'[p]
  BY <1>1, <1>4
<1>5. \A i : i \in DOMAIN inbox'[p] => i \in Nat \ {0}
  BY <1>1
<1> QED BY <1>1, <1>2, <1>3, <1>4, <1>5

LEMMA SameTimeline ==
  ASSUME NEW p \in Peers, match'[p] = match[p], buffer'[p] = buffer[p], NEW c
  PROVE  Applied(p, c)' = Applied(p, c) /\ Buffered(p, c)' = Buffered(p, c)
<1>1. Tick(p)' = Tick(p)
  BY DEF Tick
<1>2. Applied(p, c)' = Applied(p, c)
  BY <1>1, AppliedIsPast
<1> QED BY <1>2 DEF Buffered

\* Nothing about a command changes for a peer.
LEMMA SameSettled ==
  ASSUME NEW p, NEW c, Settled(p, c),
         Applied(p, c)' = Applied(p, c), Buffered(p, c)' = Buffered(p, c),
         Relayed(p, c)' = Relayed(p, c), Inbound(p, c)' = Inbound(p, c),
         (<<p, c>> \in late)' <=> (<<p, c>> \in late), target'[c] = target[c]
  PROVE  Settled(p, c)'
  BY DEF Settled, Nowhere, OnItsWay, Delivered, InTime

LEMMA IssueSettles ==
  ASSUME LockstepTypes, LockstepTypes', Undisturbed, LateIssued, faults = 0,
         NEW q \in Peers, NEW d \in Commands, IssueCommand(q, d),
         NEW p \in Peers, NEW c \in Commands, Settled(p, c)
  PROVE  Settled(p, c)'
<1> DEFINE tick == Tick(q) + InputDelay
           r == [from |-> q, msg |-> CommandMsg(tick, d)]
<1>1. /\ target[d] = NotIssued /\ Schedule(q, tick, d) /\ Publish(q, {CommandMsg(tick, d)})
      /\ target' = [target EXCEPT ![d] = tick]
      /\ UNCHANGED <<match, inbox, late>>
  BY DEF IssueCommand
<1>2. tick \in Ticks /\ tick # NotIssued /\ LaterOf(tick, Tick(q)) = tick
  BY TickType, Constants DEF NotIssued, LaterOf
<1>3. relay' = relay \cup {r}
  BY <1>1 DEF Undisturbed, Publish
<1> HIDE DEF tick
<1>4. r.from = q /\ r.msg.type = "RTS_COMMAND" /\ r.msg.command = d
  BY DEF CommandMsg
<1> HIDE DEF r
<1>5. Relayed(p, c)' = Relayed(p, c) \cup (IF c = d /\ p # q THEN {r} ELSE {})
  BY <1>3, <1>4 DEF Relayed
<1>6. Inbound(p, c)' = Inbound(p, c) /\ ((<<p, c>> \in late)' <=> (<<p, c>> \in late))
  BY <1>1 DEF Inbound
<1>7. target'[c] = IF c = d THEN tick ELSE target[c]
  BY <1>1 DEF LockstepTypes
<1>8. Applied(p, c)' = Applied(p, c)
  BY <1>1, AppliedIsPast DEF Tick
<1>9. buffer'[q] = [buffer[q] EXCEPT ![tick] = Append(@, d)] /\ (p # q => buffer'[p] = buffer[p])
  BY <1>1, <1>2, ScheduleTypes
<1>10. Buffered(p, c)' = Buffered(p, c) \cup (IF c = d /\ p = q THEN {<<tick, Len(buffer[q][tick]) + 1>>} ELSE {})
  <2>1. CASE p = q
    <3>1. buffer[q] \in [Ticks -> Seq(Commands)]
      BY TickType
    <3> DEFINE b == buffer[q]
               b2 == buffer'[q]
    <3>2. b \in [Ticks -> Seq(Commands)] /\ Gains(b, b2, tick, d)
      BY <1>2, <1>9, <3>1 DEF Gains
    <3> HIDE DEF b, b2
    <3>3. Places(b2, Ticks, c) = Places(b, Ticks, c) \cup (IF c = d THEN {<<tick, Len(b[tick]) + 1>>} ELSE {})
      BY <1>2, <3>2, PlacesAppend
    <3> QED BY <2>1, <3>3 DEF Buffered, b, b2
  <2>2. CASE p # q
    BY <1>9, <2>2 DEF Buffered
  <2> QED BY <2>1, <2>2
<1>11. CASE c # d
  BY <1>5, <1>6, <1>7, <1>8, <1>10, <1>11, SameSettled
<1>12. CASE c = d
  <2>1. Nowhere(p, c) /\ <<p, c>> \notin late
    BY <1>1, <1>12 DEF Settled, LateIssued
  <2>2. target'[c] = tick /\ <<p, c>> \notin late' /\ Applied(p, c)' = {} /\ Inbound(p, c)' = {}
    BY <1>6, <1>7, <1>8, <1>12, <2>1 DEF Nowhere
  <2>3. CASE p = q
    <3>1. Len(buffer[q][tick]) + 1 \in Nat
      <4>1. buffer[q][tick] \in Seq(Commands)
        BY <1>2, TickType
      <4> QED BY <4>1, LenProperties
    <3>2. PICK t \in Ticks, i \in Nat : t = tick /\ i = Len(buffer[q][tick]) + 1
      BY <1>2, <3>1
    <3>3. Relayed(p, c)' = {} /\ Buffered(p, c)' = {<<t, i>>}
      BY <1>5, <1>10, <1>12, <2>1, <2>3, <3>2 DEF Nowhere
    <3>4. InTime(p, c, t)'
      BY <2>2, <3>2 DEF InTime
    <3>5. Delivered(p, c)'
      BY <2>2, <3>3, <3>4 DEF Delivered
    <3> QED BY <1>2, <2>2, <3>5 DEF Settled
  <2>4. CASE p # q
    <3>1. Relayed(p, c)' = {r} /\ Buffered(p, c)' = {}
      BY <1>5, <1>10, <1>12, <2>1, <2>4 DEF Nowhere
    <3>2. OnItsWay(p, c)'
      BY <2>2, <3>1 DEF OnItsWay
    <3> QED BY <1>2, <2>2, <3>2 DEF Settled
  <2> QED BY <2>3, <2>4
<1> QED BY <1>11, <1>12

LEMMA AdvanceSettles ==
  ASSUME LockstepTypes, LockstepTypes', NEW q \in Peers, NEW n \in 1 .. MaxSteps, Advance(q, n),
         NEW p \in Peers, NEW c \in Commands, Settled(p, c)
  PROVE  Settled(p, c)'
<1>1. UNCHANGED <<inbox, target, late>>
  BY DEF Advance, history
<1>2. Inbound(p, c)' = Inbound(p, c) /\ target'[c] = target[c] /\ ((<<p, c>> \in late)' <=> (<<p, c>> \in late))
  BY <1>1 DEF Inbound
<1>3. Relayed(p, c)' = Relayed(p, c)
  <2> DEFINE s == match[q] \o Taken(q, n)
  <2>1. relay' = relay \/ relay' = relay \cup [from : {q}, msg : Reports(q, s)]
    BY DEF Advance, Publish
  <2>2. \A m \in Reports(q, s) : m = HashMsg(Len(s), s) \/ m = SnapshotMsg(s)
    BY DEF Reports
  <2>3. HashMsg(Len(s), s).type # "RTS_COMMAND" /\ SnapshotMsg(s).type # "RTS_COMMAND"
    BY DEF HashMsg, SnapshotMsg
  <2> HIDE DEF s
  <2>4. \A r \in [from : {q}, msg : Reports(q, s)] : r.msg.type # "RTS_COMMAND"
    BY <2>2, <2>3
  <2> QED BY <2>1, <2>4 DEF Relayed
<1>4. CASE p # q
  <2>1. match'[p] = match[p] /\ buffer'[p] = buffer[p]
    BY <1>4 DEF Advance, LockstepTypes
  <2>2. Applied(p, c)' = Applied(p, c) /\ Buffered(p, c)' = Buffered(p, c)
    BY <2>1, SameTimeline
  <2> QED BY <1>2, <1>3, <2>2, SameSettled
<1>5. CASE p = q
  <2> DEFINE W == Tick(p) .. Tick(p) + n - 1
  <2>1. /\ \A x : x \in Applied(p, c)' <=> x \in Applied(p, c) \/ (x \in Buffered(p, c) /\ x[1] \in W)
        /\ \A x : x \in Buffered(p, c)' <=> x \in Buffered(p, c) /\ x[1] \notin W
    BY <1>5, FramePlaces
  <2> HIDE DEF W
  <2>2. ASSUME Buffered(p, c) = {} PROVE Applied(p, c)' = Applied(p, c) /\ Buffered(p, c)' = Buffered(p, c)
    BY <2>1, <2>2
  <2>3. CASE Buffered(p, c) = {}
    BY <1>2, <1>3, <2>2, <2>3, SameSettled
  <2>4. CASE Buffered(p, c) # {}
    <3>1. target[c] # NotIssued /\ Delivered(p, c)
      BY <2>4 DEF Settled, Nowhere, OnItsWay
    <3>2. PICK t \in Ticks, i \in Nat :
                 InTime(p, c, t) /\ Applied(p, c) = {} /\ Buffered(p, c) = {<<t, i>>}
      BY <2>4, <3>1 DEF Delivered
    <3> DEFINE x == <<t, i>>
    <3>3. x[1] = t
      OBVIOUS
    <3> HIDE DEF x
    <3>4. Applied(p, c) = {} /\ Buffered(p, c) = {x}
      BY <3>2 DEF x
    <3>5. \/ Applied(p, c)' = {} /\ Buffered(p, c)' = {x}
          \/ Applied(p, c)' = {x} /\ Buffered(p, c)' = {}
      <4>1. CASE x[1] \in W
        BY <2>1, <3>4, <4>1
      <4>2. CASE x[1] \notin W
        BY <2>1, <3>4, <4>2
      <4> QED BY <4>1, <4>2
    <3>6. InTime(p, c, t)'
      BY <1>2, <3>2 DEF InTime
    <3>7. Relayed(p, c)' = {} /\ Inbound(p, c)' = {}
      BY <1>2, <1>3, <3>1 DEF Delivered
    <3>8. Delivered(p, c)'
      BY <3>5, <3>6, <3>7 DEF Delivered, x
    <3> QED BY <1>2, <3>1, <3>8 DEF Settled
  <2> QED BY <2>3, <2>4
<1> QED BY <1>4, <1>5

LEMMA RelaySettles ==
  ASSUME LockstepTypes, Undisturbed, faults = 0, NEW r \in relay, Relay(r),
         NEW p \in Peers, NEW c \in Commands, Settled(p, c)
  PROVE  Settled(p, c)'
<1>1. UNCHANGED <<match, buffer, target, late>> /\ relay' = relay \ {r}
  BY DEF Relay, storeVars, history
<1>2. Applied(p, c)' = Applied(p, c) /\ Buffered(p, c)' = Buffered(p, c)
  BY <1>1, SameTimeline
<1>3. Relayed(p, c)' = Relayed(p, c) \ {r}
  BY <1>1 DEF Relayed
<1>4. r \in Relayed(p, c) <=> p # r.from /\ r.msg.type = "RTS_COMMAND" /\ r.msg.command = c
  BY DEF Relayed
<1>5. Inbound(p, c)' = Inbound(p, c) \cup (IF r \in Relayed(p, c) THEN {Len(inbox[p]) + 1} ELSE {})
  <2>1. CASE p # r.from
    <3> DEFINE n == Len(inbox[p])
    <3>1. /\ DOMAIN inbox[p] = 1 .. n /\ n \in Nat
          /\ DOMAIN inbox'[p] = 1 .. n + 1
          /\ \A i \in 1 .. n : inbox'[p][i] = inbox[p][i]
          /\ inbox'[p][n + 1] = r.msg
      BY <2>1, InboxGrows DEF Undisturbed
    <3> HIDE DEF n
    <3>2. 1 .. n + 1 = 1 .. n \cup {n + 1} /\ n + 1 \notin 1 .. n
      BY <3>1
    <3>3. \A i : i \in Inbound(p, c)' <=>
            (i \in 1 .. n \/ i = n + 1) /\ inbox'[p][i].type = "RTS_COMMAND" /\ inbox'[p][i].command = c
      BY <3>1, <3>2 DEF Inbound
    <3>4. \A i : i \in Inbound(p, c) <=>
            i \in 1 .. n /\ inbox[p][i].type = "RTS_COMMAND" /\ inbox[p][i].command = c
      BY <3>1 DEF Inbound
    <3>5. \A i : i \in Inbound(p, c)' <=> i \in Inbound(p, c) \/ (i = n + 1 /\ r \in Relayed(p, c))
      <4> TAKE i
      <4>1. CASE i = n + 1
        <5>1. i \in Inbound(p, c)' <=> r \in Relayed(p, c)
          BY <1>4, <2>1, <3>1, <3>3, <4>1
        <5>2. i \notin Inbound(p, c)
          BY <3>2, <3>4, <4>1
        <5> QED BY <4>1, <5>1, <5>2
      <4>2. CASE i # n + 1
        BY <3>1, <3>3, <3>4, <4>2
      <4> QED BY <4>1, <4>2
    <3> QED BY <3>5 DEF n
  <2>2. CASE p = r.from
    BY <1>4, <2>2, InboxGrows DEF Inbound
  <2> QED BY <2>1, <2>2
<1>6. target'[c] = target[c] /\ ((<<p, c>> \in late)' <=> (<<p, c>> \in late))
  BY <1>1
<1>7. CASE r \notin Relayed(p, c)
  BY <1>2, <1>3, <1>5, <1>6, <1>7, SameSettled
<1>8. CASE r \in Relayed(p, c)
  <2>1. target[c] # NotIssued /\ OnItsWay(p, c)
    BY <1>8 DEF Settled, Nowhere, Delivered
  <2>2. Inbound(p, c) = {} /\ Relayed(p, c) = {r}
    BY <1>8, <2>1 DEF OnItsWay
  <2>3. Relayed(p, c)' = {} /\ Inbound(p, c)' = {Len(inbox[p]) + 1}
    BY <1>3, <1>5, <1>8, <2>2
  <2>4. OnItsWay(p, c)'
    BY <1>2, <1>6, <2>1, <2>3 DEF OnItsWay
  <2> QED BY <1>6, <2>1, <2>4 DEF Settled
<1> QED BY <1>7, <1>8
LEMMA ShiftSettles ==
  ASSUME LockstepTypes, NEW p \in Peers, NEW c \in Commands, Settled(p, c),
         inbox[p] # <<>>, inbox' = [inbox EXCEPT ![p] = Tail(@)], 1 \notin Inbound(p, c),
         Applied(p, c)' = Applied(p, c), Buffered(p, c)' = Buffered(p, c), Relayed(p, c)' = Relayed(p, c),
         (<<p, c>> \in late)' <=> (<<p, c>> \in late), target'[c] = target[c]
  PROVE  Settled(p, c)'
<1>1. \A i : i \in Inbound(p, c)' <=> i \in Nat \ {0} /\ i + 1 \in Inbound(p, c)
  BY InboundShift
<1>2. CASE Inbound(p, c) = {}
  <2>1. Inbound(p, c)' = Inbound(p, c)
    BY <1>1, <1>2
  <2> QED BY <2>1, SameSettled
<1>3. CASE Inbound(p, c) # {}
  <2>1. target[c] # NotIssued /\ OnItsWay(p, c)
    BY <1>3 DEF Settled, Nowhere, Delivered
  <2>2. PICK i : Inbound(p, c) = {i}
    BY <1>3, <2>1 DEF OnItsWay
  <2>3. i \in Nat \ {0}
    <3>1. i \in DOMAIN inbox[p]
      BY <2>2 DEF Inbound
    <3>2. DOMAIN inbox[p] = 1 .. Len(inbox[p]) /\ Len(inbox[p]) \in Nat
      BY TickType, LenProperties
    <3> QED BY <3>1, <3>2
  <2>4. i - 1 \in Nat \ {0} /\ (i - 1) + 1 = i /\ \A j \in Nat : j + 1 = i => j = i - 1
    BY <2>2, <2>3
  <2>5. Inbound(p, c)' = {i - 1}
    BY <1>1, <2>2, <2>4
  <2>6. OnItsWay(p, c)'
    BY <1>3, <2>1, <2>5 DEF OnItsWay
  <2> QED BY <2>1, <2>6 DEF Settled
<1> QED BY <1>2, <1>3

\* The command at the front of a peer's inbox goes into its buffer.
LEMMA CommandSettles ==
  ASSUME LockstepTypes, NEW p \in Peers, NEW c \in Commands, Settled(p, c), 1 \in Inbound(p, c),
         inbox[p] # <<>>, inbox' = [inbox EXCEPT ![p] = Tail(@)], UNCHANGED <<match, relay, target>>,
         NEW tick \in Ticks, tick = target[c], Schedule(p, tick, c),
         late' = IF tick < Tick(p) THEN late \cup {<<p, c>>} ELSE late
  PROVE  Settled(p, c)'
<1> DEFINE T == LaterOf(tick, Tick(p))
           b == buffer[p]
           b2 == buffer'[p]
<1>1. target[c] # NotIssued /\ OnItsWay(p, c)
  BY DEF Settled, Nowhere, Delivered
<1>2. Inbound(p, c) = {1} /\ Relayed(p, c) = {} /\ Applied(p, c) = {} /\ Buffered(p, c) = {} /\ <<p, c>> \notin late
  BY <1>1 DEF OnItsWay
<1>3. Inbound(p, c)' = {}
  <2>1. \A i : i \in Inbound(p, c)' <=> i \in Nat \ {0} /\ i + 1 \in Inbound(p, c)
    BY InboundShift
  <2>2. \A i \in Nat \ {0} : i + 1 # 1
    OBVIOUS
  <2> QED BY <1>2, <2>1, <2>2
<1>4. Relayed(p, c)' = {}
  BY <1>2 DEF Relayed
<1>5. Applied(p, c)' = {}
  BY <1>2, AppliedIsPast DEF Tick
<1>6. T \in Ticks /\ Gains(b, b2, T, c)
  BY ScheduleAppends DEF Gains
<1>7. IF tick < Tick(p) THEN T > tick ELSE T = tick
  BY TickType, Constants DEF LaterOf
<1>8. Buffered(p, c) = Places(b, Ticks, c) /\ Buffered(p, c)' = Places(b2, Ticks, c)
  BY DEF Buffered
<1>9. IF <<p, c>> \in late' THEN T > target'[c] ELSE T = target'[c]
  <2>1. <<p, c>> \in late' <=> tick < Tick(p)
    BY <1>2
  <2> HIDE DEF T
  <2> QED BY <1>7, <2>1
<1> HIDE DEF T, b, b2
<1>10. b \in [Ticks -> Seq(Commands)]
  BY TickType DEF b
<1>11. Places(b2, Ticks, c) = Places(b, Ticks, c) \cup {<<T, Len(b[T]) + 1>>}
  BY <1>6, <1>10, PlacesAppend
<1>12. Len(b[T]) + 1 \in Nat
  <2>1. b[T] \in Seq(Commands)
    BY <1>6, <1>10
  <2> QED BY <2>1, LenProperties
<1>13. PICK t \in Ticks, i \in Nat : t = T /\ i = Len(b[T]) + 1
  BY <1>6, <1>12
<1>14. Buffered(p, c)' = {<<t, i>>}
  BY <1>2, <1>8, <1>11, <1>13
<1>15. InTime(p, c, t)'
  BY <1>9, <1>13 DEF InTime
<1>16. Delivered(p, c)'
  BY <1>3, <1>4, <1>5, <1>14, <1>15 DEF Delivered
<1> QED BY <1>1, <1>16 DEF Settled

LEMMA ReceiveSettles ==
  ASSUME LockstepTypes, LockstepTypes', StartsOnce, MessagesAreSound, Undisturbed, faults = 0,
         NEW q \in Peers, Receive(q), NEW p \in Peers \ rewound', NEW c \in Commands, Settled(p, c)
  PROVE  Settled(p, c)'
<1> DEFINE m == Head(inbox[q])
<1>1. /\ inbox[q] # <<>> /\ inbox' = [inbox EXCEPT ![q] = Tail(@)]
      /\ relay' = relay
  BY DEF Receive
<1>2. Relayed(p, c)' = Relayed(p, c)
  BY <1>1 DEF Relayed
<1>3. m \in Message /\ m \in InFlight
  BY HeadInFlight
<1>4. m = inbox[q][1] /\ 1 \in DOMAIN inbox[q]
  BY <1>1, InboxShift
<1>5. 1 \in Inbound(q, c) <=> m.type = "RTS_COMMAND" /\ m.command = c
  BY <1>4 DEF Inbound
<1> HIDE DEF m
<1>6. CASE p # q
  <2>1. match'[p] = match[p] /\ buffer'[p] = buffer[p]
    <3>1. CASE ReceiveStart(q)
      BY <1>6, <3>1 DEF ReceiveStart, LockstepTypes
    <3>2. CASE ReceiveCommand(q, m)
      BY <1>6, <3>2 DEF ReceiveCommand, Schedule, LockstepTypes
    <3>3. CASE ReceiveHash(q, m)
      BY <3>3 DEF ReceiveHash
    <3>4. CASE ReceiveSnapshot(q, m)
      BY <1>6, <3>4 DEF ReceiveSnapshot, LockstepTypes
    <3> QED BY <3>1, <3>2, <3>3, <3>4 DEF Receive, m
  <2>2. target'[c] = target[c] /\ ((<<p, c>> \in late)' <=> (<<p, c>> \in late))
    <3>1. CASE ReceiveStart(q)
      BY <3>1 DEF ReceiveStart, history
    <3>2. CASE ReceiveCommand(q, m)
      <4>1. UNCHANGED target /\ (late' = late \/ late' = late \cup {<<q, m.command>>})
        BY <3>2 DEF ReceiveCommand
      <4> QED BY <1>6, <4>1
    <3>3. CASE ReceiveHash(q, m)
      BY <3>3 DEF ReceiveHash, history
    <3>4. CASE ReceiveSnapshot(q, m)
      BY <3>4 DEF ReceiveSnapshot
    <3> QED BY <3>1, <3>2, <3>3, <3>4 DEF Receive, m
  <2>3. Inbound(p, c)' = Inbound(p, c)
    BY <1>1, <1>6, InboxShift DEF Inbound
  <2>4. Applied(p, c)' = Applied(p, c) /\ Buffered(p, c)' = Buffered(p, c)
    BY <2>1, SameTimeline
  <2> QED BY <1>2, <2>2, <2>3, <2>4, SameSettled
<1>7. CASE p = q
  <2>1. CASE m.type = "RTS_MATCH_START" /\ ReceiveStart(p)
    <3>1. ~playing[p]
      BY <1>4, <1>7, <2>1 DEF StartsOnce
    <3>2. match'[p] = match[p]
      BY <2>1, <3>1 DEF StartsOnce, ReceiveStart, LockstepTypes
    <3>3. buffer'[p] = buffer[p]
      <4>1. buffer'[p] = [t \in Ticks |-> <<>>]
        BY <2>1 DEF ReceiveStart, LockstepTypes
      <4>2. \A t \in Ticks : buffer[p][t] = <<>>
        BY <3>1 DEF StartsOnce
      <4>3. buffer[p] \in [Ticks -> Seq(Commands)]
        BY TickType
      <4> QED BY <4>1, <4>2, <4>3
    <3>4. UNCHANGED <<target, late>>
      BY <2>1 DEF ReceiveStart, history
    <3> QED BY <1>1, <1>2, <1>5, <1>7, <2>1, <3>2, <3>3, <3>4, SameTimeline, ShiftSettles
  <2>2. CASE m.type = "RTS_STATE_HASH" /\ ReceiveHash(p, m)
    <3>1. UNCHANGED <<match, buffer, target, late>>
      BY <2>2 DEF ReceiveHash, history
    <3> QED BY <1>1, <1>2, <1>5, <1>7, <2>2, <3>1, SameTimeline, ShiftSettles
  <2>3. CASE m.type = "RTS_SNAPSHOT" /\ ReceiveSnapshot(p, m)
    BY <2>3 DEF ReceiveSnapshot
  <2>4. CASE m.type = "RTS_COMMAND" /\ ReceiveCommand(p, m)
    <3>1. playing[p]
      BY <1>4, <1>7, <2>4 DEF Undisturbed
    <3>2. m.tick \in Ticks /\ m.command \in Commands /\ m.tick = target[m.command]
      BY <1>3, <2>4, MessageFields DEF MessagesAreSound, Sound
    <3>3. /\ Schedule(p, m.tick, m.command) /\ UNCHANGED <<match, target>>
          /\ late' = IF m.tick < Tick(p) THEN late \cup {<<p, m.command>>} ELSE late
      BY <2>4, <3>1 DEF ReceiveCommand
    <3>4. CASE m.command = c
      BY <1>1, <1>5, <1>7, <2>4, <3>2, <3>3, <3>4, CommandSettles
    <3>5. CASE m.command # c
      <4> DEFINE T == LaterOf(m.tick, Tick(p))
                 b == buffer[p]
                 b2 == buffer'[p]
      <4>1. T \in Ticks /\ Gains(b, b2, T, m.command)
        BY <3>2, <3>3, ScheduleAppends DEF Gains
      <4>2. Buffered(p, c) = Places(b, Ticks, c) /\ Buffered(p, c)' = Places(b2, Ticks, c)
        BY DEF Buffered
      <4> HIDE DEF T, b, b2
      <4>3. b \in [Ticks -> Seq(Commands)]
        BY TickType DEF b
      <4>4. Places(b2, Ticks, c) = Places(b, Ticks, c) \cup (IF c = m.command THEN {<<T, Len(b[T]) + 1>>} ELSE {})
        BY <3>2, <4>1, <4>3, PlacesAppend
      <4>5. Buffered(p, c)' = Buffered(p, c)
        BY <3>5, <4>2, <4>4
      <4>6. Applied(p, c)' = Applied(p, c)
        BY <3>3, AppliedIsPast DEF Tick
      <4>7. (<<p, c>> \in late)' <=> (<<p, c>> \in late)
        BY <3>3, <3>5
      <4> QED BY <1>1, <1>2, <1>5, <1>7, <3>3, <3>5, <4>5, <4>6, <4>7, ShiftSettles
    <3> QED BY <3>4, <3>5
  <2> QED BY <1>7, <2>1, <2>2, <2>3, <2>4 DEF Receive, m
<1> QED BY <1>6, <1>7

LEMMA CommandsStep ==
  ASSUME LockstepTypes, LockstepTypes', StartsOnce, HostLeads, MessagesAreSound, Undisturbed, LateIssued,
         CommandsSettled, [LockstepNext]_lockstepVars
  PROVE  CommandsSettled'
<1> SUFFICES ASSUME faults' = 0, NEW p \in Peers \ rewound', NEW c \in Commands PROVE Settled(p, c)'
  BY DEF CommandsSettled
<1>1. p \in Peers /\ p \notin rewound
  BY MatchesGrow
<1>2. CASE UNCHANGED <<storeVars, relay, inbox, history, faults>>
  <2>1. Settled(p, c)
    BY <1>1, <1>2 DEF CommandsSettled
  <2>2. Applied(p, c)' = Applied(p, c) /\ Buffered(p, c)' = Buffered(p, c)
    BY <1>1, <1>2, SameTimeline DEF storeVars
  <2>3. Relayed(p, c)' = Relayed(p, c) /\ Inbound(p, c)' = Inbound(p, c)
    BY <1>2 DEF Relayed, Inbound
  <2>4. target'[c] = target[c] /\ ((<<p, c>> \in late)' <=> (<<p, c>> \in late))
    BY <1>2 DEF history
  <2> QED BY <2>1, <2>2, <2>3, <2>4, SameSettled
<1>3. ASSUME UNCHANGED faults PROVE faults = 0 /\ Settled(p, c)
  BY <1>1, <1>3 DEF CommandsSettled
<1>4. ASSUME NEW q \in Peers, NEW d \in Commands, IssueCommand(q, d) PROVE Settled(p, c)'
  <2>1. UNCHANGED faults
    BY <1>4 DEF IssueCommand
  <2> QED BY <1>1, <1>3, <1>4, <2>1, IssueSettles
<1>5. ASSUME NEW q \in Peers, NEW n \in 1 .. MaxSteps, Advance(q, n) PROVE Settled(p, c)'
  <2>1. UNCHANGED faults
    BY <1>5 DEF Advance
  <2> QED BY <1>1, <1>3, <1>5, <2>1, AdvanceSettles
<1>6. ASSUME NEW q \in Peers, Receive(q) PROVE Settled(p, c)'
  <2>1. UNCHANGED faults
    BY <1>6 DEF Receive
  <2> QED BY <1>3, <1>6, <2>1, ReceiveSettles
<1>7. ASSUME NEW r \in relay, Relay(r) PROVE Settled(p, c)'
  <2>1. UNCHANGED faults
    BY <1>7 DEF Relay
  <2> QED BY <1>1, <1>3, <1>7, <2>1, RelaySettles
<1>8. ASSUME (\E r \in relay : Drop(r)) \/ \E q \in Peers : Disconnect(q) PROVE FALSE
  <2>1. faults' = faults + 1
    BY <1>8 DEF Drop, Disconnect
  <2>2. faults \in Nat
    BY Constants DEF LockstepTypes
  <2> QED BY <2>1, <2>2
<1>9. ASSUME NEW q \in Peers, Reconnect(q) PROVE Settled(p, c)'
  BY <1>2, <1>9 DEF Reconnect
<1>10. CASE UNCHANGED lockstepVars
  BY <1>2, <1>10 DEF lockstepVars, netVars
<1> QED BY <1>4, <1>5, <1>6, <1>7, <1>8, <1>9, <1>10 DEF LockstepNext

LEMMA UndisturbedStep ==
  ASSUME LockstepTypes, LockstepTypes', StartsOnce, Undisturbed, [LockstepNext]_lockstepVars
  PROVE  Undisturbed'
<1> SUFFICES ASSUME faults' = 0, NEW p \in Peers
             PROVE  /\ connected'[p]
                    /\ playing'[p] \/ (inbox'[p] # <<>> /\ inbox'[p][1].type = "RTS_MATCH_START")
  BY DEF Undisturbed
<1>1. CASE UNCHANGED <<playing, connected, inbox, faults>>
  BY <1>1 DEF Undisturbed
<1>2. ASSUME NEW q \in Peers, Receive(q)
      PROVE  /\ connected'[p]
             /\ playing'[p] \/ (inbox'[p] # <<>> /\ inbox'[p][1].type = "RTS_MATCH_START")
  <2>1. /\ UNCHANGED <<connected, faults>>
        /\ inbox[q] # <<>> /\ inbox' = [inbox EXCEPT ![q] = Tail(@)]
    BY <1>2 DEF Receive
  <2>2. connected'[p]
    BY <2>1 DEF Undisturbed
  <2>3. playing[p] => playing'[p]
    BY <1>2 DEF Receive, ReceiveStart, ReceiveCommand, ReceiveHash, ReceiveSnapshot, LockstepTypes
  <2>4. CASE playing[p]
    BY <2>2, <2>3, <2>4
  <2>5. CASE ~playing[p] /\ p # q
    BY <2>1, <2>2, <2>5, InboxShift DEF Undisturbed
  <2>6. CASE ~playing[p] /\ p = q
    <3>1. Head(inbox[p]).type = "RTS_MATCH_START"
      BY <2>1, <2>6, InboxShift DEF Undisturbed
    <3>2. ReceiveStart(p)
      BY <1>2, <2>6, <3>1 DEF Receive
    <3> QED BY <2>2, <3>2 DEF ReceiveStart, LockstepTypes
  <2> QED BY <2>4, <2>5, <2>6
<1>3. ASSUME NEW r \in relay, Relay(r)
      PROVE  /\ connected'[p]
             /\ playing'[p] \/ (inbox'[p] # <<>> /\ inbox'[p][1].type = "RTS_MATCH_START")
  <2>1. UNCHANGED <<playing, connected, faults>>
    BY <1>3 DEF Relay, storeVars
  <2>2. CASE playing[p]
    BY <2>1, <2>2 DEF Undisturbed
  <2>3. CASE ~playing[p]
    <3>1. connected[p] /\ inbox[p] # <<>> /\ inbox[p][1].type = "RTS_MATCH_START"
      BY <2>1, <2>3 DEF Undisturbed
    <3>2. Len(inbox[p]) \in Nat \ {0} /\ DOMAIN inbox[p] = 1 .. Len(inbox[p])
      BY <3>1, TickType, EmptySeq, LenProperties
    <3>3. CASE p # r.from
      <4>1. 1 \in DOMAIN inbox'[p] /\ inbox'[p][1] = inbox[p][1]
        BY <1>3, <3>1, <3>2, <3>3, InboxGrows
      <4>2. inbox'[p] # <<>>
        BY <4>1
      <4> QED BY <2>1, <3>1, <4>1, <4>2
    <3>4. CASE p = r.from
      BY <1>3, <2>1, <3>1, <3>4, InboxGrows
    <3> QED BY <3>3, <3>4
  <2> QED BY <2>2, <2>3
<1>4. ASSUME (\E r \in relay : Drop(r)) \/ \E q \in Peers : Disconnect(q) PROVE FALSE
  <2>1. faults' = faults + 1
    BY <1>4 DEF Drop, Disconnect
  <2>2. faults \in Nat
    BY Constants DEF LockstepTypes
  <2> QED BY <2>1, <2>2
<1>5. ASSUME NEW q \in Peers, Reconnect(q) PROVE FALSE
  BY <1>5 DEF Reconnect, Undisturbed
<1>6. CASE (\E q \in Peers, c \in Commands : IssueCommand(q, c)) \/ \E q \in Peers, n \in 1 .. MaxSteps : Advance(q, n)
  <2>1. UNCHANGED <<playing, connected, inbox, faults>>
    BY <1>6 DEF IssueCommand, Advance
  <2> QED BY <1>1, <2>1
<1>7. CASE UNCHANGED lockstepVars
  BY <1>1, <1>7 DEF lockstepVars, storeVars, netVars
<1> QED BY <1>2, <1>3, <1>4, <1>5, <1>6, <1>7 DEF LockstepNext

LEMMA LateStep ==
  ASSUME LockstepTypes, StartsOnce, HostLeads, MessagesAreSound, LateIssued, [LockstepNext]_lockstepVars
  PROVE  LateIssued'
<1> SUFFICES ASSUME NEW p \in Peers, NEW c \in Commands, <<p, c>> \in late' PROVE target'[c] # NotIssued
  BY DEF LateIssued
<1>1. target[c] # NotIssued => target'[c] # NotIssued
  BY MatchesGrow
<1>2. CASE late' = late
  BY <1>1, <1>2 DEF LateIssued
<1>3. CASE late' # late
  <2>1. PICK q \in Peers : Receive(q)
    BY <1>3 DEF LockstepNext, IssueCommand, Advance, Disconnect, Reconnect, Relay, Drop, lockstepVars, history
  <2> DEFINE m == Head(inbox[q])
  <2>2. m \in Message /\ m \in InFlight
    BY <2>1, HeadInFlight
  <2>3. m.type = "RTS_COMMAND" /\ ReceiveCommand(q, m)
    BY <1>3, <2>1 DEF Receive, ReceiveStart, ReceiveHash, ReceiveSnapshot, history
  <2> HIDE DEF m
  <2>4. target[m.command] # NotIssued
    BY <2>2, <2>3 DEF MessagesAreSound, Sound
  <2>5. late' = late \cup {<<q, m.command>>}
    BY <1>3, <2>3 DEF ReceiveCommand
  <2>6. <<p, c>> \in late \/ c = m.command
    BY <2>5
  <2> QED BY <1>1, <2>4, <2>6 DEF LateIssued
<1> QED BY <1>2, <1>3

LEMMA BuffersStep ==
  ASSUME LockstepTypes, LockstepTypes', StartsOnce, BuffersAhead, [LockstepNext]_lockstepVars
  PROVE  BuffersAhead'
<1> SUFFICES ASSUME NEW p \in Peers, NEW t \in Ticks, t < Tick(p)' PROVE buffer'[p][t] = <<>>
  BY DEF BuffersAhead
<1>0. t \in Nat /\ Tick(p) \in Nat
  BY TickType, Constants
<1>1. CASE buffer'[p] = buffer[p] /\ match'[p] = match[p]
  BY <1>1 DEF BuffersAhead, Tick
<1>2. ASSUME NEW tick \in Ticks, NEW c \in Commands, Schedule(p, tick, c), match'[p] = match[p]
      PROVE  buffer'[p][t] = <<>>
  <2>1. t < Tick(p)
    BY <1>2 DEF Tick
  <2>2. buffer[p][t] = <<>>
    BY <2>1 DEF BuffersAhead
  <2>3. t # LaterOf(tick, Tick(p))
    BY <1>0, <2>1, Constants DEF LaterOf
  <2> QED BY <1>2, <2>2, <2>3, ScheduleAppends
<1>3. ASSUME NEW c \in Commands, IssueCommand(p, c) PROVE buffer'[p][t] = <<>>
  <2>1. Tick(p) + InputDelay \in Ticks
    BY TickType, Constants
  <2> QED BY <1>2, <1>3, <2>1 DEF IssueCommand
<1>4. ASSUME NEW n \in 1 .. MaxSteps, Advance(p, n) PROVE buffer'[p][t] = <<>>
  <2>1. Tick(p)' = Tick(p) + n /\ n \in Nat
    BY <1>4, AdvanceExtends DEF Tick
  <2>2. buffer'[p] = Untaken(p, n)
    BY <1>4 DEF Advance, LockstepTypes
  <2>3. CASE t \in Tick(p) .. Tick(p) + n - 1
    BY <2>2, <2>3 DEF Untaken
  <2>4. CASE t \notin Tick(p) .. Tick(p) + n - 1
    <3>1. t < Tick(p)
      BY <1>0, <2>1, <2>4
    <3> QED BY <2>2, <2>4, <3>1 DEF BuffersAhead, Untaken
  <2> QED BY <2>3, <2>4
<1>5. ASSUME Receive(p) PROVE buffer'[p][t] = <<>>
  <2> DEFINE m == Head(inbox[p])
  <2>1. m \in Message
    BY <1>5, InboxShift DEF Receive
  <2> HIDE DEF m
  <2>2. CASE ReceiveStart(p)
    BY <2>2 DEF ReceiveStart, LockstepTypes
  <2>3. CASE m.type = "RTS_COMMAND" /\ ReceiveCommand(p, m)
    <3>1. m.tick \in Ticks /\ m.command \in Commands
      BY <2>1, <2>3, MessageFields
    <3>2. UNCHANGED match /\ (Schedule(p, m.tick, m.command) \/ UNCHANGED buffer)
      BY <2>3 DEF ReceiveCommand
    <3> QED BY <1>1, <1>2, <3>1, <3>2
  <2>4. CASE ReceiveHash(p, m)
    BY <1>1, <2>4 DEF ReceiveHash
  <2>5. CASE m.type = "RTS_SNAPSHOT" /\ ReceiveSnapshot(p, m)
    <3>1. buffer'[p] = [u \in Ticks |-> IF u > Len(m.state) THEN buffer[p][u] ELSE <<>>]
      BY <2>1, <2>5, ReceiveSnapshotTypes
    <3>2. Tick(p)' = Len(m.state)
      BY <2>5 DEF ReceiveSnapshot, LockstepTypes, Tick
    <3>3. Len(m.state) \in Nat
      BY <2>1, <2>5, MessageFields, MatchSeq
    <3>4. ~(t > Len(m.state))
      BY <1>0, <3>2, <3>3
    <3> QED BY <3>1, <3>4
  <2> QED BY <1>5, <2>2, <2>3, <2>4, <2>5 DEF Receive, m
<1>6. ASSUME NEW q \in Peers, q # p, Receive(q) PROVE buffer'[p] = buffer[p] /\ match'[p] = match[p]
  <2> DEFINE m == Head(inbox[q])
  <2>1. CASE ReceiveStart(q)
    BY <1>6, <2>1 DEF ReceiveStart, LockstepTypes
  <2>2. CASE ReceiveCommand(q, m)
    BY <1>6, <2>2 DEF ReceiveCommand, Schedule, LockstepTypes
  <2>3. CASE ReceiveHash(q, m)
    BY <2>3 DEF ReceiveHash
  <2>4. CASE ReceiveSnapshot(q, m)
    BY <1>6, <2>4 DEF ReceiveSnapshot, LockstepTypes
  <2> QED BY <1>6, <2>1, <2>2, <2>3, <2>4 DEF Receive
<1>7. ASSUME NEW q \in Peers, NEW c \in Commands, q # p, IssueCommand(q, c)
      PROVE  buffer'[p] = buffer[p] /\ match'[p] = match[p]
  BY <1>7 DEF IssueCommand, Schedule, LockstepTypes
<1>8. ASSUME NEW q \in Peers, NEW n \in 1 .. MaxSteps, q # p, Advance(q, n)
      PROVE  buffer'[p] = buffer[p] /\ match'[p] = match[p]
  BY <1>8 DEF Advance, LockstepTypes
<1>9. CASE \E q \in Peers, c \in Commands : IssueCommand(q, c)
  BY <1>1, <1>3, <1>7, <1>9
<1>10. CASE \E q \in Peers, n \in 1 .. MaxSteps : Advance(q, n)
  BY <1>1, <1>4, <1>8, <1>10
<1>11. CASE \E q \in Peers : Receive(q)
  BY <1>1, <1>5, <1>6, <1>11
<1>12. CASE UNCHANGED storeVars
  BY <1>1, <1>12 DEF storeVars
<1> QED BY <1>9, <1>10, <1>11, <1>12
        DEF LockstepNext, Disconnect, Reconnect, Relay, Drop, lockstepVars
-----------------------------------------------------------------------------
LockstepInv ==
  /\ LockstepTypes
  /\ StartsOnce /\ HostLeads /\ MessagesAreSound /\ RecordsAreSound /\ NoFalseAlarm
  /\ BuffersAhead /\ LateIssued /\ Undisturbed /\ CommandsSettled

LEMMA LockstepStarts == LockstepInit => LockstepInv
<1> SUFFICES ASSUME LockstepInit PROVE LockstepInv
  OBVIOUS
<1>1. LockstepTypes
  BY InitLockstep
<1>2. \A p \in Peers : /\ ~playing[p] /\ connected[p] /\ ~desynced[p]
                       /\ match[p] = <<>> /\ Tick(p) = 0
                       /\ \A t \in Ticks : buffer[p][t] = <<>>
                       /\ \A t \in HashTicks : hashes[p][t] = {} /\ pending[p][t] = {}
                       /\ inbox[p] = <<StartMsg>>
  BY DEF LockstepInit, Tick
<1>3. relay = {} /\ late = {} /\ rewound = {} /\ \A c \in Commands : target[c] = NotIssued
  BY DEF LockstepInit
<1>4. \A p \in Peers : /\ DOMAIN inbox[p] = {1} /\ inbox[p][1] = StartMsg /\ inbox[p] # <<>>
                       /\ inbox[p][1].type = "RTS_MATCH_START"
  BY <1>2 DEF StartMsg
<1>5. StartsOnce
  BY <1>2, <1>3, <1>4 DEF StartsOnce
<1>6. HostLeads
  BY <1>3, <1>4, Constants DEF HostLeads
<1>7. MessagesAreSound
  BY <1>3, <1>4 DEF MessagesAreSound, InFlight, Sound
<1>8. RecordsAreSound /\ NoFalseAlarm /\ BuffersAhead /\ LateIssued /\ Undisturbed
  BY <1>2, <1>3, <1>4 DEF RecordsAreSound, NoFalseAlarm, BuffersAhead, LateIssued, Undisturbed
<1>9. CommandsSettled
  <2> SUFFICES ASSUME NEW p \in Peers, NEW c \in Commands PROVE Nowhere(p, c)
    BY <1>3 DEF CommandsSettled, Settled
  <2>1. Applied(p, c) = {}
    BY <1>2 DEF Applied, Places
  <2>2. Buffered(p, c) = {}
    BY <1>2 DEF Buffered, Places
  <2>3. Relayed(p, c) = {} /\ Inbound(p, c) = {}
    BY <1>3, <1>4 DEF Relayed, Inbound
  <2> QED BY <2>1, <2>2, <2>3 DEF Nowhere
<1> QED BY <1>1, <1>5, <1>6, <1>7, <1>8, <1>9 DEF LockstepInv

LEMMA LockstepGoesOn == LockstepInv /\ [LockstepNext]_lockstepVars => LockstepInv'
<1> SUFFICES ASSUME LockstepInv, [LockstepNext]_lockstepVars PROVE LockstepInv'
  OBVIOUS
<1>1. /\ LockstepTypes
      /\ StartsOnce /\ HostLeads /\ MessagesAreSound /\ RecordsAreSound /\ NoFalseAlarm
      /\ BuffersAhead /\ LateIssued /\ Undisturbed /\ CommandsSettled
  BY DEF LockstepInv
<1>2. LockstepTypes'
  BY <1>1, StepTypes
<1>3. StartsOnce' /\ HostLeads'
  BY <1>1, StartsOnceStep, HostLeadsStep
<1>4. MessagesAreSound' /\ RecordsAreSound' /\ NoFalseAlarm'
  BY <1>1, <1>2, MessagesStep, RecordsStep, NoFalseAlarmStep
<1>5. BuffersAhead' /\ LateIssued' /\ Undisturbed' /\ CommandsSettled'
  BY <1>1, <1>2, BuffersStep, LateStep, UndisturbedStep, CommandsStep
<1> QED BY <1>2, <1>3, <1>4, <1>5 DEF LockstepInv

\* Every reachable state of a running match satisfies the inductive invariant, for any peers,
\* any commands, and any order of frames, deliveries, drops and disconnections (store.ts, ws.ts).
THEOREM LockstepInvariant == LockstepSpec => []LockstepInv
  BY LockstepStarts, LockstepGoesOn, PTL DEF LockstepSpec

\* The peers' stores, the relay and the sockets are well typed: no command is buffered, and no
\* hash recorded, for a tick outside the match.
THEOREM LockstepTyped == LockstepSpec => []LockstepTypes
<1>1. LockstepInv => LockstepTypes
  BY DEF LockstepInv
<1> QED BY <1>1, LockstepInvariant, PTL

\* "Match desynced" is never shown without a reason, whatever is lost or late: until a snapshot
\* is applied, two peers did end one tick in different states (receiveRemoteStateHash and advance
\* of store.ts).
THEOREM AlarmsAreTrue == LockstepSpec => []NoFalseAlarm
<1>1. LockstepInv => NoFalseAlarm
  BY DEF LockstepInv
<1> QED BY <1>1, LockstepInvariant, PTL

\* A snapshot, for as long as it is under way, is of a state the host has been in and goes on
\* from (the outbox of store.ts, applySnapshot of lockstep.ts).
THEOREM SnapshotsAreTheHosts == LockstepSpec => []SnapshotsAreHosts
<1>1. LockstepInv => SnapshotsAreHosts
  <2> SUFFICES ASSUME LockstepInv PROVE SnapshotsAreHosts
    OBVIOUS
  <2>1. MessagesAreSound
    BY DEF LockstepInv
  <2>2. ASSUME NEW r \in relay, r.msg.type = "RTS_SNAPSHOT" PROVE IsPrefix(r.msg.state, match[Host])
    <3>1. r.msg \in InFlight
      BY DEF InFlight
    <3> QED BY <2>1, <2>2, <3>1 DEF MessagesAreSound, Sound
  <2>3. ASSUME NEW p \in Peers, NEW i \in DOMAIN inbox[p], inbox[p][i].type = "RTS_SNAPSHOT"
        PROVE  IsPrefix(inbox[p][i].state, match[Host])
    <3>1. inbox[p][i] \in {inbox[p][j] : j \in DOMAIN inbox[p]}
      OBVIOUS
    <3>2. inbox[p][i] \in InFlight
      BY <3>1 DEF InFlight
    <3> QED BY <2>1, <2>3, <3>2 DEF MessagesAreSound, Sound
  <2> QED BY <2>2, <2>3 DEF SnapshotsAreHosts
<1> QED BY <1>1, LockstepInvariant, PTL

LEMMA SettledReaches ==
  ASSUME LockstepTypes, BuffersAhead, NEW p \in Peers, NEW c \in Commands, Settled(p, c), target[c] # NotIssued
  PROVE  /\ Cardinality(Applied(p, c)) + Cardinality(Buffered(p, c))
              + Cardinality(Relayed(p, c)) + Cardinality(Inbound(p, c)) = 1
         /\ \A at \in Applied(p, c) \cup Buffered(p, c) :
              IF <<p, c>> \in late THEN at[1] > target[c] ELSE at[1] = target[c]
         /\ \A at \in Buffered(p, c) : at[1] >= Tick(p)
<1>1. Cardinality({}) = 0 /\ \A x : Cardinality({x}) = 1
  BY FS_EmptySet, FS_Singleton
<1>2. ASSUME NEW at \in Buffered(p, c) PROVE at[1] >= Tick(p)
  <2>1. PICK t \in Ticks : \E i \in DOMAIN buffer[p][t] : buffer[p][t][i] = c /\ at = <<t, i>>
    BY PlacesMember DEF Buffered
  <2>2. buffer[p][t] # <<>>
    BY <2>1
  <2>3. ~(t < Tick(p)) /\ t \in Nat /\ Tick(p) \in Nat /\ at[1] = t
    BY <2>1, <2>2, TickType, Constants DEF BuffersAhead
  <2> QED BY <2>3
<1>3. CASE OnItsWay(p, c)
  <2>1. Applied(p, c) = {} /\ Buffered(p, c) = {}
    BY <1>3 DEF OnItsWay
  <2>2. CASE Inbound(p, c) = {} /\ \E r : Relayed(p, c) = {r}
    <3>1. Cardinality(Inbound(p, c)) = 0 /\ Cardinality(Relayed(p, c)) = 1
      BY <1>1, <2>2
    <3>2. Cardinality(Applied(p, c)) = 0 /\ Cardinality(Buffered(p, c)) = 0
      BY <1>1, <2>1
    <3> QED BY <2>1, <3>1, <3>2
  <2>3. CASE Relayed(p, c) = {} /\ \E i : Inbound(p, c) = {i}
    <3>1. Cardinality(Inbound(p, c)) = 1 /\ Cardinality(Relayed(p, c)) = 0
      BY <1>1, <2>3
    <3>2. Cardinality(Applied(p, c)) = 0 /\ Cardinality(Buffered(p, c)) = 0
      BY <1>1, <2>1
    <3> QED BY <2>1, <3>1, <3>2
  <2> QED BY <1>2, <1>3, <2>2, <2>3 DEF OnItsWay
<1>4. CASE Delivered(p, c)
  <2>1. PICK t \in Ticks, i \in Nat :
          /\ InTime(p, c, t)
          /\ \/ Applied(p, c) = {} /\ Buffered(p, c) = {<<t, i>>}
             \/ Applied(p, c) = {<<t, i>>} /\ Buffered(p, c) = {}
    BY <1>4 DEF Delivered
  <2>2. Relayed(p, c) = {} /\ Inbound(p, c) = {}
    BY <1>4 DEF Delivered
  <2>3. \A at \in Applied(p, c) \cup Buffered(p, c) : at[1] = t
    BY <2>1
  <2>4. Cardinality(Applied(p, c)) + Cardinality(Buffered(p, c))
          + Cardinality(Relayed(p, c)) + Cardinality(Inbound(p, c)) = 1
    <3>1. Cardinality(Relayed(p, c)) = 0 /\ Cardinality(Inbound(p, c)) = 0
      BY <1>1, <2>2
    <3>2. \/ Cardinality(Applied(p, c)) = 0 /\ Cardinality(Buffered(p, c)) = 1
          \/ Cardinality(Applied(p, c)) = 1 /\ Cardinality(Buffered(p, c)) = 0
      BY <1>1, <2>1
    <3> QED BY <3>1, <3>2
  <2>5. IF <<p, c>> \in late THEN t > target[c] ELSE t = target[c]
    BY <2>1 DEF InTime
  <2>6. \A at \in Applied(p, c) \cup Buffered(p, c) :
          IF <<p, c>> \in late THEN at[1] > target[c] ELSE at[1] = target[c]
    BY <2>3, <2>5
  <2> QED BY <1>2, <2>4, <2>6
<1> QED BY <1>2, <1>3, <1>4 DEF Settled

\* While nothing fails, each command reaches each peer that no snapshot has rewound, exactly
\* once, and for the tick it was given for or, late, for a later one that is still to come
\* (CommandBuffer of lockstep.ts), for any number of peers, commands and ticks.
THEOREM CommandsReachAll == LockstepSpec => []CommandReachesAll
<1>1. LockstepInv => CommandReachesAll
  BY SettledReaches DEF LockstepInv, CommandsSettled, CommandReachesAll
<1> QED BY <1>1, LockstepInvariant, PTL
-----------------------------------------------------------------------------
(* Drift is noticed: what is left to happen until it is *)

\* A hash for tick t that is none of those known.
News(m, t, known) == m.type = "RTS_STATE_HASH" /\ m.tick = t /\ m.hash \notin known

\* Peer q is going to get a hash for tick t that differs from its own: p's, or somebody's.
Coming(p, q, t) ==
  \/ \E r \in relay : r.from = p /\ p # q /\ News(r.msg, t, hashes[q][t])
  \/ \E i \in DOMAIN inbox[q] : News(inbox[q][i], t, hashes[q][t])

\* The peers have ended tick t in different states, and both know their own.
Apart(p, q, t) == hashes[p][t] # {} /\ hashes[q][t] # {} /\ hashes[p][t] # hashes[q][t]

DriftComesOut ==
  faults = 0 /\ rewound = {} =>
    \A p, q \in Peers, t \in HashTicks :
      Apart(p, q, t) => desynced[p] \/ desynced[q] \/ Coming(p, q, t) \/ Coming(q, p, t)

\* A hash that is on its way to a peer gets there, and raises the alarm.
LEMMA NewsArrives ==
  ASSUME LockstepTypes, Undisturbed, [LockstepNext]_lockstepVars, faults' = 0,
         NEW p \in Peers, NEW q \in Peers, NEW t \in HashTicks, Coming(p, q, t),
         hashes[q][t] # {}, hashes'[q][t] = hashes[q][t]
  PROVE  Coming(p, q, t)' \/ desynced'[q]
<1>1. \A m : News(m, t, hashes[q][t]) => News(m, t, hashes'[q][t])
  OBVIOUS
<1>2. CASE inbox'[q] = inbox[q] /\ relay \subseteq relay'
  <2>1. CASE \E r \in relay : r.from = p /\ p # q /\ News(r.msg, t, hashes[q][t])
    <3>1. PICK r \in relay : r.from = p /\ p # q /\ News(r.msg, t, hashes[q][t])
      BY <2>1
    <3>2. r \in relay' /\ News(r.msg, t, hashes'[q][t])
      BY <1>1, <1>2, <3>1
    <3> QED BY <3>1, <3>2 DEF Coming
  <2>2. CASE \E i \in DOMAIN inbox[q] : News(inbox[q][i], t, hashes[q][t])
    <3>1. PICK i \in DOMAIN inbox[q] : News(inbox[q][i], t, hashes[q][t])
      BY <2>2
    <3> DEFINE m == inbox[q][i]
    <3>2. i \in DOMAIN inbox'[q] /\ inbox'[q][i] = m
      BY <1>2
    <3>3. News(inbox'[q][i], t, hashes'[q][t])
      BY <1>1, <3>1, <3>2 DEF News
    <3> QED BY <3>2, <3>3 DEF Coming
  <2> QED BY <2>1, <2>2 DEF Coming
<1>3. ASSUME NEW o \in Peers, NEW c \in Commands, IssueCommand(o, c) PROVE Coming(p, q, t)' \/ desynced'[q]
  <2>1. inbox' = inbox /\ relay \subseteq relay'
    BY <1>3 DEF IssueCommand, Publish
  <2> QED BY <1>2, <2>1
<1>4. ASSUME NEW o \in Peers, NEW n \in 1 .. MaxSteps, Advance(o, n) PROVE Coming(p, q, t)' \/ desynced'[q]
  <2>1. inbox' = inbox
    BY <1>4 DEF Advance
  <2>2. relay \subseteq relay'
    BY <1>4 DEF Advance, Publish
  <2> QED BY <1>2, <2>1, <2>2
<1>5. ASSUME NEW o \in Peers, Receive(o) PROVE Coming(p, q, t)' \/ desynced'[q]
  <2>1. inbox[o] # <<>> /\ inbox' = [inbox EXCEPT ![o] = Tail(@)] /\ relay' = relay
    BY <1>5 DEF Receive
  <2>2. CASE o # q
    <3>1. inbox'[q] = inbox[q]
      BY <2>1, <2>2, InboxShift
    <3> QED BY <1>2, <2>1, <3>1
  <2>3. CASE o = q
    <3>1. /\ DOMAIN inbox[q] = 1 .. Len(inbox[q]) /\ Len(inbox[q]) \in Nat \ {0}
          /\ DOMAIN inbox'[q] = 1 .. Len(inbox[q]) - 1
          /\ \A i \in DOMAIN inbox'[q] : inbox'[q][i] = inbox[q][i + 1]
          /\ Head(inbox[q]) = inbox[q][1]
      BY <2>1, <2>3, InboxShift
    <3>2. CASE \E r \in relay : r.from = p /\ p # q /\ News(r.msg, t, hashes[q][t])
      <4>1. PICK r \in relay : r.from = p /\ p # q /\ News(r.msg, t, hashes[q][t])
        BY <3>2
      <4>2. r \in relay' /\ News(r.msg, t, hashes'[q][t])
        BY <1>1, <2>1, <4>1
      <4> QED BY <4>1, <4>2 DEF Coming
    <3>3. ASSUME NEW i \in DOMAIN inbox[q], i # 1, News(inbox[q][i], t, hashes[q][t]) PROVE Coming(p, q, t)'
      <4>1. i - 1 \in DOMAIN inbox'[q] /\ (i - 1) + 1 = i
        BY <3>1, <3>3
      <4>2. inbox'[q][i - 1] = inbox[q][i]
        BY <3>1, <4>1
      <4>3. News(inbox'[q][i - 1], t, hashes'[q][t])
        BY <1>1, <3>3, <4>2 DEF News
      <4> QED BY <4>1, <4>3 DEF Coming
    <3>4. ASSUME News(inbox[q][1], t, hashes[q][t]) PROVE desynced'[q]
      <4> DEFINE m == Head(inbox[q])
      <4>1. m.type = "RTS_STATE_HASH" /\ m.tick = t /\ m.hash \notin hashes[q][t]
        BY <3>1, <3>4 DEF News
      <4>2. ReceiveHash(q, m)
        BY <1>5, <2>3, <4>1 DEF Receive
      <4>3. Differs(hashes[q][t], m.hash)
        BY <4>1 DEF Differs
      <4> HIDE DEF m
      <4>4. desynced' = [desynced EXCEPT ![q] = @ \/ Differs(hashes[q][t], m.hash)]
        BY <4>1, <4>2 DEF ReceiveHash
      <4>5. desynced' = [desynced EXCEPT ![q] = TRUE]
        BY <4>3, <4>4
      <4> QED BY <4>5 DEF LockstepTypes
    <3> QED BY <3>2, <3>3, <3>4 DEF Coming
  <2> QED BY <2>2, <2>3
<1>6. ASSUME NEW r \in relay, Relay(r) PROVE Coming(p, q, t)'
  <2>1. relay' = relay \ {r} /\ faults = 0
    BY <1>6 DEF Relay
  <2>2. connected[q]
    BY <2>1 DEF Undisturbed
  <2>3. /\ DOMAIN inbox[q] = 1 .. Len(inbox[q]) /\ Len(inbox[q]) \in Nat
        /\ q # r.from => /\ DOMAIN inbox'[q] = 1 .. Len(inbox[q]) + 1
                         /\ \A i \in DOMAIN inbox[q] : inbox'[q][i] = inbox[q][i]
                         /\ inbox'[q][Len(inbox[q]) + 1] = r.msg
        /\ q = r.from => inbox'[q] = inbox[q]
    BY <1>6, <2>2, InboxGrows
  <2>4. ASSUME NEW i \in DOMAIN inbox[q], News(inbox[q][i], t, hashes[q][t]) PROVE Coming(p, q, t)'
    <3>1. i \in DOMAIN inbox'[q] /\ inbox'[q][i] = inbox[q][i]
      BY <2>3
    <3>2. News(inbox'[q][i], t, hashes'[q][t])
      BY <1>1, <2>4, <3>1 DEF News
    <3> QED BY <3>1, <3>2 DEF Coming
  <2>5. ASSUME NEW o \in relay, o.from = p, p # q, News(o.msg, t, hashes[q][t]), o # r PROVE Coming(p, q, t)'
    <3>1. o \in relay' /\ News(o.msg, t, hashes'[q][t])
      BY <1>1, <2>1, <2>5
    <3> QED BY <2>5, <3>1 DEF Coming
  <2>6. ASSUME r.from = p, p # q, News(r.msg, t, hashes[q][t]) PROVE Coming(p, q, t)'
    <3> DEFINE n == Len(inbox[q]) + 1
    <3>1. n \in DOMAIN inbox'[q] /\ inbox'[q][n] = r.msg
      BY <2>3, <2>6
    <3> HIDE DEF n
    <3>2. News(inbox'[q][n], t, hashes'[q][t])
      BY <1>1, <2>6, <3>1 DEF News
    <3> QED BY <3>1, <3>2 DEF Coming
  <2> QED BY <2>4, <2>5, <2>6 DEF Coming
<1>7. ASSUME (\E r \in relay : Drop(r)) \/ \E o \in Peers : Disconnect(o) PROVE FALSE
  <2>1. faults' = faults + 1
    BY <1>7 DEF Drop, Disconnect
  <2>2. faults \in Nat
    BY Constants DEF LockstepTypes
  <2> QED BY <2>1, <2>2
<1>8. CASE UNCHANGED <<inbox, relay>>
  BY <1>2, <1>8
<1> QED BY <1>3, <1>4, <1>5, <1>6, <1>7, <1>8 DEF LockstepNext, Reconnect, lockstepVars, netVars

\* A hash is recorded by a frame, once, and sent when it is; otherwise it can only go.
LEMMA NewHash ==
  ASSUME LockstepTypes, Undisturbed, StartsOnce, RecordsAreSound, [LockstepNext]_lockstepVars,
         rewound = {}, faults = 0, NEW p \in Peers, NEW t \in HashTicks, hashes'[p][t] # hashes[p][t], hashes'[p][t] # {}
  PROVE  /\ hashes[p][t] = {}
         /\ \E s : hashes'[p][t] = {s} /\ [from |-> p, msg |-> HashMsg(t, s)] \in relay'
         /\ \A q \in Peers : q # p => hashes'[q] = hashes[q]
<1>1. ASSUME NEW o \in Peers, Receive(o) PROVE hashes'[p][t] = hashes[p][t]
  <2> DEFINE m == Head(inbox[o])
  <2>1. CASE m.type = "RTS_MATCH_START" /\ ReceiveStart(o)
    <3>1. inbox[o] # <<>> /\ inbox' = [inbox EXCEPT ![o] = Tail(@)]
      BY <1>1 DEF Receive
    <3>2. 1 \in DOMAIN inbox[o] /\ inbox[o][1].type = "RTS_MATCH_START"
      BY <2>1, <3>1, InboxShift
    <3>3. \A k \in HashTicks : hashes[o][k] = {}
      BY <3>2 DEF StartsOnce
    <3>4. hashes' = [hashes EXCEPT ![o] = [k \in HashTicks |-> {}]]
      BY <2>1 DEF ReceiveStart
    <3> QED BY <3>3, <3>4 DEF LockstepTypes
  <2>2. CASE ReceiveCommand(o, m) \/ ReceiveHash(o, m) \/ ReceiveSnapshot(o, m)
    BY <2>2 DEF ReceiveCommand, ReceiveHash, ReceiveSnapshot
  <2> QED BY <1>1, <2>1, <2>2 DEF Receive
<1>2. PICK o \in Peers, n \in 1 .. MaxSteps : Advance(o, n)
  BY <1>1 DEF LockstepNext, IssueCommand, Disconnect, Reconnect, Relay, Drop, lockstepVars, storeVars
<1> DEFINE s == match'[o]
<1>3. /\ match[o] \o Taken(o, n) = s /\ s \in Match /\ Len(s) = Tick(o) + n
      /\ Tick(o) \in Nat /\ n \in Nat /\ n >= 1
  BY <1>2, AdvanceExtends
<1> DEFINE new == Remembered(hashes[o], Len(s), s)
<1>4. Len(s) \in HashTicks /\ hashes' = [hashes EXCEPT ![o] = new]
  <2>1. IF Len(s) \in HashTicks THEN hashes' = [hashes EXCEPT ![o] = new] ELSE hashes' = hashes
    BY <1>2, <1>3 DEF Advance
  <2> QED BY <2>1
<1>5. Publish(o, Reports(o, s))
  BY <1>2, <1>3 DEF Advance
<1>6. new[t] = {} \/ (t = Len(s) /\ new[t] = {s}) \/ (t # Len(s) /\ new[t] = hashes[o][t])
  BY RememberedHashes
<1> HIDE DEF s, new
<1>7. /\ p = o /\ hashes'[p][t] = new[t] /\ \A q \in Peers : q # p => hashes'[q] = hashes[q]
  BY <1>4 DEF LockstepTypes
<1>8. t = Len(s) /\ hashes'[p][t] = {s}
  BY <1>6, <1>7
<1>9. hashes[p][t] = {}
  <2> SUFFICES ASSUME NEW h \in hashes[p][t] PROVE FALSE
    OBVIOUS
  <2>1. Len(h) = t /\ IsPrefix(h, match[p])
    BY DEF RecordsAreSound
  <2>2. h \in Match
    BY DEF LockstepTypes
  <2>3. h \in Seq(Seq(Commands)) /\ match[p] \in Seq(Seq(Commands)) /\ Tick(p) = Len(match[p])
    BY <2>2, MatchSeq, TickType
  <2>4. Len(h) <= Tick(p)
    BY <2>1, <2>3, PrefixMeans
  <2> QED BY <1>3, <1>7, <1>8, <2>1, <2>4
<1>10. [from |-> p, msg |-> HashMsg(t, s)] \in relay'
  <2>1. HashMsg(t, s) \in Reports(p, s)
    BY <1>4, <1>7, <1>8 DEF Reports
  <2>2. connected[p]
    BY DEF Undisturbed
  <2>3. relay' = relay \cup [from : {p}, msg : Reports(p, s)]
    BY <1>5, <1>7, <2>2 DEF Publish
  <2> QED BY <2>1, <2>3
<1> QED BY <1>9, <1>10, <1>7, <1>8

\* What a peer records now and what another has recorded before meet at the other.
LEMMA NewHashComes ==
  ASSUME LockstepTypes, LockstepTypes', Undisturbed, StartsOnce, RecordsAreSound, RecordsAreSound',
         [LockstepNext]_lockstepVars, rewound = {}, rewound' = {}, faults = 0,
         NEW p \in Peers, NEW q \in Peers, NEW t \in HashTicks, Apart(p, q, t)',
         hashes'[p][t] # hashes[p][t]
  PROVE  Coming(p, q, t)'
<1>1. PICK s : hashes'[p][t] = {s} /\ [from |-> p, msg |-> HashMsg(t, s)] \in relay'
  <2>1. hashes'[p][t] # {}
    BY DEF Apart
  <2> QED BY <2>1, NewHash
<1>2. p # q
  BY DEF Apart
<1>3. s \notin hashes'[q][t]
  <2> SUFFICES ASSUME s \in hashes'[q][t] PROVE FALSE
    OBVIOUS
  <2>1. PICK g \in hashes'[q][t] : g # s
    BY <1>1 DEF Apart
  <2>2. Len(g) = t /\ IsPrefix(g, match'[q]) /\ Len(s) = t /\ IsPrefix(s, match'[q])
    BY <2>1 DEF RecordsAreSound
  <2>3. g \in Seq(Seq(Commands)) /\ s \in Seq(Seq(Commands)) /\ match'[q] \in Seq(Seq(Commands))
    BY <2>1, MatchSeq DEF LockstepTypes
  <2>4. SubSeq(match'[q], 1, Len(g)) # SubSeq(match'[q], 1, Len(g))
    BY <2>1, <2>2, <2>3, PrefixesDiffer
  <2> QED BY <2>4
<1> DEFINE r == [from |-> p, msg |-> HashMsg(t, s)]
<1>4. r \in relay' /\ r.from = p /\ r.msg = HashMsg(t, s)
  BY <1>1
<1>5. News(r.msg, t, hashes'[q][t])
  BY <1>3, <1>4 DEF News, HashMsg
<1> HIDE DEF r
<1> QED BY <1>2, <1>4, <1>5 DEF Coming

\* The alarm is taken back by a snapshot only.
LEMMA AlarmStays ==
  ASSUME LockstepTypes, StartsOnce, [LockstepNext]_lockstepVars, rewound' = {}, NEW p \in Peers, desynced[p]
  PROVE  desynced'[p]
<1>1. ASSUME NEW o \in Peers, NEW n \in 1 .. MaxSteps, Advance(o, n) PROVE desynced'[p]
  <2>1. \/ desynced' = desynced
        \/ \E b : desynced' = [desynced EXCEPT ![o] = @ \/ b]
    BY <1>1 DEF Advance
  <2> QED BY <2>1 DEF LockstepTypes
<1>2. ASSUME NEW o \in Peers, Receive(o) PROVE desynced'[p]
  <2> DEFINE m == Head(inbox[o])
  <2>1. CASE m.type = "RTS_MATCH_START" /\ ReceiveStart(o)
    <3>1. inbox[o] # <<>> /\ inbox' = [inbox EXCEPT ![o] = Tail(@)]
      BY <1>2 DEF Receive
    <3>2. 1 \in DOMAIN inbox[o] /\ inbox[o][1].type = "RTS_MATCH_START"
      BY <2>1, <3>1, InboxShift
    <3>3. p # o
      BY <3>2 DEF StartsOnce
    <3>4. desynced' = [desynced EXCEPT ![o] = FALSE]
      BY <2>1 DEF ReceiveStart
    <3> QED BY <3>3, <3>4 DEF LockstepTypes
  <2>2. CASE ReceiveCommand(o, m)
    BY <2>2 DEF ReceiveCommand
  <2>3. CASE ReceiveHash(o, m)
    <3>1. \/ desynced' = desynced
          \/ \E b : desynced' = [desynced EXCEPT ![o] = @ \/ b]
      BY <2>3 DEF ReceiveHash
    <3> QED BY <3>1 DEF LockstepTypes
  <2>4. CASE ReceiveSnapshot(o, m)
    BY <2>4 DEF ReceiveSnapshot
  <2> QED BY <1>2, <2>1, <2>2, <2>3, <2>4 DEF Receive
<1>3. CASE UNCHANGED desynced
  BY <1>3
<1> QED BY <1>1, <1>2, <1>3
        DEF LockstepNext, IssueCommand, Disconnect, Reconnect, Relay, Drop, lockstepVars, storeVars

LEMMA DriftStep ==
  ASSUME LockstepInv, LockstepInv', DriftComesOut, [LockstepNext]_lockstepVars
  PROVE  DriftComesOut'
<1> SUFFICES ASSUME faults' = 0, rewound' = {}, NEW p \in Peers, NEW q \in Peers, NEW t \in HashTicks,
                    Apart(p, q, t)'
             PROVE  (desynced[p] \/ desynced[q] \/ Coming(p, q, t) \/ Coming(q, p, t))'
  BY DEF DriftComesOut
<1> USE DEF LockstepInv
<1>1. rewound = {}
  BY MatchesGrow
<1>2. faults = 0
  <2>1. faults \in Nat
    BY Constants DEF LockstepTypes
  <2>2. faults' = faults \/ faults' = faults + 1
    BY DEF LockstepNext, IssueCommand, Advance, Receive, Disconnect, Reconnect, Relay, Drop, lockstepVars
  <2> QED BY <2>1, <2>2
<1>3. CASE hashes'[p][t] # hashes[p][t]
  BY <1>1, <1>2, <1>3, NewHashComes
<1>4. CASE hashes'[q][t] # hashes[q][t]
  <2>1. Apart(q, p, t)'
    BY DEF Apart
  <2> QED BY <1>1, <1>2, <1>4, <2>1, NewHashComes
<1>5. CASE hashes'[p][t] = hashes[p][t] /\ hashes'[q][t] = hashes[q][t]
  <2>1. Apart(p, q, t) /\ hashes[p][t] # {} /\ hashes[q][t] # {}
    BY <1>5 DEF Apart
  <2>2. desynced[p] \/ desynced[q] \/ Coming(p, q, t) \/ Coming(q, p, t)
    BY <1>1, <1>2, <2>1 DEF DriftComesOut
  <2>3. CASE Coming(p, q, t)
    BY <1>5, <2>1, <2>3, NewsArrives
  <2>4. CASE Coming(q, p, t)
    BY <1>5, <2>1, <2>4, NewsArrives
  <2>5. \A o \in Peers : desynced[o] => desynced'[o]
    BY AlarmStays
  <2> QED BY <2>2, <2>3, <2>4, <2>5
<1> QED BY <1>3, <1>4, <1>5

\* As long as nothing fails and no snapshot is taken, two peers that ended a tick in different states
\* either show it or are going to: the hash of one is on its way to the other, or in its inbox, and
\* differs from all the other knows (the hash reports and checkHash of store.ts).
THEOREM DriftAlwaysComesOut == LockstepSpec => []DriftComesOut
<1>1. LockstepInit => DriftComesOut
  BY DEF LockstepInit, DriftComesOut, Apart
<1>2. LockstepInv /\ LockstepInv' /\ DriftComesOut /\ [LockstepNext]_lockstepVars => DriftComesOut'
  BY DriftStep
<1> QED BY <1>1, <1>2, LockstepInvariant, PTL DEF LockstepSpec

\* Nothing is on its way.
Quiet == relay = {} /\ \A p \in Peers : inbox[p] = <<>>

DriftIsOut ==
  faults = 0 /\ rewound = {} /\ Quiet =>
    \A p, q \in Peers, t \in HashTicks : Apart(p, q, t) => desynced[p] \/ desynced[q]

\* Once every hash is delivered, one of the two peers shows the difference, whatever the number of peers.
THEOREM DriftIsShown == LockstepSpec => []DriftIsOut
<1>1. DriftComesOut => DriftIsOut
  BY DEF DriftComesOut, DriftIsOut, Quiet, Coming
<1> QED BY <1>1, DriftAlwaysComesOut, PTL

-----------------------------------------------------------------------------
(***************************************************************************)
(* The simulation.                                                         *)
(***************************************************************************)
States  == {None, "DEAD", "IDLE", "MOVING", "ATTACKING", "HARVESTING"}
Task    == {t \in [type : {None, "MOVE", "ATTACK", "HARVEST"},
                   target : Units \cup Buildings \cup Nodes \cup {None}, point : BOOLEAN] :
              t.type = "HARVEST" => t.target \in Nodes}
Soldier == [state : States, owner : Sides \cup {None}, kind : DOMAIN ClassOf \cup {None},
            task : Task, path : BOOLEAN, node : Nodes \cup {None}, health : BOOLEAN,
            produced : BOOLEAN]
Order   == [owner : Sides, kind : DOMAIN ClassOf, age : Nat]

SimTypes ==
  /\ unit \in [Units -> Soldier]
  /\ building \in [Buildings -> BOOLEAN]
  /\ deposit \in [Nodes -> Nat]
  /\ credits \in [Sides -> Nat]
  /\ DOMAIN queue \subseteq Units
  /\ queue \in [DOMAIN queue -> Order]
  /\ shots \subseteq Sides
  /\ earned \in [Sides -> Nat]

\* An id is nobody's, an order's or a unit's, and a unit is somebody's.
OneUse ==
  /\ \A u \in Units : unit[u].state = None => unit[u] = Absent
  /\ \A u \in Units : unit[u].state # None => unit[u].owner \in Sides /\ unit[u].kind \in DOMAIN ClassOf
  /\ \A u \in DOMAIN queue : unit[u] = Absent

SimInv == SimTypes /\ OneUse /\ CapHolds /\ CreditsBalance

\* The units and the orders of a faction that count against a cap.
Fielded(f, c) == {u \in Alive : unit[u].owner = f /\ ClassOf[unit[u].kind] \in SameCap(c)}
Ordered(f, c) == {u \in Orders(f) : ClassOf[queue[u].kind] \in SameCap(c)}

\* A unit goes on: it keeps what it counts for.
GoesOn(r, s) ==
  s \in Soldier /\ s.state # None /\ s.owner = r.owner /\ s.kind = r.kind /\ s.produced = r.produced

UnitsGoOn ==
  /\ unit' \in [Units -> Soldier]
  /\ \A u \in Units : unit'[u] = unit[u] \/ (u \in Alive /\ GoesOn(unit[u], unit'[u]))

OrdersGoOn ==
  /\ DOMAIN queue' = DOMAIN queue
  /\ queue' \in [DOMAIN queue -> Order]
  /\ \A u \in DOMAIN queue : queue'[u].owner = queue[u].owner /\ queue'[u].kind = queue[u].kind

LEMMA FieldedFinite ==
  ASSUME NEW f, NEW c, SimTypes
  PROVE  /\ IsFiniteSet(Fielded(f, c)) /\ Cardinality(Fielded(f, c)) \in Nat
         /\ IsFiniteSet(Ordered(f, c)) /\ Cardinality(Ordered(f, c)) \in Nat
<1>1. IsFiniteSet(Units) /\ Fielded(f, c) \subseteq Units /\ Ordered(f, c) \subseteq Units
  BY SimAssumption DEF SimTypes, Fielded, Ordered, Alive, Orders
<1> QED BY <1>1, FS_Subset, FS_CardinalityType

\* Steps in which units and orders go on keep the caps, and what everybody has bought.
LEMMA GoingOn ==
  ASSUME SimInv, SimTypes', UnitsGoOn, OrdersGoOn
  PROVE  /\ OneUse' /\ CapHolds' /\ \A f \in Sides : Bought(f)' = Bought(f)
         /\ UNCHANGED <<credits, earned>> => SimInv'
<1> USE DEF SimInv
<1>1. OneUse'
  <2>1. ASSUME NEW u \in Units, unit'[u].state = None PROVE unit'[u] = Absent
    BY <2>1 DEF OneUse, UnitsGoOn, GoesOn
  <2>2. ASSUME NEW u \in Units, unit'[u].state # None
        PROVE  unit'[u].owner \in Sides /\ unit'[u].kind \in DOMAIN ClassOf
    BY <2>2 DEF OneUse, UnitsGoOn, GoesOn, Alive
  <2>3. ASSUME NEW u \in DOMAIN queue' PROVE unit'[u] = Absent
    <3>1. u \in Units /\ unit[u] = Absent
      BY DEF OneUse, OrdersGoOn, SimTypes
    <3>2. u \notin Alive
      BY <3>1 DEF Alive, Absent
    <3> QED BY <3>1, <3>2 DEF UnitsGoOn
  <2> QED BY <2>1, <2>2, <2>3 DEF OneUse
<1>2. ASSUME NEW f \in Sides, NEW c \in {"AIR", "ARMORED"}
      PROVE  Cardinality(Fielded(f, c))' + Cardinality(Ordered(f, c))' <= Cap(c)
  <2>1. Fielded(f, c)' \subseteq Fielded(f, c)
    BY DEF Fielded, Alive, UnitsGoOn, GoesOn, SimTypes
  <2>2. Ordered(f, c)' = Ordered(f, c)
    BY DEF Ordered, Orders, OrdersGoOn
  <2>3. Cardinality(Fielded(f, c)') <= Cardinality(Fielded(f, c)) /\ Cardinality(Fielded(f, c)') \in Nat
    BY <2>1, FieldedFinite, FS_Subset, FS_CardinalityType
  <2>4. Cap(c) \in Nat
    BY SimAssumption DEF Cap
  <2>5. Cardinality(Fielded(f, c)) + Cardinality(Ordered(f, c)) <= Cap(c)
    BY DEF CapHolds, Fielded, Ordered
  <2> QED BY <2>2, <2>3, <2>4, <2>5, FieldedFinite
<1>3. CapHolds'
  BY <1>2 DEF CapHolds, Fielded, Ordered, Cap
<1>4. ASSUME NEW f \in Sides PROVE Bought(f)' = Bought(f)
  <2>1. Orders(f)' = Orders(f)
    BY DEF Orders, OrdersGoOn
  <2>2. \A v \in Units : /\ unit'[v].owner = unit[v].owner /\ unit'[v].kind = unit[v].kind
                         /\ unit'[v].produced = unit[v].produced
    BY DEF UnitsGoOn, GoesOn
  <2>3. \A v \in DOMAIN queue : queue'[v].kind = queue[v].kind
    BY DEF OrdersGoOn
  <2>4. DOMAIN queue' = DOMAIN queue
    BY DEF OrdersGoOn
  <2> DEFINE D == Orders(f) \cup {v \in Units : unit[v].owner = f /\ unit[v].produced}
  <2>5. D' = D
    BY <2>1, <2>2
  <2>6. \A u \in D : Cost[IF u \in DOMAIN queue THEN queue[u].kind ELSE unit[u].kind]'
                       = Cost[IF u \in DOMAIN queue THEN queue[u].kind ELSE unit[u].kind]
    <3> SUFFICES ASSUME NEW u \in D
                 PROVE  (IF u \in DOMAIN queue' THEN queue'[u].kind ELSE unit'[u].kind)
                          = (IF u \in DOMAIN queue THEN queue[u].kind ELSE unit[u].kind)
      OBVIOUS
    <3>1. u \in DOMAIN queue \/ u \in Units
      BY DEF Orders
    <3> QED BY <3>1, <2>2, <2>3, <2>4
  <2> HIDE DEF D
  <2>7. Bought(f) = [u \in D |-> Cost[IF u \in DOMAIN queue THEN queue[u].kind ELSE unit[u].kind]]
    BY DEF Bought, D
  <2>8. Bought(f)' = [u \in D' |-> Cost[IF u \in DOMAIN queue THEN queue[u].kind ELSE unit[u].kind]']
    BY DEF Bought, D
  <2> QED BY <2>5, <2>6, <2>7, <2>8
<1>5. UNCHANGED <<credits, earned>> => CreditsBalance'
  BY <1>4 DEF CreditsBalance, Worth, Coins
<1> QED BY <1>1, <1>3, <1>4, <1>5

LEMMA InitSim == SimInit => SimInv
<1> SUFFICES ASSUME SimInit PROVE SimInv
  OBVIOUS
<1>1. SimTypes
  <2>1. unit \in [Units -> Soldier]
    BY SimAssumption DEF SimInit, Soldier, Unit, Absent, States, Task, NoTask, None
  <2>2. DOMAIN queue = {}
    BY DEF SimInit
  <2>3. queue \in [DOMAIN queue -> Order]
    BY DEF SimInit
  <2> QED BY <2>1, <2>2, <2>3, SimAssumption DEF SimInit, SimTypes
<1>2. OneUse
  BY SimAssumption DEF SimInit, OneUse, Unit, Absent, None
<1>3. CapHolds
  <2> SUFFICES ASSUME NEW f \in Sides, NEW c \in {"AIR", "ARMORED"}
               PROVE  Cardinality(Fielded(f, c)) + Cardinality(Ordered(f, c)) <= Cap(c)
    BY DEF CapHolds, Fielded, Ordered
  <2>1. Fielded(f, c) = {u \in DOMAIN Placed :
                           Placed[u].owner = f /\ ClassOf[Placed[u].kind] \in SameCap(c)}
    BY SimAssumption DEF SimInit, Fielded, Alive, Unit, Absent, None
  <2>2. Ordered(f, c) = {}
    BY DEF SimInit, Ordered, Orders
  <2>3. Cardinality(Ordered(f, c)) = 0
    BY <2>2, FS_EmptySet
  <2>4. Cardinality(Fielded(f, c)) \in Nat /\ Cap(c) \in Nat
    BY <1>1, FieldedFinite, SimAssumption DEF Cap
  <2>5. Cardinality(Fielded(f, c)) <= Cap(c)
    BY <2>1, StartAssumption, Zenon
  <2> QED BY <2>3, <2>4, <2>5
<1>4. CreditsBalance
  <2> SUFFICES ASSUME NEW f \in Sides PROVE credits[f] + Worth(Bought(f)) = Funds + earned[f]
    BY DEF CreditsBalance
  <2>1. DOMAIN Bought(f) = {}
    BY DEF SimInit, Bought, Orders, Unit, Absent
  <2>2. Coins(Bought(f)) = {}
    BY <2>1 DEF Coins
  <2>3. Worth(Bought(f)) = 0
    BY <2>2, FS_EmptySet DEF Worth
  <2> QED BY <2>3, SimAssumption DEF SimInit
<1> QED BY <1>1, <1>2, <1>3, <1>4 DEF SimInv

\* What a step that moves no account and no order has to show.
LEMMA UnitsStep ==
  ASSUME SimInv, UnitsGoOn, UNCHANGED <<credits, queue, earned>>, shots' \subseteq Sides,
         building' \in [Buildings -> BOOLEAN], deposit' \in [Nodes -> Nat]
  PROVE  SimInv'
<1>1. SimTypes' /\ OrdersGoOn
  BY DEF SimInv, SimTypes, OrdersGoOn, UnitsGoOn
<1> QED BY <1>1, GoingOn

LEMMA Living ==
  /\ {"IDLE", "MOVING", "ATTACKING", "HARVESTING"} \subseteq States \ {None, "DEAD"}
  /\ "DEAD" \in States \ {None}
  /\ NoTask \in Task
  BY DEF States, None, NoTask, Task

LEMMA ObeyedGoesOn ==
  ASSUME SimInv, NEW u \in Alive, NEW close, NEW found \in BOOLEAN
  PROVE  GoesOn(unit[u], Obeyed(unit[u], close, found))
<1> DEFINE r == unit[u]
<1>1. r \in Soldier /\ r.state # None
  BY DEF SimInv, SimTypes, Alive
<1>2. /\ r.task.type \in {None, "MOVE", "ATTACK", "HARVEST"}
      /\ r.task.type = "HARVEST" => r.task.target \in Nodes
      /\ r.state \in States \ {None} /\ r.path \in BOOLEAN
  BY <1>1 DEF Soldier, Task
<1> DEFINE s == Obeyed(r, close, found)
<1>3. /\ "IDLE" \in States \ {None} /\ "MOVING" \in States \ {None}
      /\ "ATTACKING" \in States \ {None} /\ "HARVESTING" \in States \ {None} /\ NoTask \in Task
  BY Living
<1> HIDE DEF r
<1>4. CASE r.task.type = None
  <2>1. s = [r EXCEPT !.state = IF r.state = "MOVING" THEN "IDLE" ELSE r.state]
    BY ONLY <1>4 DEF Obeyed, None
  <2>2. (IF r.state = "MOVING" THEN "IDLE" ELSE r.state) \in States \ {None}
    BY <1>2, <1>3
  <2>3. GoesOn(r, [r EXCEPT !.state = IF r.state = "MOVING" THEN "IDLE" ELSE r.state])
    BY <1>1, <2>2 DEF GoesOn, Soldier
  <2> QED BY <2>1, <2>3 DEF r
<1>5. CASE r.task.type = "MOVE"
  <2>1. s = r \/ s = [r EXCEPT !.path = found, !.state = "MOVING"]
    BY ONLY <1>5 DEF Obeyed, None
  <2>2. GoesOn(r, r) /\ GoesOn(r, [r EXCEPT !.path = found, !.state = "MOVING"])
    BY <1>1, <1>3 DEF GoesOn, Soldier
  <2> QED BY <2>1, <2>2 DEF r
<1>6. CASE r.task.type = "ATTACK"
  <2>1. \/ s = r
        \/ s = [r EXCEPT !.path = found, !.state = "MOVING"]
        \/ s = [r EXCEPT !.path = FALSE, !.state = "ATTACKING"]
        \/ s = [r EXCEPT !.task = NoTask, !.state = "IDLE"]
    BY ONLY <1>6 DEF Obeyed, None
  <2>2. /\ GoesOn(r, r)
        /\ GoesOn(r, [r EXCEPT !.path = found, !.state = "MOVING"])
        /\ GoesOn(r, [r EXCEPT !.path = FALSE, !.state = "ATTACKING"])
        /\ GoesOn(r, [r EXCEPT !.task = NoTask, !.state = "IDLE"])
    BY <1>1, <1>3 DEF GoesOn, Soldier
  <2> QED BY <2>1, <2>2 DEF r
<1>7. CASE r.task.type = "HARVEST"
  <2>1. \/ s = [r EXCEPT !.state = "HARVESTING", !.node = r.task.target, !.path = FALSE]
        \/ s = [r EXCEPT !.state = "MOVING", !.path = r.path \/ found]
        \/ s = [r EXCEPT !.task = NoTask, !.node = None, !.state = "IDLE"]
    BY ONLY <1>7 DEF Obeyed, None
  <2>2. (r.path \/ found) \in BOOLEAN /\ r.task.target \in Nodes
    BY <1>2, <1>7
  <2>3. /\ GoesOn(r, [r EXCEPT !.state = "HARVESTING", !.node = r.task.target, !.path = FALSE])
        /\ GoesOn(r, [r EXCEPT !.task = NoTask, !.node = None, !.state = "IDLE"])
    BY <1>1, <1>3, <2>2 DEF GoesOn, Soldier
  <2>4. GoesOn(r, [r EXCEPT !.state = "MOVING", !.path = r.path \/ found])
    BY <1>1, <1>3, <2>2 DEF GoesOn, Soldier
  <2> QED BY <2>1, <2>3, <2>4 DEF r
<1> QED BY <1>2, <1>4, <1>5, <1>6, <1>7 DEF r

LEMMA GiveKeeps ==
  ASSUME SimInv, NEW u \in Alive, NEW task \in Tasks(unit[u].owner), Give(u, task) \/ Stop(u)
  PROVE  SimInv'
<1>1. unit[u] \in Soldier /\ u \in Units
  BY DEF SimInv, SimTypes, Alive
<1>2. task \in Task
  <2>1. Enemies(unit[u].owner) \subseteq Units
    BY DEF Enemies, Alive
  <2>2. CASE task.type = "HARVEST"
    <3>1. PICK n \in Nodes : task = [type |-> "HARVEST", target |-> n, point |-> FALSE]
      BY <2>2 DEF Tasks
    <3> QED BY <3>1 DEF Task
  <2>3. CASE task \in {[type |-> "MOVE", target |-> None, point |-> TRUE],
                       [type |-> "ATTACK", target |-> None, point |-> TRUE]}
    <3>1. /\ [type |-> "MOVE", target |-> None, point |-> TRUE] \in Task
          /\ [type |-> "ATTACK", target |-> None, point |-> TRUE] \in Task
      BY DEF Task
    <3> QED BY <2>3, <3>1
  <2>4. CASE \E x \in Units \cup Buildings : task = [type |-> "ATTACK", target |-> x, point |-> FALSE]
    BY <2>4 DEF Task
  <2> QED BY <2>1, <2>2, <2>3, <2>4 DEF Tasks
<1>3. "IDLE" \in States \ {None} /\ NoTask \in Task /\ unit[u].state # None
  BY Living DEF Alive
<1>4. UnitsGoOn
  <2>1. CASE Give(u, task)
    <3>1. GoesOn(unit[u], [unit[u] EXCEPT !.task = task, !.path = FALSE])
      BY <1>1, <1>2, <1>3 DEF GoesOn, Soldier
    <3>2. unit' = [unit EXCEPT ![u] = [unit[u] EXCEPT !.task = task, !.path = FALSE]]
      BY <2>1 DEF Give
    <3> QED BY <1>1, <3>1, <3>2 DEF UnitsGoOn, GoesOn, SimInv, SimTypes
  <2>2. CASE Stop(u)
    <3> DEFINE r == [unit[u] EXCEPT !.task = NoTask, !.path = FALSE, !.node = None, !.state = "IDLE"]
    <3>1. GoesOn(unit[u], r)
      BY <1>1, <1>3 DEF GoesOn, Soldier
    <3>2. unit' = [unit EXCEPT ![u] = r]
      BY <2>2 DEF Stop
    <3> HIDE DEF r
    <3> QED BY <1>1, <3>1, <3>2 DEF UnitsGoOn, GoesOn, SimInv, SimTypes
  <2> QED BY <2>1, <2>2
<1> QED BY <1>4, UnitsStep DEF Give, Stop, SimInv, SimTypes

LEMMA CommandSystemKeeps == SimInv /\ CommandSystem => SimInv'
<1> SUFFICES ASSUME SimInv, CommandSystem PROVE SimInv'
  OBVIOUS
<1>1. PICK near \in SUBSET Tasked, routed \in SUBSET Tasked :
        unit' = [u \in Units |-> IF u \in Alive THEN Obeyed(unit[u], u \in near, u \in routed)
                                                ELSE unit[u]]
  BY DEF CommandSystem
<1>2. ASSUME NEW u \in Alive PROVE GoesOn(unit[u], Obeyed(unit[u], u \in near, u \in routed))
  <2> DEFINE close == u \in near
             found == u \in routed
  <2>1. found \in BOOLEAN
    OBVIOUS
  <2> HIDE DEF found, close
  <2>2. GoesOn(unit[u], Obeyed(unit[u], close, found))
    BY <2>1, ObeyedGoesOn
  <2> QED BY <2>2 DEF found, close
<1>3. UnitsGoOn
  BY <1>1, <1>2 DEF UnitsGoOn, GoesOn, Alive, SimInv, SimTypes
<1> QED BY <1>3, UnitsStep DEF CommandSystem, SimInv, SimTypes

LEMMA MovementSystemKeeps == SimInv /\ MovementSystem => SimInv'
<1> SUFFICES ASSUME SimInv, MovementSystem PROVE SimInv'
  OBVIOUS
<1>1. PICK there \in SUBSET {u \in Alive : unit[u].path} :
        unit' = [u \in Units |-> IF u \in there THEN Arrived(unit[u]) ELSE unit[u]]
  BY DEF MovementSystem
<1>2. ASSUME NEW u \in Alive PROVE GoesOn(unit[u], Arrived(unit[u]))
  <2> DEFINE task == IF unit[u].task.type = "MOVE" THEN NoTask ELSE unit[u].task
             state == IF task = NoTask THEN "IDLE" ELSE unit[u].state
  <2>1. unit[u] \in Soldier /\ unit[u].state # None
    BY DEF SimInv, SimTypes, Alive
  <2>2. task \in Task /\ state \in States \ {None}
    BY <2>1, Living DEF Soldier
  <2>3. Arrived(unit[u]) = [unit[u] EXCEPT !.path = FALSE, !.task = task, !.state = state]
    BY <2>1 DEF Arrived, Soldier
  <2> HIDE DEF task, state
  <2>4. GoesOn(unit[u], [unit[u] EXCEPT !.path = FALSE, !.task = task, !.state = state])
    BY <2>1, <2>2 DEF GoesOn, Soldier
  <2> QED BY <2>3, <2>4
<1>3. UnitsGoOn
  BY <1>1, <1>2 DEF UnitsGoOn, GoesOn, Alive, SimInv, SimTypes
<1> QED BY <1>3, UnitsStep DEF MovementSystem, SimInv, SimTypes

LEMMA CombatSystemKeeps == SimInv /\ CombatSystem => SimInv'
<1> SUFFICES ASSUME SimInv, CombatSystem PROVE SimInv'
  OBVIOUS
<1>1. PICK engaged \in SUBSET {u \in Alive : Enemies(unit[u].owner) # {}} :
      \E firing \in SUBSET {unit[u].owner : u \in engaged} :
        /\ unit' = [u \in Units |-> IF u \in engaged THEN [unit[u] EXCEPT !.state = "ATTACKING"]
                                                     ELSE unit[u]]
        /\ shots' = shots \cup firing
  BY DEF CombatSystem
<1>2. ASSUME NEW u \in Alive PROVE GoesOn(unit[u], [unit[u] EXCEPT !.state = "ATTACKING"])
  <2>1. unit[u] \in Soldier /\ "ATTACKING" \in States \ {None}
    BY Living DEF SimInv, SimTypes, Alive
  <2> QED BY <2>1 DEF GoesOn, Soldier
<1>3. UnitsGoOn
  BY <1>1, <1>2 DEF UnitsGoOn, GoesOn, Alive, SimInv, SimTypes
<1>4. \A u \in engaged : unit[u].owner \in Sides
  BY DEF SimInv, OneUse, Alive
<1>5. shots' \subseteq Sides
  BY <1>1, <1>4 DEF SimInv, SimTypes
<1> QED BY <1>3, <1>5, UnitsStep DEF CombatSystem, SimInv, SimTypes

LEMMA ProjectileSystemKeeps == SimInv /\ ProjectileSystem => SimInv'
<1> SUFFICES ASSUME SimInv, ProjectileSystem PROVE SimInv'
  OBVIOUS
<1>1. PICK landed \in SUBSET shots :
      \E left \in SUBSET landed :
      \E killed \in SUBSET {u \in Alive : landed \ {unit[u].owner} # {}} :
      \E razed \in SUBSET {b \in Buildings : landed \ {Owner[b]} # {}} :
        /\ shots' = (shots \ landed) \cup left
        /\ unit' = [u \in Units |-> IF u \in killed THEN [unit[u] EXCEPT !.health = FALSE]
                                                    ELSE unit[u]]
        /\ building' = [b \in Buildings |-> building[b] /\ b \notin razed]
  BY DEF ProjectileSystem
<1>2. ASSUME NEW u \in Alive PROVE GoesOn(unit[u], [unit[u] EXCEPT !.health = FALSE])
  <2>1. unit[u] \in Soldier /\ unit[u].state # None
    BY DEF SimInv, SimTypes, Alive
  <2> QED BY <2>1 DEF GoesOn, Soldier
<1>3. UnitsGoOn
  BY <1>1, <1>2 DEF UnitsGoOn, GoesOn, Alive, SimInv, SimTypes
<1>4. shots' \subseteq Sides /\ building' \in [Buildings -> BOOLEAN]
  BY <1>1 DEF SimInv, SimTypes
<1> QED BY <1>3, <1>4, UnitsStep DEF ProjectileSystem, SimInv, SimTypes

LEMMA FogOfWarSystemKeeps == SimInv /\ FogOfWarSystem => SimInv'
<1> SUFFICES ASSUME SimInv, FogOfWarSystem PROVE SimInv'
  OBVIOUS
<1>1. unit' = [u \in Units |->
        IF u \in Alive /\ ~unit[u].health
        THEN [unit[u] EXCEPT !.state = "DEAD", !.path = FALSE, !.task = NoTask] ELSE unit[u]]
  BY DEF FogOfWarSystem
<1>2. ASSUME NEW u \in Alive
      PROVE  GoesOn(unit[u], [unit[u] EXCEPT !.state = "DEAD", !.path = FALSE, !.task = NoTask])
  <2>1. unit[u] \in Soldier /\ "DEAD" \in States \ {None} /\ NoTask \in Task
    BY Living DEF SimInv, SimTypes, Alive
  <2> QED BY <2>1 DEF GoesOn, Soldier
<1>3. UnitsGoOn
  BY <1>1, <1>2 DEF UnitsGoOn, GoesOn, Alive, SimInv, SimTypes
<1> QED BY <1>3, UnitsStep DEF FogOfWarSystem, SimInv, SimTypes

LEMMA VictorySystemKeeps == SimInv /\ VictorySystem => SimInv'
<1> SUFFICES ASSUME SimInv, VictorySystem PROVE SimInv'
  OBVIOUS
<1>1. queue' = [u \in DOMAIN queue |-> Aged(queue[u])]
  BY DEF VictorySystem
<1>2. ASSUME NEW u \in DOMAIN queue
      PROVE  /\ Aged(queue[u]) \in Order
             /\ Aged(queue[u]).owner = queue[u].owner /\ Aged(queue[u]).kind = queue[u].kind
  <2>1. queue[u] \in Order
    BY DEF SimInv, SimTypes
  <2>2. queue[u].age + 1 \in Nat
    BY <2>1 DEF Order
  <2> QED BY <2>1, <2>2 DEF Aged, Order
<1>3. OrdersGoOn
  BY <1>1, <1>2 DEF OrdersGoOn
<1>4. SimTypes' /\ UnitsGoOn /\ UNCHANGED <<credits, earned>>
  BY <1>3 DEF VictorySystem, SimInv, SimTypes, UnitsGoOn, OrdersGoOn
<1> QED BY <1>3, <1>4, GoingOn

-----------------------------------------------------------------------------
(* What a price list is worth *)

LEMMA WorthIsNat ==
  ASSUME NEW p, IsFiniteSet(DOMAIN p), \A u \in DOMAIN p : p[u] \in Nat
  PROVE  IsFiniteSet(Coins(p)) /\ Worth(p) \in Nat
<1> DEFINE piles == {{u} \X (1 .. p[u]) : u \in DOMAIN p}
           pile  == [u \in DOMAIN p |-> {u} \X (1 .. p[u])]
<1>1. pile \in Surjection(DOMAIN p, piles)
  BY DEF Surjection
<1>2. IsFiniteSet(piles)
  BY <1>1, FS_Surjection
<1>3. ASSUME NEW u \in DOMAIN p PROVE IsFiniteSet({u} \X (1 .. p[u]))
  <2>1. IsFiniteSet({u})
    BY FS_Singleton
  <2>2. IsFiniteSet(1 .. p[u])
    BY FS_Interval
  <2> QED BY <2>1, <2>2, FS_Product
<1>4. IsFiniteSet(UNION piles)
  BY <1>2, <1>3, FS_UNION
<1> QED BY <1>4, FS_CardinalityType DEF Coins, Worth

\* The worth of a list is that of its two parts together.
LEMMA WorthAdds ==
  ASSUME NEW p, IsFiniteSet(DOMAIN p), \A u \in DOMAIN p : p[u] \in Nat,
         NEW q, NEW r, DOMAIN q \cap DOMAIN r = {}, DOMAIN p = DOMAIN q \cup DOMAIN r,
         \A u \in DOMAIN q : q[u] = p[u], \A u \in DOMAIN r : r[u] = p[u]
  PROVE  Worth(p) = Worth(q) + Worth(r) /\ Worth(q) \in Nat /\ Worth(r) \in Nat
<1>1. IsFiniteSet(DOMAIN q) /\ IsFiniteSet(DOMAIN r)
  BY FS_Subset
<1>2. /\ IsFiniteSet(Coins(q)) /\ Worth(q) \in Nat
      /\ IsFiniteSet(Coins(r)) /\ Worth(r) \in Nat
  BY <1>1, WorthIsNat
<1>3. Coins(p) = Coins(q) \cup Coins(r)
  BY DEF Coins
<1>4. Coins(q) \cap Coins(r) = {}
  BY DEF Coins
<1>5. Cardinality(Coins(q) \cup Coins(r)) = Worth(q) + Worth(r) - Cardinality(Coins(q) \cap Coins(r))
  BY <1>2, FS_Union DEF Worth
<1>6. Cardinality(Coins(q) \cap Coins(r)) = 0
  BY <1>4, FS_EmptySet
<1>7. Worth(p) = Worth(q) + Worth(r) - Cardinality(Coins(q) \cap Coins(r))
  BY <1>3, <1>5 DEF Worth
<1> QED BY <1>2, <1>6, <1>7

LEMMA WorthOfOne ==
  ASSUME NEW p, NEW x, DOMAIN p = {x}, p[x] \in Nat
  PROVE  Worth(p) = p[x]
<1>1. Coins(p) = {x} \X (1 .. p[x])
  BY DEF Coins
<1>2. IsFiniteSet({x}) /\ Cardinality({x}) = 1
  BY FS_Singleton
<1>3. IsFiniteSet(1 .. p[x]) /\ Cardinality(1 .. p[x]) = p[x]
  BY FS_Interval
<1>4. Cardinality({x} \X (1 .. p[x])) = 1 * p[x]
  BY <1>2, <1>3, FS_Product
<1> QED BY <1>1, <1>4 DEF Worth

LEMMA BoughtIsPriced ==
  ASSUME SimInv, NEW f \in Sides
  PROVE  IsFiniteSet(DOMAIN Bought(f)) /\ \A u \in DOMAIN Bought(f) : Bought(f)[u] \in Nat
<1>1. DOMAIN Bought(f) \subseteq Units /\ IsFiniteSet(Units)
  BY SimAssumption DEF SimInv, SimTypes, Bought, Orders
<1>2. ASSUME NEW u \in DOMAIN Bought(f) PROVE Bought(f)[u] \in Nat
  <2>1. CASE u \in DOMAIN queue
    BY <2>1, SimAssumption DEF SimInv, SimTypes, Bought, Order
  <2>2. CASE u \notin DOMAIN queue
    <3>1. unit[u].produced /\ u \in Units
      BY <2>2 DEF Bought, Orders
    <3>2. unit[u] # Absent
      BY <3>1 DEF Absent
    <3>3. unit[u].kind \in DOMAIN ClassOf
      BY <3>1, <3>2 DEF SimInv, OneUse
    <3> QED BY <2>2, <3>3, SimAssumption DEF Bought
  <2> QED BY <2>1, <2>2
<1> QED BY <1>1, <1>2, FS_Subset
-----------------------------------------------------------------------------
LEMMA BuildKeeps ==
  ASSUME SimInv, NEW b \in Buildings, NEW k \in Kinds, Build(b, k)
  PROVE  SimInv'
<1> DEFINE f == Owner[b]
           new == CHOOSE u \in Free : TRUE
           bid == [owner |-> f, kind |-> k, age |-> 0]
<1>1. f \in Sides /\ k \in DOMAIN ClassOf /\ Cost[k] \in Nat
      /\ ClassOf[k] \in {"INFANTRY", "ARMORED", "AIR"}
  BY SimAssumption
<1>2. /\ new \in Units /\ new \notin DOMAIN queue /\ unit[new] = Absent
      /\ new \in Free
  BY DEF Build, Free, SimInv, OneUse
<1>3. /\ DOMAIN queue' = DOMAIN queue \cup {new}
      /\ queue'[new] = bid
      /\ \A u \in DOMAIN queue : queue'[u] = queue[u]
      /\ queue' \in [DOMAIN queue' -> Order]
  <2>1. queue' = [u \in DOMAIN queue \cup {new} |-> IF u = new THEN bid ELSE queue[u]]
    BY DEF Build
  <2>2. bid \in Order
    BY <1>1 DEF Order
  <2> HIDE DEF bid, new
  <2> QED BY <1>2, <2>1, <2>2 DEF SimInv, SimTypes
<1>4. /\ UNCHANGED <<unit, building, deposit, shots, earned>>
      /\ credits' = [credits EXCEPT ![f] = @ - Cost[k]]
      /\ MayOrder(f, k)
  BY DEF Build
<1> HIDE DEF f, new
<1>5. SimTypes'
  <2>1. credits' \in [Sides -> Nat]
    BY <1>1, <1>4 DEF SimInv, SimTypes, MayOrder
  <2> QED BY <1>2, <1>3, <1>4, <2>1 DEF SimInv, SimTypes
<1>6. OneUse'
  BY <1>2, <1>3, <1>4 DEF SimInv, OneUse
<1>7. ASSUME NEW g \in Sides, NEW c \in {"AIR", "ARMORED"}
      PROVE  Cardinality(Fielded(g, c))' + Cardinality(Ordered(g, c))' <= Cap(c)
  <2>1. Fielded(g, c)' = Fielded(g, c)
    BY <1>4 DEF Fielded, Alive
  <2>2. Cardinality(Fielded(g, c)) + Cardinality(Ordered(g, c)) <= Cap(c)
    BY DEF SimInv, CapHolds, Fielded, Ordered
  <2>3. CASE g = f /\ ClassOf[k] \in SameCap(c)
    <3>1. SameCap(ClassOf[k]) = SameCap(c) /\ Cap(ClassOf[k]) = Cap(c)
      BY <1>1, <2>3 DEF SameCap, Cap, Ground
    <3>2. Committed(g, SameCap(c)) < Cap(c)
      BY <1>4, <2>3, <3>1 DEF MayOrder
    <3>3. Cardinality(Fielded(g, c)) + Cardinality(Ordered(g, c)) < Cap(c)
      BY <3>2 DEF Committed, Fielded, Ordered
    <3>4. Ordered(g, c)' = Ordered(g, c) \cup {new}
      BY <1>2, <1>3, <2>3 DEF Ordered, Orders
    <3>5. IsFiniteSet(Ordered(g, c)) /\ Cardinality(Ordered(g, c)) \in Nat
          /\ Cardinality(Fielded(g, c)) \in Nat
      BY FieldedFinite DEF SimInv
    <3>6. Cardinality(Ordered(g, c) \cup {new}) <= Cardinality(Ordered(g, c)) + 1
      BY <3>5, FS_AddElement
    <3>7. Cap(c) \in Nat /\ Cardinality(Ordered(g, c) \cup {new}) \in Nat
      BY <3>5, FS_AddElement, FS_CardinalityType, SimAssumption DEF Cap
    <3> QED BY <2>1, <3>3, <3>4, <3>5, <3>6, <3>7
  <2>4. CASE ~(g = f /\ ClassOf[k] \in SameCap(c))
    <3>1. Ordered(g, c)' = Ordered(g, c)
      BY <1>2, <1>3, <2>4 DEF Ordered, Orders
    <3> QED BY <2>1, <2>2, <3>1
  <2> QED BY <2>3, <2>4
<1>8. CapHolds'
  BY <1>7 DEF CapHolds, Fielded, Ordered, Cap
<1>9. ASSUME NEW g \in Sides PROVE credits'[g] + Worth(Bought(g))' = Funds + earned'[g]
  <2>1. credits[g] + Worth(Bought(g)) = Funds + earned[g]
    BY DEF SimInv, CreditsBalance
  <2>2. CASE g # f
    <3>1. Orders(g)' = Orders(g)
      BY <1>2, <1>3, <2>2 DEF Orders
    <3>2. Bought(g)' = Bought(g)
      BY <1>2, <1>3, <1>4, <3>1 DEF Bought, Absent, Orders
    <3> QED BY <1>4, <2>1, <2>2, <3>2 DEF SimInv, SimTypes
  <2>3. CASE g = f
    <3> DEFINE one == [u \in {new} |-> Cost[k]]
    <3>1. new \notin DOMAIN Bought(f)
      BY <1>2 DEF Bought, Orders, Absent
    <3>2. Orders(f)' = Orders(f) \cup {new}
      BY <1>2, <1>3 DEF Orders
    <3>3. DOMAIN Bought(f)' = DOMAIN Bought(f) \cup DOMAIN one
      BY <1>4, <3>2 DEF Bought
    <3>4. \A u \in DOMAIN Bought(f) : Bought(f)[u] = Bought(f)'[u]
      <4> SUFFICES ASSUME NEW u \in DOMAIN Bought(f) PROVE Bought(f)'[u] = Bought(f)[u]
        OBVIOUS
      <4>1. u # new
        BY <3>1
      <4> QED BY <4>1, <1>3, <1>4, <3>3 DEF Bought
    <3>5. Bought(f)'[new] = one[new]
      BY <1>3, <3>3 DEF Bought
    <3>6. Worth(one) = Cost[k]
      BY <1>1, WorthOfOne
    <3>7. IsFiniteSet(DOMAIN Bought(f)') /\ \A u \in DOMAIN Bought(f)' : Bought(f)'[u] \in Nat
      BY <1>1, <3>3, <3>4, <3>5, BoughtIsPriced, FS_AddElement
    <3> HIDE DEF one
    <3>8. Worth(Bought(f)') = Worth(Bought(f)) + Cost[k] /\ Worth(Bought(f)) \in Nat
      BY <3>1, <3>3, <3>4, <3>5, <3>6, <3>7, WorthAdds DEF one
    <3>9. credits[f] \in Nat /\ credits'[f] = credits[f] - Cost[k] /\ earned'[f] = earned[f]
      BY <1>1, <1>4 DEF SimInv, SimTypes
    <3> QED BY <1>1, <2>1, <2>3, <3>8, <3>9
  <2> QED BY <2>2, <2>3
<1>10. CreditsBalance'
  BY <1>9 DEF CreditsBalance
<1> QED BY <1>5, <1>6, <1>8, <1>10 DEF SimInv

LEMMA HarvestingSystemKeeps == SimInv /\ HarvestingSystem => SimInv'
<1> SUFFICES ASSUME SimInv, HarvestingSystem PROVE SimInv'
  OBVIOUS
<1>1. PICK full \in SUBSET Harvesters :
        LET gain == [f \in Sides |-> Yield * Cardinality({u \in full : unit[u].owner = f})]
        IN /\ credits' = [f \in Sides |-> credits[f] + gain[f]]
           /\ earned' = [f \in Sides |-> earned[f] + gain[f]]
  BY DEF HarvestingSystem
<1> DEFINE gain(f) == Yield * Cardinality({u \in full : unit[u].owner = f})
<1>2. ASSUME NEW S, S \subseteq Harvesters PROVE Cardinality(S) \in Nat
  <2>1. S \subseteq Units /\ IsFiniteSet(Units)
    BY <1>2, SimAssumption DEF Harvesters, Alive
  <2> QED BY <2>1, FS_Subset, FS_CardinalityType
<1>3. ASSUME NEW f \in Sides PROVE gain(f) \in Nat
  <2>1. Cardinality({u \in full : unit[u].owner = f}) \in Nat
    BY <1>2
  <2>2. Yield \in Nat
    BY SimAssumption
  <2> QED BY <2>1, <2>2
<1>4. \A f \in Sides : credits'[f] = credits[f] + gain(f) /\ earned'[f] = earned[f] + gain(f)
  BY <1>1
<1>5. DOMAIN credits' = Sides /\ DOMAIN earned' = Sides
      /\ credits' = [f \in Sides |-> credits'[f]] /\ earned' = [f \in Sides |-> earned'[f]]
  BY <1>1
<1> HIDE DEF gain
<1>6. credits' \in [Sides -> Nat] /\ earned' \in [Sides -> Nat]
  BY <1>3, <1>4, <1>5 DEF SimInv, SimTypes
<1>7. deposit' \in [Nodes -> Nat]
  <2>1. ASSUME NEW n \in Nodes PROVE deposit'[n] \in Nat
    <3> DEFINE taken == Cardinality({u \in Harvesters : unit[u].node = n})
    <3>1. taken \in Nat
      BY <1>2
    <3>2. deposit'[n] = IF deposit[n] > taken THEN deposit[n] - taken ELSE 0
      BY DEF HarvestingSystem
    <3> HIDE DEF taken
    <3> QED BY <3>1, <3>2 DEF SimInv, SimTypes
  <2>2. deposit' = [n \in Nodes |-> deposit'[n]]
    BY DEF HarvestingSystem
  <2> QED BY <2>1, <2>2
<1>8. ASSUME NEW u \in Harvesters PROVE GoesOn(unit[u], Harvested(unit[u]))
  <2> DEFINE r == unit[u]
             task == IF r.task.type = "HARVEST" THEN NoTask ELSE r.task
  <2>1. r \in Soldier /\ r.state # None
    BY DEF Harvesters, SimInv, SimTypes, Alive
  <2>2. task \in Task /\ "IDLE" \in States \ {None}
    BY <2>1, Living DEF Soldier
  <2>3. \/ Harvested(r) = r
        \/ Harvested(r) = [r EXCEPT !.state = "IDLE", !.node = None, !.task = task]
    BY <2>1 DEF Harvested, Soldier
  <2> HIDE DEF r, task
  <2>4. GoesOn(r, r) /\ GoesOn(r, [r EXCEPT !.state = "IDLE", !.node = None, !.task = task])
    BY <2>1, <2>2 DEF GoesOn, Soldier
  <2> QED BY <2>3, <2>4 DEF r
<1>9. UnitsGoOn
  BY <1>8 DEF HarvestingSystem, UnitsGoOn, GoesOn, Harvesters, Alive, SimInv, SimTypes
<1>10. SimTypes' /\ OrdersGoOn
  BY <1>6, <1>7, <1>9 DEF HarvestingSystem, SimInv, SimTypes, OrdersGoOn, UnitsGoOn
<1>11. OneUse' /\ CapHolds' /\ \A f \in Sides : Bought(f)' = Bought(f)
  BY <1>9, <1>10, GoingOn
<1>12. ASSUME NEW f \in Sides PROVE credits'[f] + Worth(Bought(f))' = Funds + earned'[f]
  <2>1. credits[f] + Worth(Bought(f)) = Funds + earned[f]
    BY DEF SimInv, CreditsBalance
  <2>2. Worth(Bought(f)) \in Nat /\ credits[f] \in Nat /\ earned[f] \in Nat /\ Funds \in Nat
    BY BoughtIsPriced, WorthIsNat, SimAssumption DEF SimInv, SimTypes
  <2>3. Worth(Bought(f))' = Worth(Bought(f))
    BY <1>11 DEF Worth, Coins
  <2> QED BY <1>3, <1>4, <2>1, <2>2, <2>3
<1>13. CreditsBalance'
  BY <1>12 DEF CreditsBalance
<1> QED BY <1>10, <1>11, <1>13 DEF SimInv

\* Orders that are due give way to their units, or to what was paid for them.
LEMMA ProductionSystemKeeps == SimInv /\ ProductionSystem => SimInv'
<1> SUFFICES ASSUME SimInv, ProductionSystem PROVE SimInv'
  OBVIOUS
<1> DEFINE due     == {u \in DOMAIN queue : ~Pending(queue[u])}
           made    == {u \in due : HasBase(queue[u].owner)}
           lost(f) == {u \in due \ made : queue[u].owner = f}
           back(f) == [u \in lost(f) |-> Refund(queue[u].kind)]
<1>1. /\ unit' = [u \in Units |-> IF u \in made THEN Unit(queue[u].owner, queue[u].kind, TRUE)
                                              ELSE unit[u]]
      /\ credits' = [f \in Sides |-> credits[f] + Worth(back(f))]
      /\ queue' = [u \in DOMAIN queue \ due |-> queue[u]]
      /\ UNCHANGED <<building, deposit, shots, earned>>
  BY DEF ProductionSystem
<1>2. made \subseteq due /\ due \subseteq DOMAIN queue /\ DOMAIN queue \subseteq Units
  BY DEF SimInv, SimTypes
<1>3. \A f : lost(f) = {u \in due : u \notin made /\ queue[u].owner = f}
  OBVIOUS
<1>4. \A f : DOMAIN back(f) = lost(f) /\ \A u \in lost(f) : back(f)[u] = Cost[queue[u].kind]
  BY DEF Refund
<1> HIDE DEF due, made, lost, back
<1>5. \A u \in DOMAIN queue : queue[u] \in Order /\ unit[u] = Absent
  BY DEF SimInv, SimTypes, OneUse
<1>6. ASSUME NEW u \in made
      PROVE  /\ unit'[u] \in Soldier /\ unit'[u].owner = queue[u].owner
             /\ unit'[u].kind = queue[u].kind /\ unit'[u].produced /\ unit'[u].state = "IDLE"
  <2>1. unit'[u] = Unit(queue[u].owner, queue[u].kind, TRUE)
    BY <1>1, <1>2
  <2>2. queue[u] \in Order
    BY <1>2, <1>5
  <2>3. "IDLE" \in States /\ NoTask \in Task
    BY Living
  <2> QED BY <2>1, <2>2, <2>3 DEF Unit, Soldier, Order
<1>7. \A u \in Units \ made : unit'[u] = unit[u]
  BY <1>1
<1>8. ASSUME NEW f \in Sides
      PROVE  /\ Worth(back(f)) \in Nat
             /\ Worth(Bought(f)) = Worth(Bought(f))' + Worth(back(f))
             /\ Worth(Bought(f))' \in Nat
  <2> DEFINE old == Bought(f)
             new == Bought(f)'
  <2>1. DOMAIN old = Orders(f) \cup {v \in Units : unit[v].owner = f /\ unit[v].produced}
    BY DEF Bought
  <2>2. DOMAIN new = {u \in DOMAIN queue \ due : queue[u].owner = f}
                       \cup {v \in Units : unit'[v].owner = f /\ unit'[v].produced}
    BY <1>1 DEF Bought, Orders
  <2>3. \A v \in Units : unit'[v].owner = f /\ unit'[v].produced
           <=> (IF v \in made THEN queue[v].owner = f ELSE unit[v].owner = f /\ unit[v].produced)
    BY <1>6, <1>7
  <2>4. \A v \in DOMAIN queue : ~unit[v].produced
    BY <1>5 DEF Absent
  <2>5. DOMAIN new \cap DOMAIN back(f) = {} /\ DOMAIN old = DOMAIN new \cup DOMAIN back(f)
    BY <1>2, <1>3, <1>4, <2>1, <2>2, <2>3, <2>4 DEF Orders
  <2>6. ASSUME NEW u \in DOMAIN new PROVE new[u] = old[u]
    <3>1. u \in DOMAIN old
      BY <2>5
    <3>2. old[u] = Cost[IF u \in DOMAIN queue THEN queue[u].kind ELSE unit[u].kind]
      BY <3>1 DEF Bought
    <3>3. new[u] = Cost[IF u \in DOMAIN queue' THEN queue'[u].kind ELSE unit'[u].kind]
      BY DEF Bought
    <3>4. (IF u \in DOMAIN queue' THEN queue'[u].kind ELSE unit'[u].kind)
            = (IF u \in DOMAIN queue THEN queue[u].kind ELSE unit[u].kind)
      <4>1. CASE u \in DOMAIN queue /\ u \notin due
        BY <1>1, <4>1
      <4>2. CASE u \in due
        <5>1. u \in made
          BY <1>3, <1>4, <2>2, <2>3, <2>4, <2>5, <4>2, <1>2
        <5> QED BY <1>1, <1>2, <1>6, <4>2, <5>1
      <4>3. CASE u \notin DOMAIN queue
        <5>1. u \in Units \ made
          BY <1>2, <2>2, <4>3
        <5> QED BY <1>1, <1>7, <4>3, <5>1
      <4> QED BY <1>2, <4>1, <4>2, <4>3
    <3> QED BY <3>2, <3>3, <3>4
  <2>7. ASSUME NEW u \in DOMAIN back(f) PROVE back(f)[u] = old[u]
    <3>1. u \in DOMAIN queue /\ u \in DOMAIN old
      BY <1>2, <1>3, <1>4, <2>5
    <3> QED BY <1>4, <3>1 DEF Bought
  <2>8. IsFiniteSet(DOMAIN old) /\ \A u \in DOMAIN old : old[u] \in Nat
    BY BoughtIsPriced
  <2> HIDE DEF old, new
  <2>9. Worth(old) = Worth(new) + Worth(back(f)) /\ Worth(new) \in Nat /\ Worth(back(f)) \in Nat
    BY <2>5, <2>6, <2>7, <2>8, WorthAdds
  <2> QED BY <2>9 DEF old, new, Worth, Coins
<1>9. SimTypes'
  <2>1. unit' \in [Units -> Soldier]
    BY <1>1, <1>6, <1>7 DEF SimInv, SimTypes
  <2>2. credits' \in [Sides -> Nat]
    BY <1>1, <1>8 DEF SimInv, SimTypes
  <2>3. DOMAIN queue' \subseteq Units /\ queue' \in [DOMAIN queue' -> Order]
    BY <1>1, <1>2, <1>5
  <2> QED BY <1>1, <2>1, <2>2, <2>3 DEF SimInv, SimTypes
<1>10. OneUse'
  <2>1. ASSUME NEW u \in Units, u \notin made
        PROVE  /\ unit'[u].state = None => unit'[u] = Absent
               /\ unit'[u].state # None => unit'[u].owner \in Sides /\ unit'[u].kind \in DOMAIN ClassOf
    BY <1>7, <2>1 DEF SimInv, OneUse
  <2>2. ASSUME NEW u \in made
        PROVE  unit'[u].state # None /\ unit'[u].owner \in Sides /\ unit'[u].kind \in DOMAIN ClassOf
    BY <1>2, <1>5, <1>6 DEF Order, None
  <2>3. \A u \in DOMAIN queue' : unit'[u] = Absent
    BY <1>1, <1>2, <1>5, <1>7
  <2> QED BY <2>1, <2>2, <2>3 DEF OneUse
<1>11. ASSUME NEW f \in Sides, NEW c \in {"AIR", "ARMORED"}
       PROVE  Cardinality(Fielded(f, c))' + Cardinality(Ordered(f, c))' <= Cap(c)
  <2> DEFINE moved == {u \in made : queue[u].owner = f /\ ClassOf[queue[u].kind] \in SameCap(c)}
  <2>1. moved \subseteq Ordered(f, c)
    BY <1>2 DEF Ordered, Orders
  <2>2. Fielded(f, c)' \subseteq Fielded(f, c) \cup moved
    BY <1>6, <1>7 DEF Fielded, Alive
  <2>3. Ordered(f, c)' \subseteq Ordered(f, c) \ moved
    BY <1>1, <1>2 DEF Ordered, Orders
  <2> HIDE DEF moved
  <2>4. /\ IsFiniteSet(Fielded(f, c)) /\ Cardinality(Fielded(f, c)) \in Nat
        /\ IsFiniteSet(Ordered(f, c)) /\ Cardinality(Ordered(f, c)) \in Nat
        /\ Cardinality(Fielded(f, c)) + Cardinality(Ordered(f, c)) <= Cap(c)
    BY FieldedFinite DEF SimInv, CapHolds, Fielded, Ordered
  <2>5. IsFiniteSet(moved) /\ Cardinality(moved) \in Nat
    BY <2>1, <2>4, FS_Subset, FS_CardinalityType
  <2>6. Cardinality(Ordered(f, c) \ moved) = Cardinality(Ordered(f, c)) - Cardinality(moved)
    <3>1. Ordered(f, c) \cap moved = moved
      BY <2>1
    <3> QED BY <2>4, <3>1, FS_Difference
  <2>7. /\ IsFiniteSet(Fielded(f, c) \cup moved)
        /\ Cardinality(Fielded(f, c) \cup moved) <= Cardinality(Fielded(f, c)) + Cardinality(moved)
    <3>1. IsFiniteSet(Fielded(f, c) \cap moved)
      BY <2>4, FS_Intersection
    <3>2. Cardinality(Fielded(f, c) \cap moved) \in Nat
      BY <3>1, FS_CardinalityType
    <3>3. IsFiniteSet(Fielded(f, c) \cup moved)
      BY <2>4, <2>5, FS_Union
    <3>4. Cardinality(Fielded(f, c) \cup moved)
            = Cardinality(Fielded(f, c)) + Cardinality(moved) - Cardinality(Fielded(f, c) \cap moved)
      BY <2>4, <2>5, FS_Union
    <3> QED BY <2>4, <2>5, <3>2, <3>3, <3>4
  <2>8. Cardinality(Fielded(f, c)') <= Cardinality(Fielded(f, c) \cup moved)
        /\ Cardinality(Fielded(f, c)') \in Nat
    BY <2>2, <2>7, FS_Subset, FS_CardinalityType
  <2>9. Cardinality(Ordered(f, c)') <= Cardinality(Ordered(f, c) \ moved)
        /\ Cardinality(Ordered(f, c)') \in Nat
    <3>1. IsFiniteSet(Ordered(f, c) \ moved)
      BY <2>4, FS_Difference
    <3> QED BY <2>3, <3>1, FS_Subset, FS_CardinalityType
  <2>10. Cap(c) \in Nat /\ Cardinality(Fielded(f, c) \cup moved) \in Nat
    BY <2>7, FS_CardinalityType, SimAssumption DEF Cap
  <2> QED BY <2>4, <2>5, <2>6, <2>7, <2>8, <2>9, <2>10
<1>12. CapHolds'
  BY <1>11 DEF CapHolds, Fielded, Ordered, Cap
<1>13. ASSUME NEW f \in Sides PROVE credits'[f] + Worth(Bought(f))' = Funds + earned'[f]
  <2>1. credits[f] + Worth(Bought(f)) = Funds + earned[f]
    BY DEF SimInv, CreditsBalance
  <2>2. credits'[f] = credits[f] + Worth(back(f)) /\ earned'[f] = earned[f] /\ credits[f] \in Nat
    BY <1>1 DEF SimInv, SimTypes
  <2> QED BY <1>8, <2>1, <2>2
<1>14. CreditsBalance'
  BY <1>13 DEF CreditsBalance
<1> QED BY <1>9, <1>10, <1>12, <1>14 DEF SimInv
-----------------------------------------------------------------------------
LEMMA NextSim == SimInv /\ [SimNext]_simVars => SimInv'
<1> SUFFICES ASSUME SimInv, [SimNext]_simVars PROVE SimInv'
  OBVIOUS
<1>1. CASE Command
  <2>1. CASE \E b \in Buildings, k \in Kinds : Build(b, k)
    BY <2>1, BuildKeeps
  <2>2. CASE \E u \in Alive : Stop(u) \/ \E t \in Tasks(unit[u].owner) : Give(u, t)
    <3>1. \A u \in Alive : Tasks(unit[u].owner) # {}
      BY DEF Tasks
    <3> QED BY <2>2, <3>1, GiveKeeps
  <2> QED BY <1>1, <2>1, <2>2 DEF Command
<1>2. CASE EndInput \/ UNCHANGED simVars
  <2>1. UnitsGoOn
    BY <1>2 DEF EndInput, simVars, UnitsGoOn, SimInv, SimTypes
  <2> QED BY <1>2, <2>1, UnitsStep DEF EndInput, simVars, SimInv, SimTypes
<1>3. CASE \/ CommandSystem \/ MovementSystem \/ CombatSystem \/ ProjectileSystem
           \/ HarvestingSystem \/ FogOfWarSystem \/ ProductionSystem \/ VictorySystem
  BY <1>3, CommandSystemKeeps, MovementSystemKeeps, CombatSystemKeeps, ProjectileSystemKeeps,
     HarvestingSystemKeeps, FogOfWarSystemKeeps, ProductionSystemKeeps, VictorySystemKeeps
<1> QED BY <1>1, <1>2, <1>3 DEF SimNext, RunSystem

\* Every reachable state of a simulation satisfies the inductive invariant, whatever the orders
\* and wherever a tick is in the order of its systems (tickMatch of engine.ts).
THEOREM SimInvariant == SimSpec => []SimInv
  BY InitSim, NextSim, PTL DEF SimSpec

\* A faction never fields and orders more units of a class than the class's cap, with units that
\* die, orders that are refused and orders that are cancelled (production.ts), for every map,
\* price and cap.
THEOREM CapsHold == SimSpec => []CapHolds
<1>1. SimInv => CapHolds
  BY DEF SimInv
<1> QED BY SimInvariant, <1>1, PTL

\* No credits appear or vanish: what a faction has, and the worth of what it has bought, is what
\* it began with and has harvested or been refunded.
THEOREM CreditsAreKept == SimSpec => []CreditsBalance
<1>1. SimInv => CreditsBalance
  BY DEF SimInv
<1> QED BY SimInvariant, <1>1, PTL

\* The simulation is well typed; in particular no faction's credits and no deposit go below zero.
THEOREM SimTyped == SimSpec => []SimTypes
<1>1. SimInv => SimTypes
  BY DEF SimInv
<1> QED BY SimInvariant, <1>1, PTL

-----------------------------------------------------------------------------
(* OrdersSettle: how long it can take                                        *)

\* No order is older than its time, and after the production system none is as old.
OrdersOnTime ==
  \A u \in DOMAIN queue :
    queue[u].age <= Duration /\ (phase = "victory" => queue[u].age < Duration)

LEMMA OneSystemEach ==
  ASSUME NEW i \in 1 .. 9
  PROVE  After(Systems[i]) = Systems[(i % 9) + 1]
<1>1. Len(Systems) = 9
  BY DEF Systems
<1>2. \A j \in 1 .. 9 : Systems[j] = Systems[i] => j = i
  BY DEF Systems
<1>3. Place(Systems[i]) = i
  BY <1>1, <1>2 DEF Place
<1> QED BY <1>1, <1>3 DEF After

\* The victory system, and only it, comes after the production system.
LEMMA VictoryIsLast ==
  /\ After("victory") # "victory"
  /\ \A p \in {"input", "command", "movement", "combat", "projectile", "harvesting", "fog"} :
       After(p) # "victory"
<1>1. \A i \in {1, 2, 3, 4, 5, 6, 7, 9} : After(Systems[i]) # "victory"
  BY OneSystemEach DEF Systems
<1> QED BY <1>1 DEF Systems

LEMMA OrdersStep == SimInv /\ OrdersOnTime /\ [SimNext]_simVars => OrdersOnTime'
<1> SUFFICES ASSUME SimInv, OrdersOnTime, [SimNext]_simVars PROVE OrdersOnTime'
  OBVIOUS
<1> USE DEF Run
<1>1. \A u \in DOMAIN queue : queue[u].age \in Nat
  BY DEF SimInv, SimTypes, Order
<1>2. ASSUME queue' = queue, phase' # "victory" \/ phase' = phase PROVE OrdersOnTime'
  BY <1>2 DEF OrdersOnTime
<1>3. CASE Command
  <2>1. phase' = "input"
    BY <1>3 DEF Command, Build, Stop, Give
  <2>2. ASSUME NEW b \in Buildings, NEW k \in Kinds, Build(b, k) PROVE OrdersOnTime'
    <3>1. PICK new : queue' = [u \in DOMAIN queue \cup {new} |->
                       IF u = new THEN [owner |-> Owner[b], kind |-> k, age |-> 0] ELSE queue[u]]
      BY <2>2 DEF Build
    <3>2. \A u \in DOMAIN queue' : queue'[u].age = 0 \/ (u \in DOMAIN queue /\ queue'[u] = queue[u])
      BY <3>1
    <3> QED BY <2>1, <3>2, SimAssumption DEF OrdersOnTime
  <2>3. CASE queue' = queue
    BY <1>2, <2>1, <2>3
  <2> QED BY <1>3, <2>2, <2>3 DEF Command, Stop, Give
<1>4. CASE \/ EndInput \/ CommandSystem \/ MovementSystem \/ CombatSystem \/ ProjectileSystem
           \/ HarvestingSystem \/ FogOfWarSystem
  <2>1. queue' = queue
    BY <1>4 DEF EndInput, CommandSystem, MovementSystem, CombatSystem, ProjectileSystem,
                HarvestingSystem, FogOfWarSystem
  <2>2. \E p \in {"input", "command", "movement", "combat", "projectile", "harvesting", "fog"} :
          phase' = After(p)
    BY <1>4 DEF EndInput, CommandSystem, MovementSystem, CombatSystem, ProjectileSystem,
                HarvestingSystem, FogOfWarSystem
  <2> QED BY <1>2, <2>1, <2>2, VictoryIsLast
<1>5. CASE ProductionSystem
  <2>1. queue' = [u \in DOMAIN queue \ {v \in DOMAIN queue : ~Pending(queue[v])} |-> queue[u]]
    BY <1>5 DEF ProductionSystem
  <2> QED BY <1>1, <2>1, SimAssumption DEF OrdersOnTime, Pending
<1>6. CASE VictorySystem
  <2>1. phase = "victory" /\ phase' = After("victory")
    BY <1>6 DEF VictorySystem
  <2>2. queue' = [u \in DOMAIN queue |-> Aged(queue[u])]
    BY <1>6 DEF VictorySystem
  <2>3. ASSUME NEW u \in DOMAIN queue PROVE queue'[u].age <= Duration
    <3>1. queue'[u].age = queue[u].age + 1
      BY <2>2 DEF Aged, SimInv, SimTypes, Order
    <3>2. queue[u].age < Duration
      BY <2>1 DEF OrdersOnTime
    <3> QED BY <1>1, <3>1, <3>2, SimAssumption
  <2> QED BY <2>1, <2>2, <2>3, VictoryIsLast DEF OrdersOnTime
<1>7. CASE UNCHANGED simVars
  BY <1>2, <1>7 DEF simVars
<1> QED BY <1>3, <1>4, <1>5, <1>6, <1>7 DEF SimNext, RunSystem

\* No order waits longer than PRODUCTION_DURATION_TICKS ticks, be it for its unit or for its refund
\* (productionSystem of production.ts).
THEOREM OrdersComeDue == SimSpec => []OrdersOnTime
<1>1. SimInit => OrdersOnTime
  BY DEF SimInit, OrdersOnTime
<1> QED BY <1>1, OrdersStep, SimInvariant, PTL DEF SimSpec
=============================================================================
