----------------------------- MODULE RtsLobby ------------------------------
(***************************************************************************)
(* The lobby of one RTS match, from POST /games/:id/rts/sessions to the    *)
(* RTS_MATCH_START broadcast and the end of the session                    *)
(* (services/api/src/modules/games).                                       *)
(*                                                                         *)
(* The session row and its player rows are in Postgres; seed, factions and *)
(* ready users are one record of the RTS session store.  The in-memory     *)
(* store hands every handler the SAME object, the Redis store a copy that  *)
(* the handler later writes back whole.  A step is the code between two    *)
(* awaits that another handler can see.                                    *)
(***************************************************************************)
EXTENDS Integers, FiniteSets

CONSTANTS
  Users,
  Creator,     \* who created the session
  Factions,
  HostFaction, \* the first of RTS_FACTIONS
  Joins,       \* POST /sessions/:id/rts/join requests
  Readies,     \* POST /sessions/:id/rts/ready requests
  Tunes,       \* PATCH /sessions/:id/rts/difficulty requests
  PlainJoins,  \* POST /sessions/:id/join requests
  Ends,        \* POST /sessions/:id/end requests
  Store,       \* "MEMORY" or "REDIS"
  MaxOpen,     \* bound: requests in progress at once
  MaxCrashes   \* bound: requests that fail at one of their awaits

Requests == Joins \cup Readies \cup Tunes \cup PlainJoins \cup Ends
AI    == "AI"
NoOne == "no one"
Unnamed == "no faction named"

ASSUME LobbyAssumption ==
  /\ Creator \in Users
  /\ AI \notin Users /\ NoOne \notin Users
  /\ HostFaction \in Factions
  /\ Unnamed \notin Factions
  /\ IsFiniteSet(Factions)
  /\ Store \in {"MEMORY", "REDIS"}
  /\ MaxOpen \in Nat /\ MaxCrashes \in Nat
  /\ Joins \cap (Readies \cup Tunes \cup PlainJoins \cup Ends) = {}
  /\ Readies \cap (Tunes \cup PlainJoins \cup Ends) = {}
  /\ Tunes \cap (PlainJoins \cup Ends) = {}
  /\ PlainJoins \cap Ends = {}

VARIABLES
  status,  \* GameSession.status
  rows,    \* the active GameSessionPlayer row of the host and each request: its user
  record,  \* the RTS record in the store
  live,    \* the status in the live session store
  starts,  \* the roster each ready request broadcast with RTS_MATCH_START
  told,    \* the faction a user's last join was answered with
  acked,   \* users whose ready was accepted since their last join
  pc,      \* where each request is
  user,    \* who sent it
  want,    \* the faction a join asks for
  copy,    \* the record it read, as of then
  humans,  \* the players a ready request saw when it marked its user
  seen,    \* the session status it will write to the live store
  crashes,
  underway  \* history: the requests in progress when the session left its lobby

sessionVars == <<status, rows, live>>
answerVars  == <<starts, told, acked>>
localVars   == <<user, want, copy, humans, seen>>
vars == <<sessionVars, record, answerVars, localVars, pc, crashes, underway>>

Creation == "creation"
NoRoster == [f \in Factions |-> NoOne]

InProgress(h) == pc[h] \notin {"idle", "done", "failed"}
MayStart == Cardinality({g \in Requests : InProgress(g)}) < MaxOpen

Goto(h, step) == pc' = [pc EXCEPT ![h] = step]

Humans(rts) == {u \in Users : \E f \in Factions : rts.assign[f] = u}

\* Mutant of Object: a request changes a copy of its own in both stores.
ObjectCopy(h) == copy[h]

\* What a request has read from the store, where that is a copy.
Keep(h, rts) == copy' = IF Store = "MEMORY" THEN copy ELSE [copy EXCEPT ![h] = rts]

\* The object a handler changes between its get and its set.
Object(h) == IF Store = "MEMORY" THEN record ELSE copy[h]

\* The step that takes the session out of its lobby finds these under way.
NoteUnderway ==
  underway' = IF status = "LOBBY" /\ status' # "LOBBY"
              THEN {h \in Requests : InProgress(h)} ELSE underway

ActiveRows == {h \in DOMAIN rows : rows[h] # NoOne}
-----------------------------------------------------------------------------
Init ==
  /\ status = "LOBBY"
  /\ rows = [h \in Requests \cup {Creation} |-> IF h = Creation THEN Creator ELSE NoOne]
  /\ record = [assign |-> [f \in Factions |-> IF f = HostFaction THEN Creator ELSE AI],
               ready |-> {}, difficulty |-> "Beginner"]
  /\ live = "LOBBY"
  /\ starts = [r \in Readies |-> NoRoster]
  /\ told = [u \in Users |-> IF u = Creator THEN HostFaction ELSE Unnamed]
  /\ acked = {}
  /\ pc = [h \in Requests |-> "idle"]
  /\ user = [h \in Requests |-> Creator]
  /\ want = [j \in Joins |-> Unnamed]
  /\ copy = [h \in Requests |-> record]
  /\ humans = [r \in Readies |-> {}]
  /\ seen = [h \in Requests |-> "LOBBY"]
  /\ crashes = 0
  /\ underway = {}
-----------------------------------------------------------------------------
(* POST /sessions/:id/rts/join *)

\* Mutant of BeginJoin: joining a match that has started.
BeginJoinLate(j) ==
  /\ pc[j] = "idle"
  /\ MayStart
  /\ \E u \in Users : user' = [user EXCEPT ![j] = u]
  /\ \E f \in Factions \cup {Unnamed} : want' = [want EXCEPT ![j] = f]
  /\ seen' = [seen EXCEPT ![j] = status]
  /\ Goto(j, "get")
  /\ UNCHANGED <<sessionVars, record, answerVars, copy, humans, crashes, underway>>

BeginJoin(j) ==
  /\ pc[j] = "idle"
  /\ MayStart
  /\ \E u \in Users : user' = [user EXCEPT ![j] = u]
  /\ \E f \in Factions \cup {Unnamed} : want' = [want EXCEPT ![j] = f]
  /\ seen' = [seen EXCEPT ![j] = status]
  /\ Goto(j, IF status = "LOBBY" THEN "get" ELSE "done")
  /\ UNCHANGED <<sessionVars, record, answerVars, copy, humans, crashes, underway>>

\* rtsStore.get, for every handler that calls it.
GetRecord(h, next) ==
  /\ pc[h] = "get"
  /\ Keep(h, record)
  /\ Goto(h, next)
  /\ UNCHANGED <<sessionVars, record, answerVars, user, want, humans, seen, crashes, underway>>

\* maxPlayers is the number of factions.
Full == Cardinality(ActiveRows) >= Cardinality(Factions)

HasRow(u) == \E h \in DOMAIN rows : rows[h] = u

\* The two ways into a session share this check; the row is created an await later.
CountPlayers(h, next) ==
  /\ pc[h] = "count"
  /\ Goto(h, IF HasRow(user[h]) THEN next ELSE IF Full THEN "done" ELSE "row")
  /\ UNCHANGED <<sessionVars, record, answerVars, localVars, crashes, underway>>

CreateRow(h, next) ==
  /\ pc[h] = "row"
  /\ rows' = [rows EXCEPT ![h] = user[h]]
  /\ Goto(h, next)
  /\ UNCHANGED <<status, live, record, answerVars, localVars, crashes, underway>>

\* What a join may be given: the faction it names unless somebody else holds it,
\* otherwise the one its user holds, otherwise an open one (in the code the first).
Grants(rts, u, f) ==
  LET held == {g \in Factions : rts.assign[g] = u}
      open == {g \in Factions : rts.assign[g] = AI}
  IN IF f # Unnamed THEN {f} \cap (held \cup open)
     ELSE IF held # {} THEN held ELSE open

\* Mutant of Seated: the user's former faction is not given back.
SeatedTwice(rts, u, f) ==
  [rts EXCEPT !.assign[f] = u, !.ready = @ \ {u}]

\* A user who takes a faction gives back the one held before and is not ready.
Seated(rts, u, f) ==
  [rts EXCEPT !.assign = [g \in Factions |->
     IF g = f THEN u ELSE IF rts.assign[g] = u THEN AI ELSE rts.assign[g]],
              !.ready = @ \ {u}]

\* Computed on the record read before the row was created, and written back.  A
\* refused join keeps its player row.
TakeFaction(j) ==
  LET u == user[j]
      grants == Grants(Object(j), u, want[j])
  IN /\ pc[j] = "take"
     /\ \/ /\ grants = {}
           /\ Goto(j, "done")
           /\ UNCHANGED <<record, told, acked>>
        \/ \E f \in grants :
             /\ record' = Seated(Object(j), u, f)
             /\ told' = [told EXCEPT ![u] = f]
             /\ acked' = acked \ {u}
             /\ Goto(j, "sync")
     /\ UNCHANGED <<sessionVars, starts, localVars, crashes, underway>>

\* syncLiveState, with the session as this handler last saw it.
SyncLive(h, next) ==
  /\ pc[h] = "sync"
  /\ live' = seen[h]
  /\ Goto(h, next)
  /\ UNCHANGED <<status, rows, record, answerVars, localVars, crashes, underway>>
-----------------------------------------------------------------------------
(* POST /sessions/:id/rts/ready *)

BeginReady(r) ==
  /\ pc[r] = "idle"
  /\ MayStart
  /\ \E u \in Users : user' = [user EXCEPT ![r] = u]
  /\ Goto(r, IF status = "LOBBY" THEN "get" ELSE "done")
  /\ UNCHANGED <<sessionVars, record, answerVars, want, copy, humans, seen, crashes, underway>>

MarkReady(r) ==
  LET u == user[r]
      rts == [Object(r) EXCEPT !.ready = @ \cup {u}]
  IN /\ pc[r] = "mark"
     /\ \/ /\ u \notin Humans(Object(r))
           /\ Goto(r, "done")
           /\ UNCHANGED <<record, copy, humans, acked>>
        \/ /\ u \in Humans(Object(r))
           /\ record' = rts
           /\ Keep(r, rts)
           /\ humans' = [humans EXCEPT ![r] = Humans(rts)]
           /\ acked' = acked \cup {u}
           /\ Goto(r, "check")
     /\ UNCHANGED <<sessionVars, starts, told, user, want, seen, crashes, underway>>

\* Mutant of AllReady: looked up before the request's own mark was added.
AllOthersReady(r) == humans[r] # {} /\ humans[r] \subseteq Object(r).ready \ {user[r]}

\* The players as of MarkReady, the ready users as of now.
AllReady(r) == humans[r] # {} /\ humans[r] \subseteq Object(r).ready

CheckReady(r) ==
  /\ pc[r] = "check"
  /\ Goto(r, IF AllReady(r) THEN "start" ELSE "done")
  /\ UNCHANGED <<sessionVars, record, answerVars, localVars, crashes, underway>>

\* The row is set to RUNNING whatever its status is by now.
StartMatch(r) ==
  /\ pc[r] = "start"
  /\ status' = "RUNNING"
  /\ seen' = [seen EXCEPT ![r] = "RUNNING"]
  /\ Goto(r, "sync")
  /\ NoteUnderway
  /\ UNCHANGED <<rows, live, record, answerVars, user, want, copy, humans, crashes>>

Broadcast(r) ==
  /\ pc[r] = "publish"
  /\ starts' = [starts EXCEPT ![r] = Object(r).assign]
  /\ Goto(r, "done")
  /\ UNCHANGED <<sessionVars, record, told, acked, localVars, crashes, underway>>
-----------------------------------------------------------------------------
(* PATCH /sessions/:id/rts/difficulty, by the host *)

BeginTune(t) ==
  /\ pc[t] = "idle"
  /\ MayStart
  /\ Goto(t, IF status = "LOBBY" THEN "get" ELSE "done")
  /\ UNCHANGED <<sessionVars, record, answerVars, localVars, crashes, underway>>

SetDifficulty(t) ==
  /\ pc[t] = "tune"
  /\ record' = [Object(t) EXCEPT !.difficulty = "Pro"]
  /\ Goto(t, "done")
  /\ UNCHANGED <<sessionVars, answerVars, localVars, crashes, underway>>
-----------------------------------------------------------------------------
(* POST /sessions/:id/join, which does not ask whether the session is an RTS *)
(* match, and POST /sessions/:id/end                                         *)

BeginPlainJoin(p) ==
  /\ pc[p] = "idle"
  /\ MayStart
  /\ \E u \in Users : user' = [user EXCEPT ![p] = u]
  /\ seen' = [seen EXCEPT ![p] = status]
  /\ Goto(p, IF status = "ENDED" THEN "done" ELSE "count")
  /\ UNCHANGED <<sessionVars, record, answerVars, want, copy, humans, crashes, underway>>

\* A second player starts a session that was in its lobby when this request read it.
UpdateSession(p) ==
  /\ pc[p] = "update"
  /\ status' = IF seen[p] = "LOBBY" /\ Cardinality(ActiveRows) > 1 THEN "RUNNING" ELSE status
  /\ seen' = [seen EXCEPT ![p] = status']
  /\ Goto(p, "sync")
  /\ NoteUnderway
  /\ UNCHANGED <<rows, live, record, answerVars, user, want, copy, humans, crashes>>

BeginEnd(e) ==
  /\ pc[e] = "idle"
  /\ MayStart
  /\ Goto(e, "leave")
  /\ UNCHANGED <<sessionVars, record, answerVars, localVars, crashes, underway>>

PlayersLeave(e) ==
  /\ pc[e] = "leave"
  /\ rows' = [h \in DOMAIN rows |-> NoOne]
  /\ Goto(e, "end")
  /\ UNCHANGED <<status, live, record, answerVars, localVars, crashes, underway>>

EndSession(e) ==
  /\ pc[e] = "end"
  /\ status' = "ENDED"
  /\ seen' = [seen EXCEPT ![e] = "ENDED"]
  /\ Goto(e, "sync")
  /\ NoteUnderway
  /\ UNCHANGED <<rows, live, record, answerVars, user, want, copy, humans, crashes>>
-----------------------------------------------------------------------------
\* A rejected await ends the request where it is.
Fail(h) ==
  /\ InProgress(h)
  /\ crashes < MaxCrashes
  /\ crashes' = crashes + 1
  /\ Goto(h, "failed")
  /\ UNCHANGED <<sessionVars, record, answerVars, localVars, underway>>

JoinStep(j) ==
  \/ GetRecord(j, "count") \/ CountPlayers(j, "take") \/ CreateRow(j, "take")
  \/ TakeFaction(j) \/ SyncLive(j, "done")
ReadyStep(r) ==
  \/ GetRecord(r, "mark") \/ MarkReady(r) \/ CheckReady(r) \/ StartMatch(r)
  \/ SyncLive(r, "publish") \/ Broadcast(r)
TuneStep(t) == GetRecord(t, "tune") \/ SetDifficulty(t)
PlainJoinStep(p) ==
  \/ CountPlayers(p, "update") \/ CreateRow(p, "update")
  \/ UpdateSession(p) \/ SyncLive(p, "done")
EndStep(e) == PlayersLeave(e) \/ EndSession(e) \/ SyncLive(e, "done")

Next ==
  \/ \E j \in Joins : BeginJoin(j) \/ JoinStep(j)
  \/ \E r \in Readies : BeginReady(r) \/ ReadyStep(r)
  \/ \E t \in Tunes : BeginTune(t) \/ TuneStep(t)
  \/ \E p \in PlainJoins : BeginPlainJoin(p) \/ PlainJoinStep(p)
  \/ \E e \in Ends : BeginEnd(e) \/ EndStep(e)
  \/ \E h \in Requests : Fail(h)

Spec == Init /\ [][Next]_vars

\* A request the server has accepted runs on; nobody has to send one.
FairSpec ==
  /\ Spec
  /\ \A j \in Joins : WF_vars(JoinStep(j))
  /\ \A r \in Readies : WF_vars(ReadyStep(r))
-----------------------------------------------------------------------------
Statuses == {"LOBBY", "RUNNING", "ENDED"}
Rosters  == [Factions -> Users \cup {AI}]
Records  == [assign : Rosters, ready : SUBSET Users, difficulty : {"Beginner", "Pro"}]
Steps    == {"idle", "get", "count", "row", "take", "sync", "mark", "check", "start",
             "publish", "tune", "update", "leave", "end", "done", "failed"}

\* Rows, the record and local variables keep their shape.
TypeOK ==
  /\ status \in Statuses /\ live \in Statuses
  /\ rows \in [Requests \cup {Creation} -> Users \cup {NoOne}]
  /\ record \in Records
  /\ starts \in [Readies -> Rosters \cup {NoRoster}]
  /\ told \in [Users -> Factions \cup {Unnamed}]
  /\ acked \subseteq Users
  /\ pc \in [Requests -> Steps]
  /\ user \in [Requests -> Users]
  /\ want \in [Joins -> Factions \cup {Unnamed}]
  /\ copy \in [Requests -> Records]
  /\ humans \in [Readies -> SUBSET Users]
  /\ seen \in [Requests -> Statuses]
  /\ crashes \in 0..MaxCrashes
  /\ underway \subseteq Requests

Consistent(rts) ==
  /\ rts.ready \subseteq Humans(rts)
  /\ \A f, g \in Factions : rts.assign[f] = rts.assign[g] /\ rts.assign[f] # AI => f = g

\* "userIds (must each hold a faction)", and nobody holds two: in both stores and
\* in every interleaving, although joins, swaps and ready marks are computed on
\* records that may be stale by the time they are stored.
RecordConsistent == Consistent(record)

\* A user keeps the faction a join was answered with and the ready mark a request
\* was answered with, until a request of the user's own changes it.
AnswersHold ==
  /\ \A u \in Users : told[u] # Unnamed => record.assign[told[u]] = u
  /\ acked \subseteq record.ready

\* "gate the RTS_MATCH_START broadcast on every human player readying up": every
\* human of a roster that is broadcast has readied up, and not swapped since.  The
\* roster is read again after three awaits, and the code breaks this.
StartIsAgreed == \A r \in Readies : pc[r] = "publish" => Humans(Object(r)) \subseteq acked

\* Who plays which faction can change under a match that was broadcast, but only by
\* a request that was under way when the session left its lobby: however requests
\* overlap and fail, none that comes later touches the roster.
RosterFixed ==
  [][\A r \in Readies : starts[r] # NoRoster /\ record'.assign # record.assign =>
       \E h \in underway : InProgress(h) /\ pc'[h] # pc[h]]_vars

\* If in the end every human is ready and stays so, the match starts unless a ready
\* request fails: the last of any number of simultaneous ready requests sees the
\* marks of all.
ReadyStarts ==
  <>[](Humans(record) \subseteq record.ready /\ \A r \in Readies : pc[r] # "failed")
    => <>(status # "LOBBY")
=============================================================================
