---------------------------- MODULE Matchmaking ----------------------------
(***************************************************************************)
(* POST /cloud/matchmake for one game (services/api/src/modules/cloud):    *)
(* a ticket row is created and queued, the caller whose queue then holds   *)
(* two tickets pops them, finds or creates a game server, and marks the    *)
(* popped tickets one by one.                                              *)
(*                                                                         *)
(* With REDIS_URL the queue is a Redis list, read and popped in separate   *)
(* calls, and outlives the process; without it the queue is an array of    *)
(* the process, and its push and pop run without another handler between   *)
(* them.  Every other step is the code between two database calls.         *)
(* A server is named by the request that created it.                       *)
(***************************************************************************)
EXTENDS Integers, Sequences, FiniteSets, SequencesExt

CONSTANTS
  Requests,   \* POST /cloud/matchmake requests; each creates one ticket
  Modes,
  Regions,
  MaxPlayers, \* game.maxPlayers
  MaxCrashes  \* bound: requests that fail at an await, and restarts

NoServer == "no server"
Queues == Modes \X Regions
TicketsToMatch == 2  \* REQUIRED_TICKETS_TO_MATCH

ASSUME MatchmakingAssumption ==
  /\ NoServer \notin Requests
  /\ MaxPlayers \in Nat \ {0}
  /\ MaxCrashes \in Nat

VARIABLES
  redis,   \* is REDIS_URL set?  Fixed when the process starts
  pc,      \* where each request is
  asked,   \* the queue it asked for: mode and region
  ticket,  \* MatchmakeTicket.status
  session, \* MatchmakeTicket.sessionId: the server the ticket was matched to
  queue,   \* the tickets waiting in each queue
  popped,  \* the tickets a request has taken from its queue
  found,   \* the server a request has read, as of then
  placed,  \* the server it allocated
  marked,  \* how many of its tickets it has marked
  server,  \* GameServer rows
  raced,   \* history: servers saved over a row that had changed since it was read
  crashes

vars == <<redis, pc, asked, ticket, session, queue, popped, found, placed, marked, server, raced, crashes>>
rowVars == <<ticket, session, server, raced>>

Ended(r)  == pc[r] \in {"idle", "done", "failed"}
Region(r) == asked[r][2]
Goto(r, step) == pc' = [pc EXCEPT ![r] = step]
-----------------------------------------------------------------------------
Init ==
  /\ redis \in BOOLEAN
  /\ pc = [r \in Requests |-> "idle"]
  /\ asked \in [Requests -> Queues]
  /\ ticket = [r \in Requests |-> "none"]
  /\ session = [r \in Requests |-> NoServer]
  /\ queue = [q \in Queues |-> <<>>]
  /\ popped = [r \in Requests |-> <<>>]
  /\ found = [r \in Requests |-> [name |-> NoServer, players |-> 0]]
  /\ placed = [r \in Requests |-> NoServer]
  /\ marked = [r \in Requests |-> 0]
  /\ server = [r \in Requests |-> [status |-> "none", players |-> 0]]
  /\ raced = {}
  /\ crashes = 0

CreateTicket(r) ==
  /\ pc[r] = "idle"
  /\ ticket' = [ticket EXCEPT ![r] = "SEARCHING"]
  /\ Goto(r, "push")
  /\ UNCHANGED <<redis, asked, session, queue, popped, found, placed, server, raced, marked, crashes>>

\* With fewer than two tickets the caller is told to wait.
AfterPop(r, taken) == IF taken = <<>> THEN "done" ELSE "find"

\* How many tickets MemoryMatchQueue.popIfAtLeast takes.
Splice(waiting) == IF Len(waiting) < TicketsToMatch THEN 0 ELSE TicketsToMatch

\* push, then popIfAtLeast, of the in-memory queue.
PushAndPop(r) ==
  LET waiting == Append(queue[asked[r]], r)
      n       == Splice(waiting)
  IN /\ pc[r] = "push"
     /\ ~redis
     /\ queue' = [queue EXCEPT ![asked[r]] = SubSeq(waiting, n + 1, Len(waiting))]
     /\ popped' = [popped EXCEPT ![r] = SubSeq(waiting, 1, n)]
     /\ Goto(r, AfterPop(r, popped'[r]))
     /\ UNCHANGED <<redis, asked, rowVars, found, placed, marked, crashes>>

\* RPUSH
Push(r) ==
  /\ pc[r] = "push"
  /\ redis
  /\ queue' = [queue EXCEPT ![asked[r]] = Append(@, r)]
  /\ Goto(r, "length")
  /\ UNCHANGED <<redis, asked, rowVars, popped, found, placed, marked, crashes>>

\* Mutant of CheckLength: the caller does not count its own ticket.
CheckLengthOthers(r) ==
  /\ pc[r] = "length"
  /\ Goto(r, IF Len(queue[asked[r]]) <= TicketsToMatch THEN "done" ELSE "pop1")
  /\ UNCHANGED <<redis, asked, rowVars, queue, popped, found, placed, marked, crashes>>

\* LLEN
CheckLength(r) ==
  /\ pc[r] = "length"
  /\ Goto(r, IF Len(queue[asked[r]]) < TicketsToMatch THEN "done" ELSE "pop1")
  /\ UNCHANGED <<redis, asked, rowVars, queue, popped, found, placed, marked, crashes>>

\* Mutant of Popped: the ticket is read and stays in the list.
Peeked(waiting) == waiting

\* What a pop leaves in the list.
Popped(waiting) == IF waiting = <<>> THEN <<>> ELSE Tail(waiting)

\* What a pop yields.
Taken(waiting) == IF waiting = <<>> THEN <<>> ELSE <<Head(waiting)>>

\* LPOP, twice; the list may have become empty.
PopOne(r) ==
  LET waiting == queue[asked[r]]
  IN /\ pc[r] \in {"pop1", "pop2"}
     /\ queue' = [queue EXCEPT ![asked[r]] = Popped(waiting)]
     /\ popped' = [popped EXCEPT ![r] = @ \o Taken(waiting)]
     /\ Goto(r, IF pc[r] = "pop1" THEN "pop2" ELSE AfterPop(r, popped'[r]))
     /\ UNCHANGED <<redis, asked, rowVars, found, placed, marked, crashes>>
-----------------------------------------------------------------------------
(* allocateGameServer *)

\* findFirst of a READY server in the region, in no particular order.
ReadyServers(region) ==
  {s \in Requests : server[s].status = "READY" /\ Region(s) = region}

FindServer(r) ==
  /\ pc[r] = "find"
  /\ \/ /\ ReadyServers(Region(r)) = {}
        /\ found' = [found EXCEPT ![r] = [name |-> NoServer, players |-> 0]]
     \/ \E s \in ReadyServers(Region(r)) :
          found' = [found EXCEPT ![r] = [name |-> s, players |-> server[s].players]]
  /\ Goto(r, "save")
  /\ UNCHANGED <<redis, asked, rowVars, queue, popped, placed, marked, crashes>>

Row(players) ==
  [status |-> IF players >= MaxPlayers THEN "FULL" ELSE "READY", players |-> players]

\* Mutant of Seats: a match takes one seat, however many tickets it has.
SeatsPerMatch(r) == 1

\* The players a match adds to its server.
Seats(r) == Len(popped[r])

HasRoom(r) ==
  /\ found[r].name # NoServer
  /\ found[r].players + Seats(r) <= MaxPlayers

SaveServer(r) ==
  LET s    == IF HasRoom(r) THEN found[r].name ELSE r
      base == IF HasRoom(r) THEN found[r].players ELSE 0
  IN /\ pc[r] = "save"
     /\ server' = [server EXCEPT ![s] = Row(base + Seats(r))]
     /\ raced' = IF server[s].players # base THEN raced \cup {s} ELSE raced
     /\ placed' = [placed EXCEPT ![r] = s]
     /\ Goto(r, "mark")
     /\ UNCHANGED <<redis, asked, ticket, session, queue, popped, found, marked, crashes>>

\* Mutant of LastMarked: the loop ends after the first ticket.
LastMarkedFirst(r) == TRUE

\* Is this the last of the tickets to be marked?
LastMarked(r) == marked[r] + 1 = Len(popped[r])

\* The popped tickets are updated in the order they were popped.
MarkTicket(r) ==
  LET t == popped[r][marked[r] + 1]
  IN /\ pc[r] = "mark"
     /\ ticket' = [ticket EXCEPT ![t] = "MATCHED"]
     /\ session' = [session EXCEPT ![t] = placed[r]]
     /\ marked' = [marked EXCEPT ![r] = @ + 1]
     /\ Goto(r, IF LastMarked(r) THEN "done" ELSE "mark")
     /\ UNCHANGED <<redis, asked, queue, popped, found, placed, server, raced, crashes>>

\* The ticket a matched request is answered with: its own if it is among those it popped,
\* else the first of them.
Self(r) == IF r \in ToSet(popped[r]) THEN r ELSE Head(popped[r])
-----------------------------------------------------------------------------
\* A call of the handler throws; nothing takes back what it has done.
Fail(r) ==
  /\ ~Ended(r)
  /\ crashes < MaxCrashes
  /\ crashes' = crashes + 1
  /\ Goto(r, "failed")
  /\ UNCHANGED <<redis, asked, rowVars, queue, popped, found, placed, marked>>

\* The process restarts: requests under way are lost, and the in-memory queue with them.
Restart ==
  /\ crashes < MaxCrashes
  /\ crashes' = crashes + 1
  /\ pc' = [r \in Requests |-> IF Ended(r) THEN pc[r] ELSE "failed"]
  /\ queue' = IF redis THEN queue ELSE [q \in Queues |-> <<>>]
  /\ UNCHANGED <<redis, asked, rowVars, popped, found, placed, marked>>

Step(r) ==
  \/ CreateTicket(r)
  \/ PushAndPop(r)
  \/ Push(r)
  \/ CheckLength(r)
  \/ PopOne(r)
  \/ FindServer(r)
  \/ SaveServer(r)
  \/ MarkTicket(r)

Next == Restart \/ \E r \in Requests : Step(r) \/ Fail(r)

Spec == Init /\ [][Next]_vars

\* A handler that has started goes on unless one of its calls fails.
FairSpec == Spec /\ \A r \in Requests : WF_vars(Step(r) /\ pc[r] # "idle")
-----------------------------------------------------------------------------
TypeOK ==
  /\ redis \in BOOLEAN
  /\ pc \in [Requests -> {"idle", "push", "length", "pop1", "pop2", "find", "save", "mark",
                          "done", "failed"}]
  /\ asked \in [Requests -> Queues]
  /\ ticket \in [Requests -> {"none", "SEARCHING", "MATCHED"}]
  /\ session \in [Requests -> Requests \cup {NoServer}]
  /\ queue \in [Queues -> Seq(Requests)]
  /\ popped \in [Requests -> Seq(Requests)]
  /\ found \in [Requests -> [name : Requests \cup {NoServer}, players : Nat]]
  /\ placed \in [Requests -> Requests \cup {NoServer}]
  /\ marked \in [Requests -> Nat]
  /\ server \in [Requests -> [status : {"none", "READY", "FULL"}, players : Nat]]
  /\ raced \subseteq Requests
  /\ crashes \in 0 .. MaxCrashes

\* A ticket is taken by one request only, whatever the requests on its queue do between
\* LLEN and the two LPOPs, and whoever dies with it in hand.
TakenOnce ==
  /\ \A r1, r2 \in Requests :
       r1 # r2 => ToSet(popped[r1]) \cap ToSet(popped[r2]) = {}
  /\ \A q \in Queues, r \in Requests : ToSet(queue[q]) \cap ToSet(popped[r]) = {}

\* The players of a server are the tickets of the matches placed on it, and fit in it, as long
\* as no match has saved the row over a change it had not read; dead requests do not matter.
\* (A server made for a match is as large as the match, whatever the game allows.)
SeatsCounted ==
  \A s \in Requests \ raced :
    LET matches == {r \in Requests : placed[r] = s}
    IN /\ server[s].players = Cardinality(UNION {ToSet(popped[r]) : r \in matches})
       /\ server[s].players <= MaxPlayers \/ matches = {s}

\* Nobody is left waiting next to somebody else: when no request is between its push and its
\* pops, a queue holds fewer tickets than make a match, unless a request has died.
NoPairWaits ==
  crashes = 0 =>
    \A q \in Queues :
      \/ Len(queue[q]) < TicketsToMatch
      \/ \E r \in Requests : asked[r] = q /\ pc[r] \in {"length", "pop1", "pop2"}

\* A ticket that was taken out of its queue is matched, unless the request that took it dies:
\* then nothing ever looks at it again.
TakenIsMatched ==
  \A r, t \in Requests :
    t \in ToSet(popped[r]) ~> ticket[t] = "MATCHED" \/ pc[r] = "failed"
=============================================================================
