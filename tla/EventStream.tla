---------------------------- MODULE EventStream ----------------------------
(***************************************************************************)
(* The Redis Streams driver of the event bus                               *)
(* (packages/events/src/drivers/redis.ts) and the processes of one         *)
(* consumer group.  Entries are numbered in the order of XADD; the group   *)
(* starts behind the entries that were there when it was created.          *)
(*                                                                         *)
(* A consumer's name is its host and process id, so a process that comes   *)
(* back has the name it had or another one, never that of a living one.    *)
(* A step is the code between two calls to Redis, or to the handlers.      *)
(***************************************************************************)
EXTENDS Integers, Sequences, FiniteSets

CONSTANTS
  Processes, \* the processes that subscribe (the API's); each may come back
  Names,     \* consumer names
  BatchSize,
  MaxEvents, \* bound: events published
  MaxFaults  \* bound: crashes, shutdowns, and calls to Redis that fail

NoGroup == -1
NoName  == "no name"
Ids     == 1 .. MaxEvents

ASSUME StreamAssumption ==
  /\ NoName \notin Names
  /\ BatchSize \in Nat \ {0}
  /\ MaxEvents \in Nat
  /\ MaxFaults \in Nat

VARIABLES
  added,  \* the number of entries in the stream
  group,  \* the entry the group was created behind
  last,   \* the last entry delivered to the group
  pel,    \* the entries delivered to each name and not acknowledged
  acked,  \* the acknowledged entries
  loop,   \* where the consume loop of each process is
  name,   \* the consumer name of each process
  cursor, \* what its next read asks for: "0", its own pending entries, or ">", new ones
  batch,  \* the entries it has read and not finished
  closed, \* has it been told to close, so that its handlers are gone?
  runs,   \* history: how often handlers have run for an entry
  unseen, \* history: entries acknowledged by a process that had no handlers any more
  faults

streamVars == <<added, group, last>>
loopVars   == <<name, cursor, closed>>
vars == <<streamVars, pel, acked, loop, loopVars, batch, runs, unseen, faults>>

Goto(p, step) == loop' = [loop EXCEPT ![p] = step]
Alive(p)      == loop[p] \notin {"off", "crashed"}
Fault         == faults < MaxFaults /\ faults' = faults + 1

Lowest(S, n) == {i \in S : Cardinality({j \in S : j < i}) < n}
-----------------------------------------------------------------------------
Init ==
  /\ added = 0
  /\ group = NoGroup
  /\ last = 0
  /\ pel = [n \in Names |-> {}]
  /\ acked = {}
  /\ loop = [p \in Processes |-> "off"]
  /\ name = [p \in Processes |-> NoName]
  /\ cursor = [p \in Processes |-> "0"]
  /\ batch = [p \in Processes |-> {}]
  /\ closed = [p \in Processes |-> FALSE]
  /\ runs = [i \in Ids |-> 0]
  /\ unseen = {}
  /\ faults = 0

\* publish: XADD, from the API or a worker.
Publish ==
  /\ added < MaxEvents
  /\ added' = added + 1
  /\ UNCHANGED <<group, last, pel, acked, loop, loopVars, batch, runs, unseen, faults>>

\* Mutant of FirstRead: a consumer begins with what is new.
FirstReadNew == ">"

FirstRead == "0"

\* A process starts and subscribes; its loop waits for ensureGroup.
Subscribe(p, n) ==
  /\ loop[p] = "off"
  /\ \A q \in Processes : Alive(q) => name[q] # n
  /\ name' = [name EXCEPT ![p] = n]
  /\ cursor' = [cursor EXCEPT ![p] = FirstRead]
  /\ closed' = [closed EXCEPT ![p] = FALSE]
  /\ Goto(p, "group")
  /\ UNCHANGED <<streamVars, pel, acked, batch, runs, unseen, faults>>

\* Mutant of GroupStart: the group of a starting process begins at the end, even if it exists.
GroupStartAgain == added

\* XGROUP CREATE ... $, which leaves a group that exists as it is (BUSYGROUP).
GroupStart == IF group = NoGroup THEN added ELSE last

EnsureGroup(p) ==
  /\ loop[p] = "group"
  /\ group' = IF group = NoGroup THEN added ELSE group
  /\ last' = GroupStart
  /\ Goto(p, "read")
  /\ UNCHANGED <<added, pel, acked, loopVars, batch, runs, unseen, faults>>

\* Any other error ends the loop for good; running stays set, so no later subscribe revives it.
EnsureGroupFails(p) ==
  /\ loop[p] = "group"
  /\ Fault
  /\ Goto(p, "crashed")
  /\ UNCHANGED <<streamVars, pel, acked, loopVars, batch, runs, unseen>>

\* Mutant of Pending: every consumer's pending entries.
PendingOfAll(p) == UNION {pel[n] : n \in Names}

Pending(p) == pel[name[p]]

\* XREADGROUP ... 0
ReadPending(p) ==
  /\ loop[p] = "read"
  /\ cursor[p] = "0"
  /\ IF Pending(p) = {}
     THEN cursor' = [cursor EXCEPT ![p] = ">"] /\ UNCHANGED <<batch, loop>>
     ELSE /\ batch' = [batch EXCEPT ![p] = Lowest(Pending(p), BatchSize)]
          /\ Goto(p, "dispatch")
          /\ UNCHANGED cursor
  /\ UNCHANGED <<streamVars, pel, acked, name, closed, runs, unseen, faults>>

New == Lowest(last + 1 .. added, BatchSize)

\* XREADGROUP ... >, once there is something new.
ReadNew(p) ==
  /\ loop[p] = "read"
  /\ cursor[p] = ">"
  /\ New # {}
  /\ last' = last + Cardinality(New)
  /\ pel' = [pel EXCEPT ![name[p]] = @ \cup New]
  /\ batch' = [batch EXCEPT ![p] = New]
  /\ Goto(p, "dispatch")
  /\ UNCHANGED <<added, group, acked, loopVars, runs, unseen, faults>>

\* The answer is lost: the entries are pending for a consumer that has not seen them.
ReadLost(p) ==
  /\ loop[p] = "read"
  /\ cursor[p] = ">"
  /\ New # {}
  /\ Fault
  /\ last' = last + Cardinality(New)
  /\ pel' = [pel EXCEPT ![name[p]] = @ \cup New]
  /\ UNCHANGED <<added, group, acked, loop, loopVars, batch, runs, unseen>>

Next1(p) == CHOOSE i \in batch[p] : \A j \in batch[p] : i <= j

\* dispatcher.dispatch: the handlers run, whatever they do; after close there are none.
Dispatch(p) ==
  /\ loop[p] = "dispatch"
  /\ runs' = IF closed[p] THEN runs ELSE [runs EXCEPT ![Next1(p)] = @ + 1]
  /\ Goto(p, "ack")
  /\ UNCHANGED <<streamVars, pel, acked, loopVars, batch, unseen, faults>>

\* After an entry: the next one, the next read, or the end.
AfterAck(p, rest) ==
  IF rest # {} THEN "dispatch" ELSE IF closed[p] THEN "off" ELSE "read"

\* Mutant of AckIds: the whole batch is acknowledged with its first entry.
AckIdsBatch(p) == batch[p]

AckIds(p) == {Next1(p)}

Acknowledge(p) ==
  /\ pel' = [pel EXCEPT ![name[p]] = @ \ AckIds(p)]
  /\ acked' = acked \cup AckIds(p)
  /\ unseen' = IF closed[p] THEN unseen \cup AckIds(p) ELSE unseen

\* XACK
Ack(p) ==
  LET rest == batch[p] \ AckIds(p)
  IN /\ loop[p] = "ack"
     /\ Acknowledge(p)
     /\ batch' = [batch EXCEPT ![p] = rest]
     /\ cursor' = IF rest = {} THEN [cursor EXCEPT ![p] = ">"] ELSE cursor
     /\ Goto(p, AfterAck(p, rest))
     /\ UNCHANGED <<streamVars, name, closed, runs, faults>>

\* XACK throws, done or not: the rest of the batch is given up, and with ">" not read again.
AckFails(p) ==
  /\ loop[p] = "ack"
  /\ Fault
  /\ Acknowledge(p) \/ UNCHANGED <<pel, acked, unseen>>
  /\ batch' = [batch EXCEPT ![p] = {}]
  /\ Goto(p, IF closed[p] THEN "off" ELSE "read")
  /\ UNCHANGED <<streamVars, loopVars, runs>>

\* close(): a loop that waits ends at once, one in a batch goes on to its end.
Close(p) ==
  /\ Alive(p)
  /\ ~closed[p]
  /\ Fault
  /\ closed' = [closed EXCEPT ![p] = TRUE]
  /\ Goto(p, IF batch[p] = {} THEN "off" ELSE loop[p])
  /\ UNCHANGED <<streamVars, pel, acked, name, cursor, batch, runs, unseen>>

\* The process dies, with what it had read still pending for its name.
Crash(p) ==
  /\ loop[p] # "off"
  /\ Fault
  /\ Goto(p, "off")
  /\ batch' = [batch EXCEPT ![p] = {}]
  /\ UNCHANGED <<streamVars, pel, acked, loopVars, runs, unseen>>

Loop(p) ==
  \/ EnsureGroup(p)
  \/ ReadPending(p)
  \/ ReadNew(p)
  \/ Dispatch(p)
  \/ Ack(p)

Next ==
  \/ Publish
  \/ \E p \in Processes :
       \/ \E n \in Names : Subscribe(p, n)
       \/ Loop(p)
       \/ EnsureGroupFails(p)
       \/ ReadLost(p)
       \/ AckFails(p)
       \/ Close(p)
       \/ Crash(p)

Spec == Init /\ [][Next]_vars

\* Redis answers a living process, and handlers return.
FairSpec == Spec /\ \A p \in Processes : WF_vars(Loop(p))
-----------------------------------------------------------------------------
TypeOK ==
  /\ added \in 0 .. MaxEvents
  /\ group \in 0 .. MaxEvents \cup {NoGroup}
  /\ last \in 0 .. added
  /\ pel \in [Names -> SUBSET Ids]
  /\ acked \subseteq Ids
  /\ loop \in [Processes -> {"off", "group", "read", "dispatch", "ack", "crashed"}]
  /\ name \in [Processes -> Names \cup {NoName}]
  /\ cursor \in [Processes -> {"0", ">"}]
  /\ batch \in [Processes -> SUBSET Ids]
  /\ closed \in [Processes -> BOOLEAN]
  /\ runs \in [Ids -> Nat]
  /\ unseen \subseteq Ids
  /\ faults \in 0 .. MaxFaults

\* Whatever dies or fails, an entry the group was given is acknowledged or pending, for one
\* name: none is dropped between two consumers, and none is in the hands of both.
NoneDropped ==
  group # NoGroup =>
    \A i \in group + 1 .. last :
      Cardinality({n \in Names : i \in pel[n]}) = (IF i \in acked THEN 0 ELSE 1)

\* An entry is acknowledged after handlers have seen it; only a process that is shutting down
\* acknowledges what nobody has looked at.
AckedWasSeen == \A i \in acked : runs[i] > 0 \/ i \in unseen

\* A process that comes back under the name it had works through the first batch that its
\* predecessor left pending, once nothing fails any more.
RestartResumes ==
  \A i \in Ids :
    /\ faults = MaxFaults
    /\ \E p \in Processes : loop[p] = "group" /\ i \in Lowest(pel[name[p]], BatchSize)
    ~> i \in acked
=============================================================================
