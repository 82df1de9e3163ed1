------------------------------ MODULE Lockstep ------------------------------
(***************************************************************************)
(* A running RTS match: the peers' stores (apps/player/lib/rts/store.ts    *)
(* and lockstep.ts), and the relay that carries their messages             *)
(* (services/api/src/realtime/ws.ts).                                      *)
(*                                                                         *)
(* tickMatch is a function of the state and of the commands of a tick, so  *)
(* a match is the sequence of the command lists its ticks took, its tick   *)
(* the length of that sequence, and its hash the sequence itself.  Peers   *)
(* advance at their own pace: a frame takes several ticks or none, and     *)
(* none while the player possesses a unit.                                 *)
(*                                                                         *)
(* The match goes on throughout: in GAME_OVER tickMatch changes nothing,   *)
(* and the frames after it only use up the commands of its last tick.      *)
(*                                                                         *)
(* The server relays a message when the membership query it started for    *)
(* it returns, in any order; a socket then delivers in the order of the    *)
(* broadcasts.  A socket that closes loses what it had not delivered, and  *)
(* what is published while it is closed.                                   *)
(***************************************************************************)
EXTENDS Integers, Sequences, FiniteSets, SequencesExt

CONSTANTS
  Peers,
  Host,       \* the peer that publishes snapshots
  Commands,   \* commands the players give, each once
  InputDelay, \* INPUT_DELAY_TICKS
  HashEvery,  \* STATE_HASH_INTERVAL_TICKS
  HashLimit,  \* HASH_HISTORY_LIMIT
  SnapEvery,  \* SNAPSHOT_INTERVAL_TICKS
  MaxSteps,   \* MAX_STEPS_PER_FRAME
  MaxTick,    \* bound: ticks of a match
  MaxFaults   \* bound: messages dropped by the relay, and sockets that close

ASSUME LockstepAssumption ==
  /\ Host \in Peers
  /\ InputDelay \in Nat
  /\ {HashEvery, HashLimit, SnapEvery, MaxSteps} \subseteq Nat \ {0}
  /\ {MaxTick, MaxFaults} \subseteq Nat

VARIABLES
  playing,   \* has the peer a match?
  match,     \* the commands each tick has taken
  buffer,    \* CommandBuffer.pendingByTick
  hashes,    \* localHashHistory
  pending,   \* pendingRemoteHashes
  desynced,  \* is "match desynced" shown?
  connected, \* is the peer's socket open?
  relay,     \* messages whose membership query is under way
  inbox,     \* messages broadcast to a socket and not yet delivered
  target,    \* history: the tick a command was issued for
  late,      \* history: commands a peer received after their tick
  rewound,   \* history: peers that have applied a snapshot
  faults

storeVars == <<playing, match, buffer, hashes, pending, desynced>>
netVars   == <<connected, relay, inbox>>
history   == <<target, late, rewound>>
lockstepVars == <<storeVars, netVars, history, faults>>

Ticks      == 0 .. MaxTick + InputDelay
HashTicks  == {t \in 1 .. MaxTick : t % HashEvery = 0}
NotIssued  == -1
Tick(p)    == Len(match[p])

StartMsg            == [type |-> "RTS_MATCH_START"]
CommandMsg(tick, c) == [type |-> "RTS_COMMAND", tick |-> tick, command |-> c]
HashMsg(tick, h)    == [type |-> "RTS_STATE_HASH", tick |-> tick, hash |-> h]
SnapshotMsg(s)      == [type |-> "RTS_SNAPSHOT", state |-> s]

\* The outbox is drained onto the socket every frame; a closed socket drops it.
Publish(p, msgs) ==
  relay' = IF connected[p] THEN relay \cup [from : {p}, msg : msgs] ELSE relay

LaterOf(a, b) == IF a >= b THEN a ELSE b
-----------------------------------------------------------------------------
\* RTS_MATCH_START has been broadcast to everybody in the session.
LockstepInit ==
  /\ playing = [p \in Peers |-> FALSE]
  /\ match = [p \in Peers |-> <<>>]
  /\ buffer = [p \in Peers |-> [t \in Ticks |-> <<>>]]
  /\ hashes = [p \in Peers |-> [t \in HashTicks |-> {}]]
  /\ pending = [p \in Peers |-> [t \in HashTicks |-> {}]]
  /\ desynced = [p \in Peers |-> FALSE]
  /\ connected = [p \in Peers |-> TRUE]
  /\ relay = {}
  /\ inbox = [p \in Peers |-> <<StartMsg>>]
  /\ target = [c \in Commands |-> NotIssued]
  /\ late = {}
  /\ rewound = {}
  /\ faults = 0

Schedule(p, tick, c) ==
  buffer' = [buffer EXCEPT ![p][LaterOf(tick, Tick(p))] = Append(@, c)]

IssueCommand(p, c) ==
  LET tick == Tick(p) + InputDelay
  IN /\ playing[p]
     /\ target[c] = NotIssued
     /\ Schedule(p, tick, c)
     /\ Publish(p, {CommandMsg(tick, c)})
     /\ target' = [target EXCEPT ![c] = tick]
     /\ UNCHANGED <<playing, match, hashes, pending, desynced, connected, inbox, late, rewound, faults>>

\* takeCommandsForTick, for n ticks from the current one.
Taken(p, n)  == [i \in 1 .. n |-> buffer[p][Tick(p) + i - 1]]
Untaken(p, n) ==
  [t \in Ticks |-> IF t \in Tick(p) .. Tick(p) + n - 1 THEN <<>> ELSE buffer[p][t]]

\* Mutant of Reports: every peer publishes snapshots.
ReportsByAll(p, s) ==
  {HashMsg(Len(s), s) : t \in {Len(s)} \cap HashTicks}
    \cup (IF Len(s) % SnapEvery = 0 THEN {SnapshotMsg(s)} ELSE {})

\* What a frame publishes when it ends on state s.
Reports(p, s) ==
  {HashMsg(Len(s), s) : t \in {Len(s)} \cap HashTicks}
    \cup (IF p = Host /\ Len(s) % SnapEvery = 0 THEN {SnapshotMsg(s)} ELSE {})

\* Mutant of Differs: a remembered hash is taken to agree.
DiffersNever(known, h) == FALSE

\* Is there a hash known for the tick, and another one?
Differs(known, h) == known \ {h} # {}

\* localHashHistory, known so far, with the hash of tick t: beyond the limit the oldest one goes.
Remembered(known, t, h) ==
  LET ticks  == {k \in HashTicks : k = t \/ known[k] # {}}
      oldest == {k \in ticks : Cardinality(ticks) > HashLimit /\ \A j \in ticks : k <= j}
  IN [k \in HashTicks |-> IF k \in oldest THEN {} ELSE IF k = t THEN {h} ELSE known[k]]

\* advance(): a frame of n ticks; hashes are recorded and compared for the tick it ends on.
Advance(p, n) ==
  LET s == match[p] \o Taken(p, n)
      t == Len(s)
  IN /\ playing[p]
     /\ Tick(p) + n <= MaxTick
     /\ match' = [match EXCEPT ![p] = s]
     /\ buffer' = [buffer EXCEPT ![p] = Untaken(p, n)]
     /\ IF t \in HashTicks
        THEN /\ hashes' = [hashes EXCEPT ![p] = Remembered(@, t, s)]
             /\ pending' = [pending EXCEPT ![p][t] = {}]
             /\ desynced' = [desynced EXCEPT ![p] = @ \/ Differs(pending[p][t], s)]
        ELSE UNCHANGED <<hashes, pending, desynced>>
     /\ Publish(p, Reports(p, s))
     /\ UNCHANGED <<playing, connected, inbox, history, faults>>
-----------------------------------------------------------------------------
(* onRealtimeMessage *)

\* startMatch
ReceiveStart(p) ==
  /\ playing' = [playing EXCEPT ![p] = TRUE]
  /\ match' = [match EXCEPT ![p] = <<>>]
  /\ buffer' = [buffer EXCEPT ![p] = [t \in Ticks |-> <<>>]]
  /\ hashes' = [hashes EXCEPT ![p] = [t \in HashTicks |-> {}]]
  /\ pending' = [pending EXCEPT ![p] = [t \in HashTicks |-> {}]]
  /\ desynced' = [desynced EXCEPT ![p] = FALSE]
  /\ UNCHANGED history

\* Mutant of ReceiveCommand: a command after its tick is dropped.
ReceiveCommandInTime(p, m) ==
  /\ IF playing[p] /\ m.tick >= Tick(p)
     THEN Schedule(p, m.tick, m.command) /\ UNCHANGED late
     ELSE UNCHANGED <<buffer, late>>
  /\ UNCHANGED <<playing, match, hashes, pending, desynced, target, rewound>>

\* receiveRemoteCommand: after its tick, the next tick takes the command.
ReceiveCommand(p, m) ==
  /\ IF playing[p]
     THEN /\ Schedule(p, m.tick, m.command)
          /\ late' = IF m.tick < Tick(p) THEN late \cup {<<p, m.command>>} ELSE late
     ELSE UNCHANGED <<buffer, late>>
  /\ UNCHANGED <<playing, match, hashes, pending, desynced, target, rewound>>

\* Mutant of ReceiveHash: compared with the state the peer is in.
ReceiveHashNow(p, m) ==
  /\ desynced' = [desynced EXCEPT ![p] = @ \/ (playing[p] /\ m.hash # match[p])]
  /\ UNCHANGED <<playing, match, buffer, hashes, pending, history>>

\* receiveRemoteStateHash: compared now, later, or not at all.
ReceiveHash(p, m) ==
  /\ IF hashes[p][m.tick] # {}
     THEN /\ desynced' = [desynced EXCEPT ![p] = @ \/ Differs(hashes[p][m.tick], m.hash)]
          /\ UNCHANGED pending
     ELSE /\ pending' = IF playing[p] /\ m.tick <= Tick(p) THEN pending
                        ELSE [pending EXCEPT ![p][m.tick] = {m.hash}]
          /\ UNCHANGED desynced
  /\ UNCHANGED <<playing, match, buffer, hashes, history>>

\* applySnapshot: commands of later ticks stay in the buffer.
ReceiveSnapshot(p, m) ==
  /\ playing' = [playing EXCEPT ![p] = TRUE]
  /\ match' = [match EXCEPT ![p] = m.state]
  /\ buffer' = [buffer EXCEPT ![p] =
                  [t \in Ticks |-> IF t > Len(m.state) THEN @[t] ELSE <<>>]]
  /\ desynced' = [desynced EXCEPT ![p] = FALSE]
  /\ rewound' = rewound \cup {p}
  /\ UNCHANGED <<hashes, pending, target, late>>

Receive(p) ==
  /\ inbox[p] # <<>>
  /\ LET m == Head(inbox[p])
     IN \/ m.type = "RTS_MATCH_START" /\ ReceiveStart(p)
        \/ m.type = "RTS_COMMAND" /\ ReceiveCommand(p, m)
        \/ m.type = "RTS_STATE_HASH" /\ ReceiveHash(p, m)
        \/ m.type = "RTS_SNAPSHOT" /\ ReceiveSnapshot(p, m)
  /\ inbox' = [inbox EXCEPT ![p] = Tail(@)]
  /\ UNCHANGED <<connected, relay, faults>>
-----------------------------------------------------------------------------
(* The relay *)

\* Whom a message of sender is broadcast to, among the open sockets.
Audience(sender) == Peers \ {sender}

Relay(r) ==
  /\ r \in relay
  /\ relay' = relay \ {r}
  /\ inbox' = [p \in Peers |-> IF p \in Audience(r.from) /\ connected[p]
                               THEN Append(inbox[p], r.msg) ELSE inbox[p]]
  /\ UNCHANGED <<storeVars, connected, history, faults>>

\* The membership query fails: the message is dropped.
Drop(r) ==
  /\ r \in relay
  /\ faults < MaxFaults
  /\ faults' = faults + 1
  /\ relay' = relay \ {r}
  /\ UNCHANGED <<storeVars, connected, inbox, history>>

Disconnect(p) ==
  /\ connected[p]
  /\ faults < MaxFaults
  /\ faults' = faults + 1
  /\ connected' = [connected EXCEPT ![p] = FALSE]
  /\ inbox' = [inbox EXCEPT ![p] = <<>>]
  /\ UNCHANGED <<storeVars, relay, history>>

Reconnect(p) ==
  /\ ~connected[p]
  /\ connected' = [connected EXCEPT ![p] = TRUE]
  /\ UNCHANGED <<storeVars, relay, inbox, history, faults>>

LockstepNext ==
  \/ \E p \in Peers :
       \/ \E c \in Commands : IssueCommand(p, c)
       \/ \E n \in 1 .. MaxSteps : Advance(p, n)
       \/ Receive(p)
       \/ Disconnect(p)
       \/ Reconnect(p)
  \/ \E r \in relay : Relay(r) \/ Drop(r)

LockstepSpec == LockstepInit /\ [][LockstepNext]_lockstepVars

\* Queries return and open sockets deliver; nobody has to go on playing.
FairLockstep ==
  /\ LockstepSpec
  /\ WF_lockstepVars(\E r \in relay : Relay(r))
  /\ \A p \in Peers : WF_lockstepVars(Receive(p))
-----------------------------------------------------------------------------
Match == {s \in Seq(Seq(Commands)) : Len(s) <= MaxTick}
Message ==
  {StartMsg}
    \cup [type : {"RTS_COMMAND"}, tick : Ticks, command : Commands]
    \cup [type : {"RTS_STATE_HASH"}, tick : HashTicks, hash : Match]
    \cup [type : {"RTS_SNAPSHOT"}, state : Match]

LockstepTypes ==
  /\ playing \in [Peers -> BOOLEAN]
  /\ match \in [Peers -> Match]
  /\ buffer \in [Peers -> [Ticks -> Seq(Commands)]]
  /\ hashes \in [Peers -> [HashTicks -> SUBSET Match]]
  /\ pending \in [Peers -> [HashTicks -> SUBSET Match]]
  /\ desynced \in [Peers -> BOOLEAN]
  /\ connected \in [Peers -> BOOLEAN]
  /\ relay \subseteq [from : Peers, msg : Message]
  /\ inbox \in [Peers -> Seq(Message)]
  /\ target \in [Commands -> Ticks \cup {NotIssued}]
  /\ late \subseteq Peers \X Commands
  /\ rewound \subseteq Peers
  /\ faults \in 0 .. MaxFaults

-----------------------------------------------------------------------------
\* How often command c is in a peer's past ticks and in its buffer, and on its way to it.
Places(lists, ticks, c) ==
  UNION {{t} \X {i \in DOMAIN lists[t] : lists[t][i] = c} : t \in ticks}

Applied(p, c)  == Places([t \in 0 .. Tick(p) - 1 |-> match[p][t + 1]], 0 .. Tick(p) - 1, c)
Buffered(p, c) == Places(buffer[p], Ticks, c)
Relayed(p, c)  ==
  {r \in relay : r.from # p /\ r.msg.type = "RTS_COMMAND" /\ r.msg.command = c}
Inbound(p, c)  ==
  {i \in DOMAIN inbox[p] : inbox[p][i].type = "RTS_COMMAND" /\ inbox[p][i].command = c}

\* While nothing fails and no snapshot interferes, every command given is on its way to a peer
\* or in its timeline, once, and there on the tick it was given for; later only if it came
\* after that tick.  A buffered one is for a tick to come, never left behind the peer.
CommandReachesAll ==
  faults = 0 =>
    \A p \in Peers \ rewound, c \in Commands :
      target[c] # NotIssued =>
        /\ Cardinality(Applied(p, c)) + Cardinality(Buffered(p, c))
             + Cardinality(Relayed(p, c)) + Cardinality(Inbound(p, c)) = 1
        /\ \A at \in Applied(p, c) \cup Buffered(p, c) :
             IF <<p, c>> \in late THEN at[1] > target[c] ELSE at[1] = target[c]
        /\ \A at \in Buffered(p, c) : at[1] >= Tick(p)

\* "Match desynced" is shown for a reason: some two peers did end the same tick in different states.
NoFalseAlarm ==
  rewound = {} /\ (\E p \in Peers : desynced[p]) =>
    \E p, q \in Peers : \E t \in 1 .. MaxTick :
      /\ t <= Tick(p) /\ t <= Tick(q)
      /\ SubSeq(match[p], 1, t) # SubSeq(match[q], 1, t)

\* A snapshot on its way brings a peer to a state the host has been in and goes on from.
SnapshotsAreHosts ==
  /\ \A r \in relay : r.msg.type = "RTS_SNAPSHOT" => IsPrefix(r.msg.state, match[Host])
  /\ \A p \in Peers : \A i \in DOMAIN inbox[p] :
       inbox[p][i].type = "RTS_SNAPSHOT" => IsPrefix(inbox[p][i].state, match[Host])

\* Once two peers have recorded different states for a tick, one of them finds out, unless a
\* message is lost, a snapshot puts an end to the difference, or a store has let go of its hash.
DriftIsNoticed ==
  \A t \in HashTicks, p, q \in Peers :
    hashes[p][t] # {} /\ hashes[q][t] # {} /\ hashes[p][t] # hashes[q][t]
      ~> \/ desynced[p] \/ desynced[q] \/ faults > 0 \/ rewound # {}
         \/ hashes[p][t] = {} \/ hashes[q][t] = {}
=============================================================================
