------------------------------- MODULE RtsSim -------------------------------
(***************************************************************************)
(* The simulation of a real-time strategy match (packages/rts-sim): the    *)
(* commands of a tick and the systems that tickMatch runs after them, in   *)
(* its order, over units, buildings, Sotolium, credits and build orders.   *)
(*                                                                         *)
(* Where things are is left out: whether a unit is in range, arrives, has  *)
(* an enemy near or is hit is open at every tick.  A unit or building is   *)
(* whole or has no health; amounts of Sotolium and credits are small.  The *)
(* id of a unit is drawn when it is ordered, and names the order too.      *)
(***************************************************************************)
EXTENDS Integers, Sequences, FiniteSets

CONSTANTS
  Sides,       \* the factions of the match
  Units,       \* the ids of units, placed or produced
  Placed,      \* the units a match starts with, with their owner and kind
  Kinds,       \* what can be ordered: a class, with an archetype or without
  ClassOf,     \* the class of a kind
  Cost,        \* its cost
  Naval,       \* the kinds for biome SEA only
  Sea,         \* is it one?
  Buildings,
  Owner,       \* the faction of a building
  Nodes,       \* places with Sotolium
  Deposit,     \* bound: what a node starts with, in ticks of one harvester
  Yield,       \* the credits of a full batch
  Funds,       \* STARTING_CREDITS
  GroundCap,
  AirCap,
  Duration,    \* PRODUCTION_DURATION_TICKS
  MaxCommands  \* bound: commands in a match, of players and AI commanders

ASSUME SimAssumption ==
  /\ IsFiniteSet(Units)
  /\ ClassOf \in [DOMAIN ClassOf -> DOMAIN ClassOf \cap {"INFANTRY", "ARMORED", "AIR"}]
  /\ Kinds \subseteq DOMAIN ClassOf
  /\ Placed \in [DOMAIN Placed -> [owner : Sides, kind : DOMAIN ClassOf]]
  /\ DOMAIN Placed \subseteq Units
  /\ Cost \in [DOMAIN ClassOf -> Nat]
  /\ Owner \in [Buildings -> Sides]
  /\ {Deposit, Yield, Funds, GroundCap, AirCap, Duration, MaxCommands} \subseteq Nat

VARIABLES
  unit,     \* the units: state, owner, kind, command, path, node to harvest, health
  building, \* do the buildings have health?
  deposit,  \* what is left at the nodes
  credits,
  queue,    \* productionQueue: the orders, with their age in ticks
  shots,    \* the factions that have a projectile in the air
  phase,    \* the system that runs next
  grace,    \* is VICTORY_GRACE_SECONDS still running?
  winner,
  commands, \* the commands given
  earned    \* history: the credits that each faction's harvest has brought

simVars == <<unit, building, deposit, credits, queue, shots, phase, grace, winner, commands, earned>>

None   == "none"
NoTask == [type |-> None, target |-> None, point |-> FALSE]
Absent == [state |-> None, owner |-> None, kind |-> None, task |-> NoTask, path |-> FALSE,
           node |-> None, health |-> FALSE, produced |-> FALSE]

Unit(owner, kind, produced) ==
  [state |-> "IDLE", owner |-> owner, kind |-> kind, task |-> NoTask, path |-> FALSE,
   node |-> None, health |-> TRUE, produced |-> produced]

Ground == {"INFANTRY", "ARMORED"}
Alive  == {u \in Units : unit[u].state \notin {None, "DEAD"}}
Enemies(f) == {u \in Alive : unit[u].owner # f}

\* The order of tickMatch.
Systems ==
  <<"input", "command", "movement", "combat", "projectile", "harvesting", "fog", "production",
    "victory">>

Place(p) == CHOOSE i \in 1 .. Len(Systems) : Systems[i] = p
After(p) == Systems[(Place(p) % Len(Systems)) + 1]

Run(p) == phase = p /\ winner = None /\ phase' = After(p)
-----------------------------------------------------------------------------
SimInit ==
  /\ unit = [u \in Units |-> IF u \in DOMAIN Placed
                             THEN Unit(Placed[u].owner, Placed[u].kind, FALSE) ELSE Absent]
  /\ building = [b \in Buildings |-> TRUE]
  /\ deposit = [n \in Nodes |-> Deposit]
  /\ credits = [f \in Sides |-> Funds]
  /\ queue = <<>>
  /\ shots = {}
  /\ phase = "input"
  /\ grace = TRUE
  /\ winner = None
  /\ commands = 0
  /\ earned = [f \in Sides |-> 0]

-----------------------------------------------------------------------------
(* Commands *)

SameCap(k) == IF k = "AIR" THEN {"AIR"} ELSE Ground
Cap(k)     == IF k = "AIR" THEN AirCap ELSE GroundCap

\* The starting forces of a faction are within its caps.
ASSUME StartAssumption ==
  \A f \in Sides, c \in {"AIR", "ARMORED"} :
    Cardinality({u \in DOMAIN Placed :
                   Placed[u].owner = f /\ ClassOf[Placed[u].kind] \in SameCap(c)}) <= Cap(c)

Orders(f) == {u \in DOMAIN queue : queue[u].owner = f}

\* Mutant of Committed: orders that are not yet filled do not count.
CommittedAlive(f, classes) ==
  Cardinality({u \in Alive : unit[u].owner = f /\ ClassOf[unit[u].kind] \in classes})

\* countCommittedUnits: the living units, and the orders.
Committed(f, classes) ==
  Cardinality({u \in Alive : unit[u].owner = f /\ ClassOf[unit[u].kind] \in classes})
    + Cardinality({u \in Orders(f) : ClassOf[queue[u].kind] \in classes})

MayOrder(f, k) ==
  /\ k \in Naval => Sea
  /\ Committed(f, SameCap(ClassOf[k])) < Cap(ClassOf[k])
  /\ credits[f] >= Cost[k]

\* The ids that neither a unit nor an order has.
Free == {u \in Units : unit[u].state = None} \ DOMAIN queue

\* BUILD: the order is paid when it is given; one that is refused changes nothing.  (Bound: there
\* is an id for the unit.)
Build(b, k) ==
  LET f == Owner[b]
  IN /\ building[b]
     /\ MayOrder(f, k)
     /\ Free # {}
     /\ credits' = [credits EXCEPT ![f] = @ - Cost[k]]
     /\ LET new == CHOOSE u \in Free : TRUE
        IN queue' = [u \in DOMAIN queue \cup {new} |->
                       IF u = new THEN [owner |-> f, kind |-> k, age |-> 0] ELSE queue[u]]
     /\ UNCHANGED <<unit, building, deposit, shots, phase, grace, winner, earned>>

\* The commands to a unit of the faction: a player attacks enemies, an AI commander a point.
Tasks(f) ==
  {[type |-> "MOVE", target |-> None, point |-> TRUE],
   [type |-> "ATTACK", target |-> None, point |-> TRUE]}
    \cup {[type |-> "ATTACK", target |-> x, point |-> FALSE] :
             x \in Enemies(f) \cup {b \in Buildings : Owner[b] # f}}
    \cup {[type |-> "HARVEST", target |-> n, point |-> FALSE] : n \in Nodes}

\* A command takes the place of those a unit has.
Give(u, task) ==
  /\ u \in Alive
  /\ unit' = [unit EXCEPT ![u].task = task, ![u].path = FALSE]
  /\ UNCHANGED <<building, deposit, credits, queue, shots, phase, grace, winner, earned>>

Stop(u) ==
  /\ u \in Alive
  /\ unit' = [unit EXCEPT ![u].task = NoTask, ![u].path = FALSE, ![u].node = None,
                          ![u].state = "IDLE"]
  /\ UNCHANGED <<building, deposit, credits, queue, shots, phase, grace, winner, earned>>

\* A command, in the tick it is for: a player's or one that an AI commander proposes.  A command
\* to several units is one to each of them.
Command ==
  /\ phase = "input"
  /\ winner = None
  /\ commands < MaxCommands
  /\ commands' = commands + 1
  /\ \/ \E b \in Buildings, k \in Kinds : Build(b, k)
     \/ \E u \in Alive : Stop(u) \/ \E t \in Tasks(unit[u].owner) : Give(u, t)

\* The commands of the tick have been applied; the systems run.
EndInput ==
  /\ Run("input")
  /\ UNCHANGED <<unit, building, deposit, credits, queue, shots, grace, winner, commands, earned>>

-----------------------------------------------------------------------------
(* Units *)

\* What commandSystem makes of a unit that is near what its command names or not, and finds a
\* path or not.
Obeyed(r, close, found) ==
  CASE r.task.type = None -> [r EXCEPT !.state = IF @ = "MOVING" THEN "IDLE" ELSE @]
    [] r.task.type = "MOVE" /\ ~r.path -> [r EXCEPT !.path = found, !.state = "MOVING"]
    [] r.task.type = "MOVE" /\ r.path -> r
    [] r.task.type = "ATTACK" /\ r.task.target \in Alive ->
         IF close THEN [r EXCEPT !.path = FALSE, !.state = "ATTACKING"]
                 ELSE [r EXCEPT !.path = found, !.state = "MOVING"]
    [] r.task.type = "ATTACK" /\ r.task.target \notin Alive ->
         IF ~r.task.point THEN [r EXCEPT !.task = NoTask, !.state = "IDLE"]
         ELSE IF r.path THEN r ELSE [r EXCEPT !.path = found, !.state = "MOVING"]
    [] r.task.type = "HARVEST" /\ deposit[r.task.target] > 0 ->
         IF close THEN [r EXCEPT !.state = "HARVESTING", !.node = r.task.target, !.path = FALSE]
                 ELSE [r EXCEPT !.state = "MOVING", !.path = @ \/ found]
    [] OTHER -> [r EXCEPT !.task = NoTask, !.node = None, !.state = "IDLE"]

Tasked == {u \in Alive : unit[u].task # NoTask}

CommandSystem ==
  /\ Run("command")
  /\ \E near \in SUBSET Tasked, routed \in SUBSET Tasked :
       unit' = [u \in Units |-> IF u \in Alive THEN Obeyed(unit[u], u \in near, u \in routed)
                                               ELSE unit[u]]
  /\ UNCHANGED <<building, deposit, credits, queue, shots, grace, winner, commands, earned>>

\* At its last waypoint a unit is done with MOVE; without a command it is idle.
Arrived(r) ==
  LET task == IF r.task.type = "MOVE" THEN NoTask ELSE r.task
  IN [r EXCEPT !.path = FALSE, !.task = task, !.state = IF task = NoTask THEN "IDLE" ELSE @]

MovementSystem ==
  /\ Run("movement")
  /\ \E there \in SUBSET {u \in Alive : unit[u].path} :
       unit' = [u \in Units |-> IF u \in there THEN Arrived(unit[u]) ELSE unit[u]]
  /\ UNCHANGED <<building, deposit, credits, queue, shots, grace, winner, commands, earned>>

\* Units with an enemy in range attack, and those that have cooled down fire.
CombatSystem ==
  /\ Run("combat")
  /\ \E engaged \in SUBSET {u \in Alive : Enemies(unit[u].owner) # {}} :
     \E firing \in SUBSET {unit[u].owner : u \in engaged} :
       /\ unit' = [u \in Units |-> IF u \in engaged THEN [unit[u] EXCEPT !.state = "ATTACKING"]
                                                    ELSE unit[u]]
       /\ shots' = shots \cup firing
  /\ UNCHANGED <<building, deposit, credits, queue, grace, winner, commands, earned>>

\* Projectiles that land may take the health of any unit and building of another faction; some
\* of the faction may still be in the air.
ProjectileSystem ==
  /\ Run("projectile")
  /\ \E landed \in SUBSET shots :
     \E left \in SUBSET landed :
     \E killed \in SUBSET {u \in Alive : landed \ {unit[u].owner} # {}} :
     \E razed \in SUBSET {b \in Buildings : landed \ {Owner[b]} # {}} :
       /\ shots' = (shots \ landed) \cup left
       /\ unit' = [u \in Units |-> IF u \in killed THEN [unit[u] EXCEPT !.health = FALSE]
                                                   ELSE unit[u]]
       /\ building' = [b \in Buildings |-> building[b] /\ b \notin razed]
  /\ UNCHANGED <<deposit, credits, queue, grace, winner, commands, earned>>

-----------------------------------------------------------------------------
(* The economy *)

Harvesters == {u \in Alive : unit[u].state = "HARVESTING" /\ unit[u].node # None /\ unit[u].health}

\* A unit at a node that was empty when the tick came to it stops.
Harvested(r) ==
  IF deposit[r.node] > 0 THEN r
  ELSE [r EXCEPT !.state = "IDLE", !.node = None,
                 !.task = IF @.type = "HARVEST" THEN NoTask ELSE @]

\* Units whose batch is full turn it into credits; the nodes are emptied afterwards.
HarvestingSystem ==
  /\ Run("harvesting")
  /\ \E full \in SUBSET Harvesters :
       LET gain == [f \in Sides |-> Yield * Cardinality({u \in full : unit[u].owner = f})]
       IN /\ credits' = [f \in Sides |-> credits[f] + gain[f]]
          /\ earned' = [f \in Sides |-> earned[f] + gain[f]]
  /\ unit' = [u \in Units |-> IF u \in Harvesters THEN Harvested(unit[u]) ELSE unit[u]]
  /\ deposit' = [n \in Nodes |->
       LET taken == Cardinality({u \in Harvesters : unit[u].node = n})
       IN IF deposit[n] > taken THEN deposit[n] - taken ELSE 0]
  /\ UNCHANGED <<building, queue, shots, grace, winner, commands>>

\* fogOfWarSystem: units without health are dead from here on.
FogOfWarSystem ==
  /\ Run("fog")
  /\ unit' = [u \in Units |->
       IF u \in Alive /\ ~unit[u].health
       THEN [unit[u] EXCEPT !.state = "DEAD", !.path = FALSE, !.task = NoTask] ELSE unit[u]]
  /\ UNCHANGED <<building, deposit, credits, queue, shots, grace, winner, commands, earned>>

\* Mutant of Refund: what the class costs, whatever the archetype was.
RefundOfClass(k) == Cost[ClassOf[k]]

Refund(k) == Cost[k]

HasBase(f) == \E b \in Buildings : building[b] /\ Owner[b] = f

Pending(o) == o.age < Duration

\* The credits that the keys of a price list cost together, one by one.
Coins(price) == UNION {{u} \X (1 .. price[u]) : u \in DOMAIN price}
Worth(price) == Cardinality(Coins(price))

\* Orders that are due give a unit, or their cost back when no building of the faction stands.
ProductionSystem ==
  LET due     == {u \in DOMAIN queue : ~Pending(queue[u])}
      made    == {u \in due : HasBase(queue[u].owner)}
      lost(f) == {u \in due \ made : queue[u].owner = f}
  IN /\ Run("production")
     /\ unit' = [u \in Units |-> IF u \in made THEN Unit(queue[u].owner, queue[u].kind, TRUE)
                                               ELSE unit[u]]
     /\ credits' = [f \in Sides |->
          credits[f] + Worth([u \in lost(f) |-> Refund(queue[u].kind)])]
     /\ queue' = [u \in DOMAIN queue \ due |-> queue[u]]
     /\ UNCHANGED <<building, deposit, shots, grace, winner, commands, earned>>

\* Mutant of Aged: the order of a faction without a building waits for one.
AgedAtBase(o) == IF HasBase(o.owner) THEN [o EXCEPT !.age = @ + 1] ELSE o

Aged(o) == [o EXCEPT !.age = @ + 1]

\* The last faction with a building wins, once the grace period is over; the tick ends.
VictorySystem ==
  LET standing == {Owner[b] : b \in {c \in Buildings : building[c]}}
  IN /\ Run("victory")
     /\ winner' = IF ~grace /\ Cardinality(Sides) > 1 /\ Cardinality(standing) = 1
                  THEN CHOOSE f \in standing : TRUE ELSE None
     /\ queue' = [u \in DOMAIN queue |-> Aged(queue[u])]
     /\ grace' \in {g \in BOOLEAN : g => grace}
     /\ UNCHANGED <<unit, building, deposit, credits, shots, commands, earned>>

RunSystem ==
  \/ EndInput
  \/ CommandSystem
  \/ MovementSystem
  \/ CombatSystem
  \/ ProjectileSystem
  \/ HarvestingSystem
  \/ FogOfWarSystem
  \/ ProductionSystem
  \/ VictorySystem

SimNext == Command \/ RunSystem

SimSpec == SimInit /\ [][SimNext]_simVars

\* A match that is being played is ticked at a fixed rate.
FairSim == SimSpec /\ WF_simVars(RunSystem)
-----------------------------------------------------------------------------
\* No faction ever has more units and orders of a class than its cap allows, whatever it orders
\* while others of its units are produced, refunded or lost.
CapHolds ==
  \A f \in Sides, c \in {"AIR", "ARMORED"} :
    Cardinality({u \in Alive : unit[u].owner = f /\ ClassOf[unit[u].kind] \in SameCap(c)})
      + Cardinality({u \in Orders(f) : ClassOf[queue[u].kind] \in SameCap(c)}) <= Cap(c)

\* What a faction has ordered and what it was given for its orders, each with its cost.
Bought(f) ==
  [u \in Orders(f) \cup {v \in Units : unit[v].owner = f /\ unit[v].produced} |->
     Cost[IF u \in DOMAIN queue THEN queue[u].kind ELSE unit[u].kind]]

\* Credits are neither lost nor made: what a faction had and has harvested is on its account, in
\* its orders or in the units it was given for them, also when orders are refunded.
CreditsBalance ==
  \A f \in Sides : credits[f] + Worth(Bought(f)) = Funds + earned[f]

\* Every order is filled or refunded, or the match ends first.
OrdersSettle == []<>(DOMAIN queue = {} \/ winner # None)
=============================================================================
