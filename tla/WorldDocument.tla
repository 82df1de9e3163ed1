--------------------------- MODULE WorldDocument ---------------------------
(***************************************************************************)
(* One world and the requests that edit it: entity routes that patch the   *)
(* current WorldVersion in place, document replacements, WorldForge runs   *)
(* and AI commands that save a new version, snapshots and publications     *)
(* (services/api/src/modules/worlds/{index,service}.ts, modules/ai).       *)
(*                                                                         *)
(* Every step is the code up to the next await that reads or writes the    *)
(* database.  Nothing is locked and no write is conditional.               *)
(***************************************************************************)
EXTENDS WorldTree, Integers, Sequences

CONSTANTS
  Edits,     \* POST, PATCH and DELETE of /worlds/:id/entities
  Puts,      \* PUT /worlds/:id/document
  Forges,    \* POST /worlds/:id/forge
  Commands,  \* POST /ai/command and /ai/generate on the world
  Snapshots, \* POST /worlds/:id/snapshots
  Publishes, \* POST /worlds/:id/publish
  Bodies,    \* the documents clients PUT, valid or not
  MaxOpen,   \* bound: requests of the world in progress at once
  MaxBegun,  \* bound: requests that ever begin
  MaxCrashes \* bound: requests that fail at one of their awaits

Savers   == Puts \cup Forges \cup Commands
Writers  == Edits \cup Savers
Requests == Writers \cup Snapshots \cup Publishes

\* An entity a request creates gets a fresh id, here the request itself.
Ids == (UNION {Entities(b) : b \in Bodies}) \cup Edits \cup Forges \cup Commands

ASSUME WorldAssumption ==
  /\ \A b \in Bodies : b = Document(b.parent, b.targets)
  /\ {Root, Null} \cap Ids = {}
  /\ IsFiniteSet(Ids) /\ \A b \in Bodies : b.targets \subseteq Ids
  /\ Edits \cap (Savers \cup Snapshots \cup Publishes) = {}
  /\ Puts \cap (Forges \cup Commands \cup Snapshots \cup Publishes) = {}
  /\ Forges \cap (Commands \cup Snapshots \cup Publishes) = {}
  /\ Commands \cap (Snapshots \cup Publishes) = {}
  /\ Snapshots \cap Publishes = {}
  /\ MaxOpen \in Nat /\ MaxBegun \in Nat /\ MaxCrashes \in Nat

VARIABLES
  version,     \* the WorldVersion rows' documents, by version label
  current,     \* World.currentVersionId, as that row's label
  entityCount, \* World.entityCount
  published,   \* is World.status PUBLISHED?
  deleted,     \* is World.deletedAt set?
  snapshot,    \* WorldSnapshot rows: the version and its entity count
  product,     \* Product rows: the request's, and its ProductVersion's world version
  pc,          \* where each request is
  read,        \* the label a request read or was given
  draft,       \* the document it read or is about to save
  crashes,     \* requests that have failed so far
  overtaken    \* history: writers in progress while another request saved

rowVars  == <<version, current, entityCount>>
sideVars == <<published, deleted, snapshot, product>>
vars == <<rowVars, sideVars, pc, read, draft, crashes, overtaken>>

Resting == {"idle", "refused", "unchanged", "done", "failed", "saved"}
Steps == Resting \cup {"load", "write", "count", "tool", "save", "label", "create",
                       "switch", "row", "list", "pin", "mark"}

MayRun ==
  /\ Cardinality({q \in Requests : pc[q] \notin Resting}) < MaxOpen
  /\ Cardinality({q \in Requests : pc[q] # "idle"}) < MaxBegun

Goto(q, step) == pc' = [pc EXCEPT ![q] = step]

\* Writers that may have read the document and have not changed it yet; a request
\* that changes it overtakes the others.
Open == {q \in Writers :
           pc[q] \in {"load", "write", "tool", "save", "label", "create", "switch"}}
Overtake(q) == overtaken' = overtaken \cup (Open \ {q})

\* The handler is over, and its locals with it.
Finish(q, outcome) ==
  /\ Goto(q, outcome)
  /\ read' = [read EXCEPT ![q] = 0]
  /\ draft' = [draft EXCEPT ![q] = Empty]
-----------------------------------------------------------------------------
\* createWorld has run: an empty document as version 1.
Init ==
  /\ version = <<Empty>>
  /\ current = 1
  /\ entityCount = 0
  /\ published = FALSE
  /\ deleted = FALSE
  /\ snapshot = [s \in Snapshots |-> [version |-> 0, count |-> 0]]
  /\ product = [b \in Publishes |-> [listed |-> FALSE, version |-> 0]]
  /\ pc = [q \in Requests |-> "idle"]
  /\ read = [q \in Requests |-> 0]
  /\ draft = [q \in Requests |-> Empty]
  /\ crashes = 0
  /\ overtaken = {}
-----------------------------------------------------------------------------
(* getDocument: the world row, then the version it points to *)

ReadPointer(q) ==
  /\ q \notin Puts
  /\ pc[q] = "idle"
  /\ MayRun
  /\ \/ /\ deleted
        /\ Finish(q, "refused")
     \/ /\ ~deleted
        /\ read' = [read EXCEPT ![q] = current]
        /\ Goto(q, "load")
        /\ UNCHANGED draft
  /\ UNCHANGED <<rowVars, sideVars, crashes, overtaken>>

Loaded(q) == version[read[q]]
-----------------------------------------------------------------------------
(* patchCurrentDocument: entity routes *)

\* Mutant of Accepts: a change is not validated again.
AcceptsAny(doc) == TRUE

\* A document with errors is never saved.
Accepts(doc) == Valid(doc)

\* What createEntity, updateEntity and deleteEntity make of the document.  An
\* unknown parent or entity is refused; a null parentId passes the route's schema
\* and only fails the validation.
Patched(q, doc) ==
  {With(doc, q, p) : p \in Entities(doc) \cup {Root}}
  \cup (UNION {{With(doc, e, p) : p \in Ids \cup {doc.parent[e], Null}} : e \in Entities(doc)})
  \cup {Without(doc, e) : e \in Entities(doc)}

LoadEdit(q) ==
  /\ q \in Edits
  /\ pc[q] = "load"
  /\ \/ Finish(q, "refused")
     \/ /\ \E doc \in {d \in Patched(q, Loaded(q)) : Accepts(d)} :
             draft' = [draft EXCEPT ![q] = doc]
        /\ Goto(q, "write")
        /\ UNCHANGED read
  /\ UNCHANGED <<rowVars, sideVars, crashes, overtaken>>

\* Mutant of WriteDocument: the newest version row instead of the current one.
WriteNewest(q) ==
  /\ pc[q] = "write"
  /\ version' = [version EXCEPT ![Len(version)] = draft[q]]
  /\ Goto(q, "count")
  /\ Overtake(q)
  /\ UNCHANGED <<current, entityCount, sideVars, read, draft, crashes>>

\* In place, whatever has happened to the row since it was read.
WriteDocument(q) ==
  /\ pc[q] = "write"
  /\ version' = [version EXCEPT ![read[q]] = draft[q]]
  /\ Goto(q, "count")
  /\ Overtake(q)
  /\ UNCHANGED <<current, entityCount, sideVars, read, draft, crashes>>

CountEntities(q) ==
  /\ pc[q] = "count"
  /\ entityCount' = Cardinality(Entities(draft[q]))
  /\ Finish(q, "done")
  /\ UNCHANGED <<version, current, sideVars, crashes, overtaken>>
-----------------------------------------------------------------------------
(* putDocument: client replacements, forge runs and AI commands *)

\* Mutant of LoadForge: the forged entities replace the world's.
ForgeAnew(q) ==
  /\ q \in Forges
  /\ pc[q] = "load"
  /\ draft' = [draft EXCEPT ![q] = With(Empty, q, Root)]
  /\ Goto(q, "save")
  /\ UNCHANGED <<rowVars, sideVars, read, crashes, overtaken>>

\* forgeWorld adds generated entities at the top of the document it read.
LoadForge(q) ==
  /\ q \in Forges
  /\ pc[q] = "load"
  /\ draft' = [draft EXCEPT ![q] = With(Loaded(q), q, Root)]
  /\ Goto(q, "save")
  /\ UNCHANGED <<rowVars, sideVars, read, crashes, overtaken>>

\* executeToolPlan runs the model's tool calls on the document runCommand read
\* before it asked the model: create_entity (whose parent may be named by its name,
\* which no entity has as its id), and after it or alone delete_entity or
\* create_quest.
Planned(q, doc) ==
  LET added    == {With(doc, q, p) : p \in Entities(doc) \cup {Root, Null}}
      trimmed(d) == {Without(d, e) : e \in Entities(d)}
      quested(d) == {[d EXCEPT !.targets = @ \cup {e}] : e \in Entities(d)}
  IN added \cup UNION {trimmed(d) \cup quested(d) : d \in added \cup {doc}}

LoadCommand(q) ==
  /\ q \in Commands
  /\ pc[q] = "load"
  /\ \/ Finish(q, "unchanged")  \* no call that changes the document
     \/ /\ \E doc \in Planned(q, Loaded(q)) : draft' = [draft EXCEPT ![q] = doc]
        /\ Goto(q, "save")
        /\ UNCHANGED read
     \/ /\ draft' = [draft EXCEPT ![q] = Loaded(q)]
        /\ Goto(q, "tool")
        /\ UNCHANGED read
  /\ UNCHANGED <<rowVars, sideVars, crashes, overtaken>>

\* publish_asset of the world: it is marked, its passport changes, and nothing is
\* listed.
PublishTool(q) ==
  /\ pc[q] = "tool"
  /\ published' = TRUE
  /\ Goto(q, "save")
  /\ UNCHANGED <<rowVars, deleted, snapshot, product, read, draft, crashes, overtaken>>

\* The world is looked up again, and the document validated.
Checked(q, doc) ==
  \/ /\ ~deleted /\ Accepts(doc) = TRUE
     /\ draft' = [draft EXCEPT ![q] = doc]
     /\ Goto(q, "label")
     /\ UNCHANGED read
  \/ /\ deleted \/ Accepts(doc) = FALSE
     /\ Finish(q, "refused")

Save(q) ==
  /\ \/ /\ pc[q] = "save"
        /\ Checked(q, draft[q])
     \/ /\ q \in Puts
        /\ pc[q] = "idle"
        /\ MayRun
        /\ \E body \in Bodies : Checked(q, body)
  /\ UNCHANGED <<rowVars, sideVars, crashes, overtaken>>

\* nextVersionLabel counts the rows.
TakeLabel(q) ==
  /\ pc[q] = "label"
  /\ read' = [read EXCEPT ![q] = Len(version) + 1]
  /\ Goto(q, "create")
  /\ UNCHANGED <<rowVars, sideVars, draft, crashes, overtaken>>

\* A label another request has used meanwhile breaks @@unique([worldId, version]).
CreateVersion(q) ==
  /\ pc[q] = "create"
  /\ \/ /\ read[q] = Len(version) + 1
        /\ version' = Append(version, draft[q])
        /\ Goto(q, "switch")
        /\ UNCHANGED <<read, draft>>
     \/ /\ read[q] # Len(version) + 1
        /\ Finish(q, "failed")
        /\ UNCHANGED version
  /\ UNCHANGED <<current, entityCount, sideVars, crashes, overtaken>>

SwitchCurrent(q) ==
  /\ pc[q] = "switch"
  /\ current' = read[q]
  /\ entityCount' = Cardinality(Entities(draft[q]))
  /\ Finish(q, "done")
  /\ Overtake(q)
  /\ UNCHANGED <<version, sideVars, crashes>>
-----------------------------------------------------------------------------
(* createSnapshot and publishWorld *)

LoadOnly(q) ==
  /\ q \in Snapshots \cup Publishes
  /\ pc[q] = "load"
  /\ draft' = [draft EXCEPT ![q] = Loaded(q)]
  /\ Goto(q, IF q \in Snapshots THEN "row" ELSE "list")
  /\ UNCHANGED <<rowVars, sideVars, read, crashes, overtaken>>

\* The row names the version and describes the document; it does not copy it.
RecordSnapshot(q) ==
  /\ pc[q] = "row"
  /\ snapshot' = [snapshot EXCEPT ![q] =
                    [version |-> read[q], count |-> Cardinality(Entities(draft[q]))]]
  /\ Finish(q, "done")
  /\ UNCHANGED <<rowVars, published, deleted, product, crashes, overtaken>>

\* A PUBLISHED product, a new one each time ...
ListProduct(q) ==
  /\ pc[q] = "list"
  /\ product' = [product EXCEPT ![q].listed = TRUE]
  /\ Goto(q, "pin")
  /\ UNCHANGED <<rowVars, published, deleted, snapshot, read, draft, crashes, overtaken>>

\* ... its first ProductVersion, and then the world.
PinVersion(q) ==
  /\ pc[q] = "pin"
  /\ product' = [product EXCEPT ![q].version = read[q]]
  /\ Goto(q, "mark")
  /\ UNCHANGED <<rowVars, published, deleted, snapshot, read, draft, crashes, overtaken>>

MarkPublished(q) ==
  /\ pc[q] = "mark"
  /\ published' = TRUE
  /\ Finish(q, "done")
  /\ UNCHANGED <<rowVars, deleted, snapshot, product, crashes, overtaken>>
-----------------------------------------------------------------------------
\* DELETE /worlds/:id.  Requests that have read the world carry on.
RemoveWorld ==
  /\ ~deleted
  /\ deleted' = TRUE
  /\ UNCHANGED <<rowVars, published, snapshot, product, pc, read, draft, crashes, overtaken>>

\* A rejected await or a dead process.  ("saved": the document was written.)
Fail(q) ==
  /\ pc[q] \notin Resting
  /\ crashes < MaxCrashes
  /\ crashes' = crashes + 1
  /\ Finish(q, IF pc[q] = "count" THEN "saved" ELSE "failed")
  /\ UNCHANGED <<rowVars, sideVars, overtaken>>

Step(q) ==
  \/ ReadPointer(q)
  \/ LoadEdit(q) \/ WriteDocument(q) \/ CountEntities(q)
  \/ LoadForge(q) \/ LoadCommand(q) \/ PublishTool(q)
  \/ Save(q) \/ TakeLabel(q) \/ CreateVersion(q) \/ SwitchCurrent(q)
  \/ LoadOnly(q) \/ RecordSnapshot(q)
  \/ ListProduct(q) \/ PinVersion(q) \/ MarkPublished(q)

Next ==
  \/ \E q \in Requests : Step(q) \/ Fail(q)
  \/ RemoveWorld

Spec == Init /\ [][Next]_vars
-----------------------------------------------------------------------------
IsDocument(doc) ==
  /\ doc = Document(doc.parent, doc.targets)
  /\ Entities(doc) \subseteq Ids
  /\ doc.targets \subseteq Ids

\* The rows are well formed, and what a request or a product names by its label
\* is a version that exists.
TypeOK ==
  /\ \A v \in DOMAIN version : IsDocument(version[v])
  /\ current \in DOMAIN version
  /\ entityCount \in Nat
  /\ published \in BOOLEAN
  /\ deleted \in BOOLEAN
  /\ snapshot \in [Snapshots -> [version : DOMAIN version \cup {0}, count : Nat]]
  /\ product \in [Publishes -> [listed : BOOLEAN, version : DOMAIN version \cup {0}]]
  /\ pc \in [Requests -> Steps]
  /\ read \in [Requests -> 0..(Len(version) + 1)]
  /\ \A q \in Requests : IsDocument(draft[q])
  /\ crashes \in 0..MaxCrashes
  /\ overtaken \subseteq Writers

\* No interleaving of edits, replacements, forge runs and AI plans stores a document
\* that fails validation, in any version (getDocument: "should be unreachable —
\* every write path validates first").
StoredValid == \A v \in DOMAIN version : Valid(version[v])

\* Version rows other than the current one are history (a replacement "always creates
\* a NEW `WorldVersion` row"): a request that no other has overtaken changes and drops
\* none of them and does not take the world back to one, wherever requests died.
VersionsFrozen ==
  [][\/ /\ \A v \in DOMAIN version :
              v # current => v \in DOMAIN version' /\ version'[v] = version[v]
        /\ current' >= current
     \/ \E q \in overtaken : pc[q] \in {"write", "switch"} /\ pc'[q] # pc[q]
    ]_<<version, current>>

\* The world is one document on which every request that succeeds, and is not
\* overtaken by another, acts once and at once.
History == INSTANCE WorldHistory WITH
  document <- version[current],
  applied  <- {q \in Edits : pc[q] \in {"count", "saved", "done"}}
              \cup {q \in Savers : pc[q] = "done"},
  open     <- Open

ImplementsHistory == History!Spec
=============================================================================
