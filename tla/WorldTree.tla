----------------------------- MODULE WorldTree -----------------------------
(***************************************************************************)
(* The part of a WorldDocument the editing routes depend on: its entities, *)
(* the tree their parentIds form, and the entities its missions and        *)
(* cameras refer to (packages/world-schema/src/world.ts,                   *)
(* services/api/src/modules/worlds/service.ts).                            *)
(***************************************************************************)
EXTENDS FiniteSets, Functions

Root == "root"   \* the parentId of an entity without one
Null == "null"   \* a parentId that is no id: null, or an entity's name

\* parent maps the ids of the document's entities to their parentIds.
Document(parent, targets) == [parent |-> parent, targets |-> targets]

Empty == Document([e \in {} |-> Root], {})

Entities(doc) == DOMAIN doc.parent

\* validateWorld: parents exist (Null is never one), no entity is its own ancestor, and nothing refers to a missing entity.
Valid(doc) ==
  /\ \A e \in Entities(doc) : doc.parent[e] \in Entities(doc) \cup {Root}
  /\ \A S \in SUBSET Entities(doc) :
       S # {} => \E e \in S : doc.parent[e] \notin S
  /\ doc.targets \subseteq Entities(doc)

With(doc, e, p) ==
  [doc EXCEPT !.parent = [x \in Entities(doc) \cup {e} |-> IF x = e THEN p ELSE @[x]]]

\* The entity and everything below it: what deleteEntity's loop ends up with.
Subtree(doc, e) ==
  {x \in Entities(doc) :
     \A S \in SUBSET Entities(doc) :
       e \in S /\ (\A y \in Entities(doc) : doc.parent[y] \in S => y \in S) => x \in S}

Without(doc, e) == [doc EXCEPT !.parent = Restrict(@, Entities(doc) \ Subtree(doc, e))]
=============================================================================
