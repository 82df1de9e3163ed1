------------------------ MODULE WorldDocumentProofs ------------------------
(* Proofs about WorldDocument: what is stored is valid and well typed,       *)
(* whoever edits; requests that no other overtakes leave the history of the  *)
(* world alone and implement WorldHistory.                                   *)
EXTENDS WorldDocument, SequenceTheorems, FiniteSetTheorems, TLAPS

\* version is a sequence of rows, and every request has its locals.
Shapes ==
  /\ \E S : version \in Seq(S)
  /\ DOMAIN pc = Requests /\ DOMAIN read = Requests /\ DOMAIN draft = Requests

\* What a request is about to store has passed the validation.
DraftChecked(q) == pc[q] \in {"write", "label", "create"} => Valid(draft[q])

IInv == Shapes /\ StoredValid /\ \A q \in Requests : DraftChecked(q)

\* A step of q touches no other request's locals.
OthersKeep(q) ==
  \A r \in Requests \ {q} : pc'[r] = pc[r] /\ read'[r] = read[r] /\ draft'[r] = draft[r]

LocalsKept == DOMAIN pc' = Requests /\ DOMAIN read' = Requests /\ DOMAIN draft' = Requests

\* The two ways a step stores a document.
Writes(q) == pc[q] = "write" /\ version' = [version EXCEPT ![read[q]] = draft[q]]
Creates(q) == pc[q] = "create" /\ version' = Append(version, draft[q])

\* One step of one request: it keeps its draft checked, and stores nothing else.
LEMMA StepStores ==
  ASSUME NEW q \in Requests, Shapes, DraftChecked(q), Step(q) \/ Fail(q)
  PROVE  /\ OthersKeep(q) /\ LocalsKept /\ DraftChecked(q)'
         /\ version' = version \/ Writes(q) \/ Creates(q)
<1> USE DEF Shapes, DraftChecked, OthersKeep, LocalsKept, Writes, Creates
<1>1. CASE ReadPointer(q)
  BY <1>1 DEF ReadPointer, Finish, Goto, rowVars
<1>2. CASE LoadEdit(q)
  BY <1>2 DEF LoadEdit, Accepts, Finish, Goto, rowVars
<1>3. CASE WriteDocument(q)
  BY <1>3 DEF WriteDocument, Goto
<1>4. CASE CountEntities(q)
  BY <1>4 DEF CountEntities, Finish, Goto
<1>5. CASE LoadForge(q)
  BY <1>5 DEF LoadForge, Goto, rowVars
<1>6. CASE LoadCommand(q)
  BY <1>6 DEF LoadCommand, Finish, Goto, rowVars
<1>7. CASE PublishTool(q)
  BY <1>7 DEF PublishTool, Goto, rowVars
<1>8. CASE Save(q)
  <2>1. \E doc : Checked(q, doc)
    BY <1>8 DEF Save
  <2>2. PICK doc : Checked(q, doc)
    BY <2>1
  <2>3. version' = version
    BY <1>8 DEF Save, rowVars
  <2> QED BY <2>2, <2>3 DEF Checked, Accepts, Finish, Goto
<1>9. CASE TakeLabel(q)
  BY <1>9 DEF TakeLabel, Goto, rowVars
<1>10. CASE CreateVersion(q)
  BY <1>10 DEF CreateVersion, Finish, Goto
<1>11. CASE SwitchCurrent(q)
  BY <1>11 DEF SwitchCurrent, Finish, Goto
<1>12. CASE LoadOnly(q)
  BY <1>12 DEF LoadOnly, Goto, rowVars
<1>13. CASE RecordSnapshot(q)
  BY <1>13 DEF RecordSnapshot, Finish, Goto, rowVars
<1>14. CASE ListProduct(q) \/ PinVersion(q)
  BY <1>14 DEF ListProduct, PinVersion, Goto, rowVars
<1>15. CASE MarkPublished(q)
  BY <1>15 DEF MarkPublished, Finish, Goto, rowVars
<1>16. CASE Fail(q)
  BY <1>16 DEF Fail, Finish, Goto, rowVars
<1> QED
  BY <1>1, <1>2, <1>3, <1>4, <1>5, <1>6, <1>7, <1>8, <1>9, <1>10, <1>11, <1>12, <1>13,
     <1>14, <1>15, <1>16 DEF Step

\* The rows stay a sequence, and what a step stores was a checked draft.
LEMMA RowsStay ==
  ASSUME NEW q, Shapes, version' = version \/ Writes(q) \/ Creates(q)
  PROVE  /\ \E S : version' \in Seq(S)
         /\ \A v \in DOMAIN version' :
              \/ v \in DOMAIN version /\ version'[v] = version[v]
              \/ pc[q] \in {"write", "create"} /\ version'[v] = draft[q]
<1> DEFINE d == draft[q]
<1>1. PICK S : version \in Seq(S)
  BY DEF Shapes
<1> DEFINE T == S \cup {d}
<1>2. version \in Seq(T)
  BY <1>1, SeqMonotonic
<1>3. CASE version' = version
  BY <1>2, <1>3
<1>4. CASE Writes(q)
  <2>1. CASE read[q] \in DOMAIN version
    <3>1. read[q] \in 1..Len(version)
      BY <1>2, <2>1, LenProperties
    <3>2. version' \in Seq(T)
      BY <1>2, <1>4, <3>1, ExceptSeq DEF Writes
    <3> QED BY <1>4, <3>2 DEF Writes
  <2>2. CASE read[q] \notin DOMAIN version
    <3>1. version' = version
      BY <1>2, <1>4, <2>2 DEF Writes
    <3> QED BY <1>2, <3>1
  <2> QED BY <2>1, <2>2
<1>5. CASE Creates(q)
  <2>1. /\ version' \in Seq(T) /\ Len(version') = Len(version) + 1
        /\ \A i \in 1..Len(version) : version'[i] = version[i]
        /\ version'[Len(version) + 1] = d
    BY <1>2, <1>5, AppendProperties DEF Creates
  <2>2. DOMAIN version = 1..Len(version) /\ DOMAIN version' = 1..(Len(version) + 1)
        /\ Len(version) \in Nat
    BY <1>2, <2>1, LenProperties
  <2> QED BY <1>5, <2>1, <2>2 DEF Creates
<1> QED BY <1>3, <1>4, <1>5

LEMMA EmptyValid == Valid(Empty)
  BY DEF Valid, Empty, Document, Entities

LEMMA InitStored == Init => IInv
<1> SUFFICES ASSUME Init PROVE IInv
  OBVIOUS
<1>1. version \in Seq({Empty}) /\ DOMAIN version = {1} /\ version[1] = Empty
  BY DEF Init
<1> QED BY <1>1, EmptyValid DEF Init, IInv, Shapes, StoredValid, DraftChecked

LEMMA NextStored == IInv /\ [Next]_vars => IInv'
<1> SUFFICES ASSUME IInv, [Next]_vars PROVE IInv'
  OBVIOUS
<1>1. CASE UNCHANGED vars
  BY <1>1 DEF vars, rowVars, IInv, Shapes, StoredValid, DraftChecked
<1>2. CASE RemoveWorld
  BY <1>2 DEF RemoveWorld, rowVars, IInv, Shapes, StoredValid, DraftChecked
<1>3. ASSUME NEW q \in Requests, Step(q) \/ Fail(q) PROVE IInv'
  <2>1. /\ OthersKeep(q) /\ LocalsKept /\ DraftChecked(q)'
        /\ version' = version \/ Writes(q) \/ Creates(q)
    BY <1>3, StepStores DEF IInv
  <2>2. /\ \E S : version' \in Seq(S)
        /\ \A v \in DOMAIN version' :
             \/ v \in DOMAIN version /\ version'[v] = version[v]
             \/ pc[q] \in {"write", "create"} /\ version'[v] = draft[q]
    BY <2>1, RowsStay DEF IInv
  <2>3. StoredValid'
    BY <2>2 DEF IInv, StoredValid, DraftChecked
  <2>4. \A r \in Requests : DraftChecked(r)'
    BY <2>1 DEF IInv, DraftChecked, OthersKeep
  <2> QED BY <2>1, <2>2, <2>3, <2>4 DEF IInv, Shapes, LocalsKept
<1> QED BY <1>1, <1>2, <1>3 DEF Next

\* Whatever interleaving of edits, replacements, forge runs and AI plans: every version
\* of the world holds a document that passes validateWorld (getDocument's claim that
\* the opposite "should be unreachable").
THEOREM StoredIsValid == Spec => []StoredValid
<1>1. IInv => StoredValid
  BY DEF IInv
<1> QED BY <1>1, InitStored, NextStored, PTL DEF Spec
-----------------------------------------------------------------------------
(* What the editing routes make of a document.                               *)

\* Documents are records of the schema, and an absent parent is no entity of theirs.
Shape(doc) == doc = Document(doc.parent, doc.targets) /\ Null \notin Entities(doc)

\* WorldHistory's operators on documents are WorldTree's.
LEMMA SameTrees ==
  /\ History!Root = Root
  /\ \A doc : History!Entities(doc) = Entities(doc) /\ (History!Valid(doc) <=> Valid(doc))
  /\ \A doc, e, p : History!With(doc, e, p) = With(doc, e, p)
  /\ \A doc, e : History!Without(doc, e) = Without(doc, e)
<1>1. History!Root = Root /\ \A doc : History!Entities(doc) = Entities(doc)
  BY DEF History!Root, Root, History!Entities, Entities
<1>2. \A doc : History!Valid(doc) <=> Valid(doc)
  BY <1>1 DEF History!Valid, Valid
<1>3. \A doc, e, p : History!With(doc, e, p) = With(doc, e, p)
  BY <1>1 DEF History!With, With
<1>4. \A doc, e : History!Subtree(doc, e) = Subtree(doc, e)
  BY <1>1 DEF History!Subtree, Subtree
<1>5. \A doc, e : History!Without(doc, e) = Without(doc, e)
  BY <1>1, <1>4 DEF History!Without, Without, History!Restrict, Restrict
<1> QED BY <1>1, <1>2, <1>3, <1>5

\* What With and Without make of a document.
LEMMA WithIs ==
  ASSUME NEW doc, Shape(doc), NEW e, NEW p
  PROVE  With(doc, e, p) = Document([x \in Entities(doc) \cup {e} |->
                                       IF x = e THEN p ELSE doc.parent[x]], doc.targets)
<1> DEFINE f == [x \in Entities(doc) \cup {e} |-> IF x = e THEN p ELSE doc.parent[x]]
<1>1. doc = [parent |-> doc.parent, targets |-> doc.targets]
  BY DEF Shape, Document
<1>2. With(doc, e, p) = [doc EXCEPT !.parent = f]
  BY <1>1 DEF With
<1> HIDE DEF f
<1>3. With(doc, e, p) = Document(f, doc.targets)
  BY <1>1, <1>2 DEF Document
<1> QED BY <1>3 DEF f

LEMMA WithParts ==
  ASSUME NEW doc, Shape(doc), NEW e, NEW p
  PROVE  /\ Entities(With(doc, e, p)) = Entities(doc) \cup {e}
         /\ With(doc, e, p).parent[e] = p
         /\ \A x \in Entities(doc) : x # e => With(doc, e, p).parent[x] = doc.parent[x]
         /\ With(doc, e, p).targets = doc.targets
<1> DEFINE f == [x \in Entities(doc) \cup {e} |-> IF x = e THEN p ELSE doc.parent[x]]
<1>1. With(doc, e, p) = Document(f, doc.targets)
  BY WithIs
<1> HIDE DEF f
<1>2. With(doc, e, p).parent = f /\ With(doc, e, p).targets = doc.targets
  BY <1>1 DEF Document
<1> QED BY <1>2 DEF f, Entities

LEMMA WithoutIs ==
  ASSUME NEW doc, Shape(doc), NEW e
  PROVE  /\ Without(doc, e) = Document([x \in Entities(doc) \ Subtree(doc, e) |-> doc.parent[x]],
                                       doc.targets)
         /\ Entities(Without(doc, e)) = Entities(doc) \ Subtree(doc, e)
         /\ \A x \in Entities(doc) \ Subtree(doc, e) :
              Without(doc, e).parent[x] = doc.parent[x]
<1> DEFINE f == [x \in Entities(doc) \ Subtree(doc, e) |-> doc.parent[x]]
<1>1. doc = [parent |-> doc.parent, targets |-> doc.targets]
  BY DEF Shape, Document
<1>2. Without(doc, e) = [doc EXCEPT !.parent = f]
  BY <1>1 DEF Without, Restrict
<1> HIDE DEF f
<1>3. Without(doc, e) = Document(f, doc.targets)
  BY <1>1, <1>2 DEF Document
<1>4. Without(doc, e).parent = f
  BY <1>3 DEF Document
<1> QED BY <1>3, <1>4 DEF f, Entities

LEMMA ShapesStay ==
  ASSUME NEW doc, Shape(doc)
  PROVE  /\ \A e, p : e # Null => Shape(With(doc, e, p))
         /\ \A e : Shape(Without(doc, e))
<1>1. ASSUME NEW f, NEW t, Null \notin DOMAIN f PROVE Shape(Document(f, t))
  BY <1>1 DEF Shape, Document, Entities
<1>2. ASSUME NEW e, NEW p, e # Null PROVE Shape(With(doc, e, p))
  <2>1. Null \notin Entities(doc) \cup {e}
    BY <1>2 DEF Shape
  <2> DEFINE f == [x \in Entities(doc) \cup {e} |-> IF x = e THEN p ELSE doc.parent[x]]
  <2>2. With(doc, e, p) = Document(f, doc.targets)
    BY WithIs
  <2>3. Null \notin DOMAIN f
    BY <2>1
  <2> HIDE DEF f
  <2> QED BY <1>1, <2>2, <2>3
<1>3. ASSUME NEW e PROVE Shape(Without(doc, e))
  <2>1. Null \notin Entities(doc) \ Subtree(doc, e)
    BY DEF Shape
  <2> DEFINE f == [x \in Entities(doc) \ Subtree(doc, e) |-> doc.parent[x]]
  <2>2. Without(doc, e) = Document(f, doc.targets)
    BY WithoutIs
  <2>3. Null \notin DOMAIN f
    BY <2>1
  <2> HIDE DEF f
  <2> QED BY <1>1, <2>2, <2>3
<1> QED BY <1>2, <1>3
Parents(doc) == Entities(doc) \cup {Root}

LEMMA NoIdIsNull ==
  /\ \A b \in Bodies : Shape(b)
  /\ \A q \in Edits \cup Forges \cup Commands : q # Null /\ q # Root
<1>1. Null \notin Ids /\ Root \notin Ids
  BY WorldAssumption
<1>2. \A b \in Bodies : b = Document(b.parent, b.targets)
  BY WorldAssumption
<1>3. ASSUME NEW b \in Bodies PROVE Shape(b)
  <2>1. Entities(b) \subseteq Ids
    <3>1. \A x \in Entities(b) : x \in UNION {Entities(c) : c \in Bodies}
      OBVIOUS
    <3> QED BY <3>1 DEF Ids
  <2> QED BY <1>1, <1>2, <2>1 DEF Shape
<1>4. Edits \cup Forges \cup Commands \subseteq Ids
  BY DEF Ids
<1> QED BY <1>1, <1>3, <1>4

\* What the plan of an AI command may do after it has added an entity, or alone.
PlanEnds(d) == {d} \cup {Without(d, e) : e \in Entities(d)}
                   \cup {[d EXCEPT !.targets = @ \cup {e}] : e \in Entities(d)}

\* The effects WorldHistory allows, by the kind of the request.
LEMMA EffectsAre ==
  ASSUME NEW q, NEW doc
  PROVE  /\ q \in Edits =>
              History!Effects(q, doc) = {With(doc, q, p) : p \in Parents(doc)}
                \cup {With(doc, e, p) : e \in Entities(doc), p \in Parents(doc)}
                \cup {Without(doc, e) : e \in Entities(doc)}
         /\ q \in Puts => History!Effects(q, doc) = Bodies
         /\ q \in Forges => With(doc, q, Root) \in History!Effects(q, doc)
         /\ q \in Commands =>
              History!Effects(q, doc) =
                UNION {PlanEnds(d) : d \in {doc} \cup {With(doc, q, p) : p \in Parents(doc)}}
<1> USE SameTrees
<1>0. /\ q \in Puts => q \notin Edits
      /\ q \in Forges => q \notin Edits /\ q \notin Puts
      /\ q \in Commands => q \notin Edits /\ q \notin Puts /\ q \notin Forges
  BY WorldAssumption DEF Savers
<1>1. CASE q \in Edits
  BY <1>0, <1>1 DEF History!Effects, Parents
<1>2. CASE q \in Puts
  BY <1>0, <1>2 DEF History!Effects
<1>3. CASE q \in Forges
  BY <1>0, <1>3 DEF History!Effects
<1>4. CASE q \in Commands
  BY <1>0, <1>4 DEF History!Effects, Parents, PlanEnds
<1> QED BY <1>0, <1>1, <1>2, <1>3, <1>4

\* A valid document has valid parents only.
LEMMA ParentsOfValid ==
  ASSUME NEW doc, Shape(doc), NEW e, NEW p, Valid(With(doc, e, p))
  PROVE  p \in Entities(doc) \cup {e, Root} /\ p # e
<1> DEFINE d == With(doc, e, p)
<1>1. Entities(d) = Entities(doc) \cup {e} /\ d.parent[e] = p
  BY WithParts
<1> HIDE DEF d
<1>2. Valid(d)
  BY DEF d
<1>3. p \in Entities(d) \cup {Root}
  BY <1>1, <1>2 DEF Valid
<1>4. p # e
  <2>1. {e} \in SUBSET Entities(d) /\ {e} # {}
    BY <1>1
  <2>2. \E x \in {e} : d.parent[x] \notin {e}
    BY <1>2, <2>1 DEF Valid
  <2> QED BY <1>1, <2>2
<1> QED BY <1>1, <1>3, <1>4

\* What an entity route stores is one of its effects.
LEMMA EditHasEffect ==
  ASSUME NEW q \in Edits, NEW doc, Shape(doc), NEW d \in Patched(q, doc), Valid(d)
  PROVE  Shape(d) /\ d \in History!Effects(q, doc)
<1>0. q # Null
  BY NoIdIsNull
<1>1. CASE \E p \in Parents(doc) : d = With(doc, q, p)
  BY <1>0, <1>1, EffectsAre, ShapesStay
<1>2. CASE \E e \in Entities(doc) : d = Without(doc, e)
  BY <1>2, EffectsAre, ShapesStay
<1>3. ASSUME NEW e \in Entities(doc), NEW p, d = With(doc, e, p)
      PROVE  Shape(d) /\ d \in History!Effects(q, doc)
  <2>1. Valid(With(doc, e, p)) /\ e # Null
    BY <1>3 DEF Shape
  <2>2. p \in Entities(doc) \cup {e, Root}
    BY <2>1, ParentsOfValid
  <2>3. p \in Parents(doc)
    BY <2>2 DEF Parents
  <2>4. Shape(d)
    BY <1>3, <2>1, ShapesStay
  <2> QED BY <1>3, <2>3, <2>4, EffectsAre
<1>4. \/ \E p \in Parents(doc) : d = With(doc, q, p)
      \/ \E e \in Entities(doc) : d = Without(doc, e)
      \/ \E e \in Entities(doc) : \E p : d = With(doc, e, p)
  <2>1. \/ d \in {With(doc, q, p) : p \in Entities(doc) \cup {Root}}
        \/ d \in UNION {{With(doc, e, p) : p \in Ids \cup {doc.parent[e], Null}} :
                         e \in Entities(doc)}
        \/ d \in {Without(doc, e) : e \in Entities(doc)}
    BY DEF Patched
  <2>2. CASE d \in {With(doc, q, p) : p \in Entities(doc) \cup {Root}}
    BY <2>2 DEF Parents
  <2>3. CASE d \in UNION {{With(doc, e, p) : p \in Ids \cup {doc.parent[e], Null}} :
                         e \in Entities(doc)}
    BY <2>3
  <2>4. CASE d \in {Without(doc, e) : e \in Entities(doc)}
    BY <2>4
  <2> QED BY <2>1, <2>2, <2>3, <2>4
<1> QED BY <1>1, <1>2, <1>3, <1>4
\* With its subtree, an entity takes its parent along, whatever that is.
LEMMA TrimmedAlike ==
  ASSUME NEW doc, Shape(doc), NEW q, q # Null, NEW p1, NEW p2
  PROVE  Without(With(doc, q, p1), q) = Without(With(doc, q, p2), q)
<1> DEFINE d1 == With(doc, q, p1)
           d2 == With(doc, q, p2)
<1>1. /\ Entities(d1) = Entities(doc) \cup {q} /\ Entities(d2) = Entities(doc) \cup {q}
      /\ \A x \in Entities(doc) : x # q =>
           d1.parent[x] = doc.parent[x] /\ d2.parent[x] = doc.parent[x]
      /\ d1.targets = doc.targets /\ d2.targets = doc.targets
  BY WithParts
<1>2. Shape(d1) /\ Shape(d2)
  BY ShapesStay
<1> HIDE DEF d1, d2
<1>3. Subtree(d1, q) = Subtree(d2, q)
  <2>1. \A S : (q \in S /\ (\A y \in Entities(d1) : d1.parent[y] \in S => y \in S))
               <=> (q \in S /\ (\A y \in Entities(d2) : d2.parent[y] \in S => y \in S))
    BY <1>1
  <2>2. SUBSET Entities(d1) = SUBSET Entities(d2)
    BY <1>1
  <2>3. ASSUME NEW x PROVE x \in Subtree(d1, q) <=> x \in Subtree(d2, q)
    BY <1>1, <2>1, <2>2 DEF Subtree
  <2>4. \A x : x \in Subtree(d1, q) <=> x \in Subtree(d2, q)
    BY <2>3
  <2>5. Subtree(d1, q) \subseteq Entities(d1) /\ Subtree(d2, q) \subseteq Entities(d2)
    BY DEF Subtree
  <2> QED BY <2>4, <2>5
<1>4. q \in Subtree(d1, q)
  BY <1>1 DEF Subtree
<1> DEFINE rest == Entities(d1) \ Subtree(d1, q)
           f1   == [x \in rest |-> d1.parent[x]]
           f2   == [x \in rest |-> d2.parent[x]]
<1>5. \A x \in rest : d1.parent[x] = d2.parent[x]
  BY <1>1, <1>4
<1>6. f1 = f2
  BY <1>5
<1>7. Without(d1, q) = Document(f1, d1.targets)
  BY <1>2, WithoutIs
<1>8. Without(d2, q) = Document(f2, d2.targets)
  <2>1. Entities(d2) \ Subtree(d2, q) = rest
    BY <1>1, <1>3
  <2>2. Without(d2, q) = Document([x \in Entities(d2) \ Subtree(d2, q) |-> d2.parent[x]],
                                  d2.targets)
    BY <1>2, WithoutIs
  <2> QED BY <2>1, <2>2, Zenon
<1> HIDE DEF f1, f2
<1>9. Without(d1, q) = Without(d2, q)
  BY <1>1, <1>6, <1>7, <1>8
<1> QED BY <1>9 DEF d1, d2

\* An entity whose parent is none is in no other's subtree.
LEMMA OrphanStays ==
  ASSUME NEW doc, Shape(doc), NEW q \in Entities(doc), doc.parent[q] = Null,
         NEW e \in Entities(doc), e # q
  PROVE  ~Valid(Without(doc, e))
<1>1. q \notin Subtree(doc, e)
  <2> DEFINE S == Entities(doc) \ {q}
  <2>1. S \in SUBSET Entities(doc) /\ e \in S /\ q \notin S
    OBVIOUS
  <2>2. \A y \in Entities(doc) : doc.parent[y] \in S => y \in S
    BY DEF Shape
  <2> QED BY <2>1, <2>2 DEF Subtree
<1> DEFINE d == Without(doc, e)
<1>2. q \in Entities(d) /\ d.parent[q] = Null
  BY <1>1, WithoutIs
<1>3. Null \notin Entities(d)
  BY ShapesStay DEF Shape
<1> HIDE DEF d
<1>4. Null # Root
  BY DEF Null, Root
<1>5. ~Valid(d)
  BY <1>2, <1>3, <1>4 DEF Valid
<1> QED BY <1>5 DEF d

\* create_quest adds a reference and leaves the tree alone.
Quested(doc, e) == [doc EXCEPT !.targets = @ \cup {e}]

LEMMA QuestedIs ==
  ASSUME NEW doc, Shape(doc), NEW e
  PROVE  /\ Shape(Quested(doc, e)) /\ Entities(Quested(doc, e)) = Entities(doc)
         /\ Quested(doc, e).parent = doc.parent
<1> DEFINE t == doc.targets \cup {e}
<1>1. doc = [parent |-> doc.parent, targets |-> doc.targets]
  BY DEF Shape, Document
<1>2. Quested(doc, e) = [parent |-> doc.parent, targets |-> t]
  BY <1>1 DEF Quested
<1> HIDE DEF t
<1>3. Quested(doc, e).parent = doc.parent /\ Quested(doc, e).targets = t
  BY <1>2
<1>4. Entities(Quested(doc, e)) = Entities(doc)
  BY <1>3 DEF Entities
<1> QED BY <1>2, <1>3, <1>4 DEF Shape, Document

\* What the plan of an AI command makes of the document is one of its effects, if it is valid.
LEMMA CommandHasEffect ==
  ASSUME NEW q \in Commands, NEW doc, Shape(doc), NEW d \in Planned(q, doc) \cup {doc}
  PROVE  Shape(d) /\ (Valid(d) => d \in History!Effects(q, doc))
<1>0. q # Null /\ Null # Root
  BY NoIdIsNull DEF Null, Root
<1> DEFINE Good(b) == b = doc \/ \E p \in Parents(doc) : b = With(doc, q, p)
<1>1. ASSUME NEW b, Good(b), NEW x \in PlanEnds(b) PROVE x \in History!Effects(q, doc)
  BY <1>1, EffectsAre
<1>2. ASSUME NEW b, Shape(b), NEW x \in PlanEnds(b) PROVE Shape(x)
  <2>1. CASE x = b
    BY <1>2, <2>1
  <2>2. CASE \E e \in Entities(b) : x = Without(b, e)
    BY <1>2, <2>2, ShapesStay
  <2>3. CASE \E e \in Entities(b) : x = Quested(b, e)
    BY <1>2, <2>3, QuestedIs
  <2> QED BY <2>1, <2>2, <2>3 DEF PlanEnds, Quested
<1>3. PICK b : (b = doc \/ \E p \in Parents(doc) \cup {Null} : b = With(doc, q, p))
               /\ d \in PlanEnds(b)
  <2> DEFINE added      == {With(doc, q, p) : p \in Entities(doc) \cup {Root, Null}}
             trimmed(x) == {Without(x, e) : e \in Entities(x)}
             quested(x) == {[x EXCEPT !.targets = @ \cup {e}] : e \in Entities(x)}
  <2>1. d = doc \/ d \in added \/ \E x \in added \cup {doc} : d \in trimmed(x) \cup quested(x)
    BY DEF Planned
  <2>2. \A x \in added : \E p \in Parents(doc) \cup {Null} : x = With(doc, q, p)
    BY DEF Parents
  <2>3. \A x : x \in PlanEnds(x) /\ trimmed(x) \cup quested(x) \subseteq PlanEnds(x)
    BY DEF PlanEnds
  <2> HIDE DEF added, trimmed, quested
  <2> QED BY <2>1, <2>2, <2>3
<1>4. Shape(b)
  BY <1>0, <1>3, ShapesStay
<1>5. Shape(d)
  BY <1>2, <1>3, <1>4
<1>6. ASSUME Valid(d), ~Good(b) PROVE d \in History!Effects(q, doc)
  <2>1. b = With(doc, q, Null)
    BY <1>3, <1>6
  <2>2. q \in Entities(b) /\ b.parent[q] = Null
    BY <2>1, WithParts
  <2>3. CASE d = b \/ \E e \in Entities(b) : d = Quested(b, e)
    <3>1. Entities(d) = Entities(b) /\ d.parent = b.parent
      BY <1>4, <2>3, QuestedIs
    <3>2. Null \in Entities(d) \cup {Root}
      BY <1>6, <2>2, <3>1 DEF Valid
    <3> QED BY <1>0, <1>5, <3>2 DEF Shape
  <2>4. CASE \E e \in Entities(b) : d = Without(b, e)
    <3>1. d = Without(b, q)
      BY <1>4, <1>6, <2>2, <2>4, OrphanStays
    <3>2. d = Without(With(doc, q, Root), q)
      BY <1>0, <2>1, <3>1, TrimmedAlike
    <3>3. q \in Entities(With(doc, q, Root))
      BY WithParts
    <3>4. d \in PlanEnds(With(doc, q, Root))
      BY <3>2, <3>3 DEF PlanEnds
    <3> QED BY <1>1, <3>4 DEF Parents
  <2> QED BY <1>3, <2>3, <2>4 DEF PlanEnds, Quested
<1> QED BY <1>1, <1>3, <1>5, <1>6
-----------------------------------------------------------------------------
\* What Append does to a sequence whatever its elements are.
LEMMA Appended ==
  ASSUME NEW d, \E S : version \in Seq(S), version' = Append(version, d)
  PROVE  /\ Len(version) \in Nat /\ Len(version') = Len(version) + 1
         /\ DOMAIN version = 1..Len(version) /\ DOMAIN version' = 1..(Len(version) + 1)
         /\ \A i \in 1..Len(version) : version'[i] = version[i]
         /\ version'[Len(version) + 1] = d
<1>1. PICK S : version \in Seq(S)
  OBVIOUS
<1>2. version \in Seq(S \cup {d})
  BY <1>1, SeqMonotonic
<1>3. /\ version' \in Seq(S \cup {d}) /\ Len(version') = Len(version) + 1
      /\ \A i \in 1..Len(version) : version'[i] = version[i]
      /\ version'[Len(version) + 1] = d
  BY <1>2, AppendProperties
<1> QED BY <1>2, <1>3, LenProperties

(* Types, in every interleaving.                                           *)

\* A label a request is going to use, other than for a row of its own, names a row.
Named(q) ==
  /\ pc[q] \in {"load", "write", "row", "list", "pin", "switch"} => read[q] \in DOMAIN version
  /\ pc[q] = "row" => q \in Snapshots

TypeInv == TypeOK /\ IInv /\ \A q \in Requests : Named(q)

LEMMA DocumentsStay ==
  ASSUME NEW doc, IsDocument(doc)
  PROVE  /\ Shape(doc) /\ Cardinality(Entities(doc)) \in Nat
         /\ \A e \in Ids : \A p : IsDocument(With(doc, e, p))
         /\ \A e : IsDocument(Without(doc, e))
         /\ \A e \in Ids : IsDocument(Quested(doc, e))
<1>1. Null \notin Ids /\ IsFiniteSet(Ids)
  BY WorldAssumption
<1>2. Shape(doc)
  BY <1>1 DEF IsDocument, Shape
<1>3. Cardinality(Entities(doc)) \in Nat
  BY <1>1, FS_Subset, FS_CardinalityType DEF IsDocument
<1>4. ASSUME NEW e \in Ids, NEW p PROVE IsDocument(With(doc, e, p))
  <2>1. Shape(With(doc, e, p))
    BY <1>1, <1>2, <1>4, ShapesStay
  <2>2. /\ Entities(With(doc, e, p)) = Entities(doc) \cup {e}
        /\ With(doc, e, p).targets = doc.targets
    BY <1>2, WithParts
  <2> QED BY <2>1, <2>2 DEF IsDocument, Shape
<1>5. ASSUME NEW e PROVE IsDocument(Without(doc, e))
  <2> DEFINE f == [x \in Entities(doc) \ Subtree(doc, e) |-> doc.parent[x]]
  <2>1. Without(doc, e) = Document(f, doc.targets) /\ DOMAIN f \subseteq Entities(doc)
    BY <1>2, WithoutIs
  <2> HIDE DEF f
  <2> QED BY <2>1 DEF IsDocument, Document, Entities
<1>6. ASSUME NEW e \in Ids PROVE IsDocument(Quested(doc, e))
  <2> DEFINE t == doc.targets \cup {e}
  <2>1. t \subseteq Ids
    BY DEF IsDocument
  <2>2. Quested(doc, e) = [parent |-> doc.parent, targets |-> t]
    <3>1. doc = [parent |-> doc.parent, targets |-> doc.targets]
      BY DEF IsDocument, Document
    <3> QED BY <3>1 DEF Quested
  <2> HIDE DEF t
  <2> QED BY <2>1, <2>2 DEF IsDocument, Document, Entities
<1> QED BY <1>2, <1>3, <1>4, <1>5, <1>6

\* What requests make of a document is one.
LEMMA DraftsAreDocuments ==
  /\ IsDocument(Empty) /\ \A b \in Bodies : IsDocument(b)
  /\ \A doc : IsDocument(doc) =>
       /\ \A q \in Edits : \A d \in Patched(q, doc) : IsDocument(d)
       /\ \A q \in Forges : IsDocument(With(doc, q, Root))
       /\ \A q \in Commands : \A d \in Planned(q, doc) : IsDocument(d)
<1>0. /\ \A b \in Bodies : Entities(b) \subseteq Ids
      /\ Edits \cup Forges \cup Commands \subseteq Ids
  <2>1. \A b \in Bodies : Entities(b) \subseteq UNION {Entities(c) : c \in Bodies}
    OBVIOUS
  <2> QED BY <2>1 DEF Ids
<1>1. IsDocument(Empty)
  BY DEF IsDocument, Empty, Document, Entities
<1>2. \A b \in Bodies : IsDocument(b)
  BY <1>0, WorldAssumption DEF IsDocument
<1>3. ASSUME NEW doc, IsDocument(doc), NEW q \in Edits, NEW d \in Patched(q, doc)
      PROVE  IsDocument(d)
  <2>1. Entities(doc) \subseteq Ids /\ q \in Ids
    BY <1>0, <1>3 DEF IsDocument
  <2>2. \/ \E p : d = With(doc, q, p)
        \/ \E e \in Entities(doc) : \E p : d = With(doc, e, p)
        \/ \E e \in Entities(doc) : d = Without(doc, e)
    BY DEF Patched
  <2> QED BY <1>3, <2>1, <2>2, DocumentsStay
<1>4. ASSUME NEW doc, IsDocument(doc), NEW q \in Forges PROVE IsDocument(With(doc, q, Root))
  BY <1>0, <1>4, DocumentsStay
<1>5. ASSUME NEW doc, IsDocument(doc), NEW q \in Commands, NEW d \in Planned(q, doc)
      PROVE  IsDocument(d)
  <2> DEFINE added      == {With(doc, q, p) : p \in Entities(doc) \cup {Root, Null}}
             trimmed(x) == {Without(x, e) : e \in Entities(x)}
             quested(x) == {[x EXCEPT !.targets = @ \cup {e}] : e \in Entities(x)}
  <2>1. d \in added \/ \E x \in added \cup {doc} : d \in trimmed(x) \cup quested(x)
    BY DEF Planned
  <2>2. \A x \in added : IsDocument(x)
    BY <1>0, <1>5, DocumentsStay
  <2>3. ASSUME NEW x, IsDocument(x), d \in trimmed(x) \cup quested(x) PROVE IsDocument(d)
    <3>1. Entities(x) \subseteq Ids
      BY <2>3 DEF IsDocument
    <3>2. (\E e \in Entities(x) : d = Without(x, e)) \/ \E e \in Entities(x) : d = Quested(x, e)
      BY <2>3 DEF Quested
    <3> QED BY <2>3, <3>1, <3>2, DocumentsStay
  <2> HIDE DEF added, trimmed, quested
  <2> QED BY <1>5, <2>1, <2>2, <2>3
<1> QED BY <1>1, <1>2, <1>3, <1>4, <1>5
\* What a step may assign to each variable.
LocalsMove(q) ==
  /\ \E step \in Steps : pc' = [pc EXCEPT ![q] = step]
  /\ \E n \in 0..(Len(version) + 1) : read' = [read EXCEPT ![q] = n]
  /\ IsDocument(draft'[q])

RowsChange(q) ==
  /\ version' = version \/ Writes(q) \/ Creates(q)
  /\ current' = current \/ (pc[q] = "switch" /\ current' = read[q] /\ version' = version)
  /\ entityCount' \in Nat

SidesChange(q) ==
  /\ overtaken' = overtaken \/ overtaken' = overtaken \cup (Open \ {q})
  /\ published' \in BOOLEAN /\ deleted' = deleted /\ crashes' \in 0..MaxCrashes
  /\ \/ snapshot' = snapshot
     \/ /\ q \in Snapshots
        /\ \E n \in DOMAIN version, c \in Nat :
             snapshot' = [snapshot EXCEPT ![q] = [version |-> n, count |-> c]]
  /\ \/ product' = product
     \/ product' = [product EXCEPT ![q].listed = TRUE]
     \/ \E n \in DOMAIN version : product' = [product EXCEPT ![q].version = n]

LEMMA StepTypes ==
  ASSUME NEW q \in Requests, TypeInv, Step(q) \/ Fail(q)
  PROVE  LocalsMove(q) /\ RowsChange(q) /\ SidesChange(q)
         /\ (pc'[q] \in {"load", "write", "row", "list", "pin", "switch"} =>
               \/ read'[q] \in DOMAIN version
               \/ Creates(q) /\ read'[q] = Len(version) + 1)
         /\ (pc'[q] = "row" => q \in Snapshots)
<1>0. /\ pc \in [Requests -> Steps] /\ read \in [Requests -> 0..(Len(version) + 1)]
      /\ DOMAIN draft = Requests /\ IsDocument(draft[q])
      /\ \A v \in DOMAIN version : IsDocument(version[v])
      /\ current \in DOMAIN version /\ entityCount \in Nat /\ published \in BOOLEAN
      /\ crashes \in 0..MaxCrashes /\ MaxCrashes \in Nat
      /\ \E S : version \in Seq(S)
      /\ Named(q)
  BY WorldAssumption DEF TypeInv, TypeOK, IInv, Shapes
<1>1. DOMAIN version = 1..Len(version) /\ Len(version) \in Nat
  BY <1>0, LenProperties
<1>2. /\ pc = [pc EXCEPT ![q] = pc[q]] /\ pc[q] \in Steps
      /\ read = [read EXCEPT ![q] = read[q]] /\ read[q] \in 0..(Len(version) + 1)
      /\ current \in 0..(Len(version) + 1) /\ Len(version) + 1 \in 0..(Len(version) + 1)
      /\ 0 \in 0..(Len(version) + 1)
  <2>1. pc = [pc EXCEPT ![q] = pc[q]] /\ pc[q] \in Steps
    BY <1>0
  <2>2. read = [read EXCEPT ![q] = read[q]] /\ read[q] \in 0..(Len(version) + 1)
    BY <1>0
  <2> QED BY <1>0, <1>1, <2>1, <2>2
<1>3. Cardinality(Entities(draft[q])) \in Nat /\ IsDocument(Empty)
  BY <1>0, DocumentsStay, DraftsAreDocuments
<1>4. Cardinality(Entities(draft[q])) \in Nat /\ crashes + 1 \in Nat
  BY <1>0, <1>3
<1> USE <1>0, <1>2, <1>3 DEF LocalsMove, RowsChange, SidesChange, Steps, Resting, Goto, Finish
<1>5. CASE ReadPointer(q)
  BY <1>5 DEF ReadPointer, rowVars, sideVars
<1>6. CASE LoadEdit(q)
  <2>1. CASE Finish(q, "refused")
    BY <1>6, <2>1 DEF LoadEdit, rowVars, sideVars
  <2>2. CASE /\ \E d \in Patched(q, Loaded(q)) : draft' = [draft EXCEPT ![q] = d]
             /\ Goto(q, "write") /\ read' = read
    <3>1. q \in Edits /\ IsDocument(Loaded(q)) /\ pc[q] = "load"
      BY <1>6 DEF LoadEdit, Loaded, Named
    <3>2. IsDocument(draft'[q])
      BY <2>2, <3>1, DraftsAreDocuments
    <3> QED BY <1>6, <2>2, <3>1, <3>2 DEF LoadEdit, rowVars, sideVars, Named
  <2> QED BY <1>6, <2>1, <2>2 DEF LoadEdit
<1>7. CASE WriteDocument(q)
  BY <1>7 DEF WriteDocument, Overtake, sideVars, Writes
<1>8. CASE CountEntities(q)
  BY <1>8 DEF CountEntities, sideVars
<1>9. CASE LoadForge(q)
  <2>1. IsDocument(With(Loaded(q), q, Root))
    BY <1>9, DraftsAreDocuments DEF LoadForge, Loaded, Named
  <2> QED BY <1>9, <2>1 DEF LoadForge, rowVars, sideVars
<1>10. CASE LoadCommand(q)
  <2>1. CASE Finish(q, "unchanged")
    BY <1>10, <2>1 DEF LoadCommand, rowVars, sideVars
  <2>2. CASE /\ \E d \in Planned(q, Loaded(q)) \cup {Loaded(q)} : draft' = [draft EXCEPT ![q] = d]
             /\ \E step \in {"save", "tool"} : Goto(q, step)
             /\ read' = read
    <3>1. q \in Commands /\ IsDocument(Loaded(q))
      BY <1>10 DEF LoadCommand, Loaded, Named
    <3>2. IsDocument(draft'[q])
      BY <2>2, <3>1, DraftsAreDocuments
    <3> QED BY <1>10, <2>2, <3>2 DEF LoadCommand, rowVars, sideVars
  <2> QED BY <1>10, <2>1, <2>2 DEF LoadCommand
<1>11. CASE PublishTool(q)
  BY <1>11 DEF PublishTool, rowVars
<1>12. CASE Save(q)
  <2>1. /\ UNCHANGED <<version, current, entityCount, published, deleted, snapshot, product,
                       crashes, overtaken>>
    BY <1>12 DEF Save, rowVars, sideVars
  <2>2. ASSUME NEW d, IsDocument(d), Checked(q, d)
        PROVE  /\ LocalsMove(q)
               /\ pc'[q] \notin {"load", "write", "row", "list", "pin", "switch"}
    BY <2>2 DEF Checked
  <2>3. \E d : IsDocument(d) /\ Checked(q, d)
    BY <1>12, DraftsAreDocuments DEF Save
  <2> QED BY <2>1, <2>2, <2>3
<1>13. CASE TakeLabel(q)
  BY <1>13 DEF TakeLabel, rowVars, sideVars
<1>14. CASE CreateVersion(q)
  BY <1>14 DEF CreateVersion, sideVars, Creates
<1>15. CASE SwitchCurrent(q)
  BY <1>15 DEF SwitchCurrent, Overtake, sideVars, Named
<1>16. CASE LoadOnly(q)
  <2>1. IsDocument(Loaded(q))
    BY <1>16 DEF LoadOnly, Loaded, Named
  <2> QED BY <1>16, <2>1 DEF LoadOnly, rowVars, sideVars, Named
<1>17. CASE RecordSnapshot(q)
  <2>1. q \in Snapshots
    BY <1>17 DEF RecordSnapshot, Named
  <2> QED BY <1>17, <2>1 DEF RecordSnapshot, rowVars, Named
<1>18. CASE ListProduct(q) \/ PinVersion(q)
  BY <1>18 DEF ListProduct, PinVersion, rowVars, Named
<1>19. CASE MarkPublished(q)
  BY <1>19 DEF MarkPublished, rowVars
<1>20. CASE Fail(q)
  <2>1. crashes' \in 0..MaxCrashes
    BY <1>20 DEF Fail
  <2>2. PICK outcome \in {"saved", "failed"} : Finish(q, outcome)
    BY <1>20 DEF Fail
  <2>3. LocalsMove(q) /\ pc'[q] \in {"saved", "failed"}
    BY <2>2
  <2> QED BY <1>20, <2>1, <2>3 DEF Fail, rowVars, sideVars
<1> QED
  BY <1>5, <1>6, <1>7, <1>8, <1>9, <1>10, <1>11, <1>12, <1>13, <1>14, <1>15, <1>16, <1>17,
     <1>18, <1>19, <1>20 DEF Step
LEMMA NextTypes == TypeInv /\ [Next]_vars => TypeInv'
<1> SUFFICES ASSUME TypeInv, [Next]_vars PROVE TypeInv'
  OBVIOUS
<1>0. TypeOK /\ IInv /\ IInv'
  BY NextStored DEF TypeInv
<1>1. CASE UNCHANGED vars \/ RemoveWorld
  BY <1>0, <1>1 DEF vars, RemoveWorld, rowVars, sideVars, TypeInv, TypeOK, Named
<1>2. ASSUME NEW q \in Requests, Step(q) \/ Fail(q) PROVE TypeInv'
  <2>1. /\ LocalsMove(q) /\ RowsChange(q) /\ SidesChange(q)
        /\ pc'[q] \in {"load", "write", "row", "list", "pin", "switch"} =>
             read'[q] \in DOMAIN version \/ (Creates(q) /\ read'[q] = Len(version) + 1)
        /\ pc'[q] = "row" => q \in Snapshots
    BY <1>2, StepTypes
  <2>2. OthersKeep(q)
    BY <1>0, <1>2, StepStores DEF IInv
  <2>3. /\ \E S : version \in Seq(S)
        /\ DOMAIN version = 1..Len(version) /\ Len(version) \in Nat
    BY <1>0, LenProperties DEF IInv, Shapes
  <2>4. /\ \E S : version' \in Seq(S)
        /\ DOMAIN version' = 1..Len(version') /\ Len(version') \in Nat
    BY <1>0, LenProperties DEF IInv, Shapes
  <2>5. /\ \A v \in DOMAIN version' : IsDocument(version'[v])
        /\ DOMAIN version \subseteq DOMAIN version'
        /\ Creates(q) => Len(version) + 1 \in DOMAIN version'
    <3>0. /\ \A v \in DOMAIN version : IsDocument(version[v])
          /\ IsDocument(draft[q])
      BY <1>0 DEF TypeOK
    <3>1. CASE version' = version /\ ~Creates(q)
      BY <3>0, <3>1
    <3>2. CASE Writes(q)
      <4>1. version' = [version EXCEPT ![read[q]] = draft[q]] /\ ~Creates(q)
        BY <3>2 DEF Writes, Creates
      <4> QED BY <3>0, <4>1
    <3>3. CASE Creates(q)
      <4>1. version' = Append(version, draft[q])
        BY <3>3 DEF Creates
      <4>2. /\ DOMAIN version' = 1..(Len(version) + 1)
            /\ \A i \in 1..Len(version) : version'[i] = version[i]
            /\ version'[Len(version) + 1] = draft[q]
        BY <2>3, <4>1, Appended
      <4> QED BY <2>3, <3>0, <4>2
    <3> QED BY <2>1, <3>1, <3>2, <3>3 DEF RowsChange
  <2>6. Len(version) <= Len(version')
    BY <2>3, <2>4, <2>5
  <2>7. current' \in DOMAIN version'
    BY <1>0, <2>1, <2>5 DEF RowsChange, TypeOK, TypeInv, Named
  <2>8. /\ pc' \in [Requests -> Steps]
        /\ read' \in [Requests -> 0..(Len(version') + 1)]
        /\ \A r \in Requests : IsDocument(draft'[r])
    <3>1. pc' \in [Requests -> Steps] /\ \A r \in Requests : IsDocument(draft'[r])
      BY <1>0, <2>1, <2>2 DEF LocalsMove, OthersKeep, TypeOK
    <3>2. read' \in [Requests -> 0..(Len(version) + 1)]
      BY <1>0, <2>1 DEF LocalsMove, TypeOK
    <3>3. 0..(Len(version) + 1) \subseteq 0..(Len(version') + 1)
      BY <2>3, <2>4, <2>6
    <3> QED BY <3>1, <3>2, <3>3
  <2>9. snapshot' \in [Snapshots -> [version : DOMAIN version' \cup {0}, count : Nat]]
    <3>1. snapshot \in [Snapshots -> [version : DOMAIN version \cup {0}, count : Nat]]
      BY <1>0 DEF TypeOK
    <3>2. snapshot \in [Snapshots -> [version : DOMAIN version' \cup {0}, count : Nat]]
      BY <2>5, <3>1
    <3>3. CASE snapshot' = snapshot
      BY <3>2, <3>3
    <3>4. ASSUME q \in Snapshots, NEW n \in DOMAIN version, NEW c \in Nat,
                 snapshot' = [snapshot EXCEPT ![q] = [version |-> n, count |-> c]]
          PROVE  snapshot' \in [Snapshots -> [version : DOMAIN version' \cup {0}, count : Nat]]
      <4>1. [version |-> n, count |-> c] \in [version : DOMAIN version' \cup {0}, count : Nat]
        BY <2>5
      <4> QED BY <3>2, <3>4, <4>1
    <3> QED BY <2>1, <3>3, <3>4 DEF SidesChange
  <2>10. product' \in [Publishes -> [listed : BOOLEAN, version : DOMAIN version' \cup {0}]]
    <3>1. product \in [Publishes -> [listed : BOOLEAN, version : DOMAIN version \cup {0}]]
      BY <1>0 DEF TypeOK
    <3>2. product \in [Publishes -> [listed : BOOLEAN, version : DOMAIN version' \cup {0}]]
      BY <2>5, <3>1
    <3>3. CASE product' = product
      BY <3>2, <3>3
    <3>4. CASE product' = [product EXCEPT ![q].listed = TRUE]
      BY <3>2, <3>4
    <3>5. ASSUME NEW n \in DOMAIN version, product' = [product EXCEPT ![q].version = n]
          PROVE  product' \in [Publishes -> [listed : BOOLEAN, version : DOMAIN version' \cup {0}]]
      <4>1. n \in DOMAIN version' \cup {0}
        BY <2>5
      <4> QED BY <3>2, <3>5, <4>1
    <3> QED BY <2>1, <3>3, <3>4, <3>5 DEF SidesChange
  <2>11. TypeOK'
    <3>1. overtaken' \subseteq Writers
      BY <1>0, <2>1 DEF TypeOK, SidesChange, Open
    <3> QED
      BY <1>0, <2>1, <2>5, <2>7, <2>8, <2>9, <2>10, <3>1 DEF TypeOK, RowsChange, SidesChange
  <2>12. Named(q)'
    BY <2>1, <2>5 DEF Named
  <2>13. \A r \in Requests : r # q => Named(r)'
    BY <2>2, <2>5 DEF OthersKeep, TypeInv, Named
  <2> QED BY <1>0, <2>11, <2>12, <2>13 DEF TypeInv
<1> QED BY <1>1, <1>2 DEF Next

LEMMA InitTypes == Init => TypeInv
<1> SUFFICES ASSUME Init PROVE TypeInv
  OBVIOUS
<1>1. version = <<Empty>> /\ current = 1 /\ Len(version) = 1 /\ DOMAIN version = {1}
  BY DEF Init
<1>2. \A v \in DOMAIN version : IsDocument(version[v])
  BY <1>1, DraftsAreDocuments
<1>3. \A q \in Requests : IsDocument(draft[q]) /\ pc[q] = "idle"
  BY DraftsAreDocuments DEF Init
<1>4. TypeOK
  <2>1. current \in DOMAIN version /\ entityCount \in Nat /\ crashes \in 0..MaxCrashes
        /\ published \in BOOLEAN /\ deleted \in BOOLEAN
    <3>1. 0 \in 0..MaxCrashes
      BY WorldAssumption
    <3>2. crashes = 0 /\ entityCount = 0 /\ published = FALSE /\ deleted = FALSE
      BY DEF Init
    <3> QED BY <1>1, <3>1, <3>2
  <2>2. /\ snapshot \in [Snapshots -> [version : DOMAIN version \cup {0}, count : Nat]]
        /\ product \in [Publishes -> [listed : BOOLEAN, version : DOMAIN version \cup {0}]]
    BY DEF Init
  <2>3. pc \in [Requests -> Steps]
    BY DEF Init, Steps, Resting
  <2>4. read \in [Requests -> 0..(Len(version) + 1)]
    <3>1. 0 \in 0..(Len(version) + 1)
      BY <1>1
    <3> QED BY <3>1 DEF Init
  <2>5. overtaken \subseteq Writers
    BY DEF Init
  <2> QED BY <1>2, <1>3, <2>1, <2>2, <2>3, <2>4, <2>5 DEF TypeOK
<1> QED BY <1>3, <1>4, InitStored DEF TypeInv, Named

\* In every interleaving and wherever requests die: what is stored or held is a document of the
\* world's entities, and every label the world, a snapshot or a product names is a version's
\* that exists (worlds/service.ts).
THEOREM WorldTypes == Spec => []TypeOK
<1>1. Init => TypeInv
  BY InitTypes
<1>2. TypeInv => TypeOK
  BY DEF TypeInv
<1> QED BY <1>1, <1>2, NextTypes, PTL DEF Spec
-----------------------------------------------------------------------------
(* History.  The abstract document is the current version.  A request that   *)
(* no other has overtaken still holds the current version's label, and what  *)
(* it is about to save is one of its effects on that version.                *)

\* The steps of each kind of request.
Placed(q) ==
  /\ q \in Edits => pc[q] \in {"idle", "load", "write", "count", "refused", "done", "failed",
                               "saved"}
  /\ q \in Savers => pc[q] \in {"idle", "load", "tool", "save", "label", "create", "switch",
                                "refused", "unchanged", "done", "failed"}
  /\ q \in Snapshots \cup Publishes => pc[q] \in {"idle", "load", "row", "list", "pin", "mark",
                                                  "refused", "done", "failed"}

Fresh(q) ==
  /\ pc[q] \in {"load", "write"} => read[q] = current
  /\ pc[q] \in {"create", "switch"} => current < read[q]
  /\ pc[q] = "switch" => version[read[q]] = draft[q]

Proposes(q) ==
  /\ pc[q] \in {"tool", "save"} =>
       (Valid(draft[q]) => draft[q] \in History!Effects(q, version[current]))
  /\ pc[q] \in {"write", "label", "create", "switch"} =>
       draft[q] \in History!Effects(q, version[current])

Holds(q) == q \in Writers \ overtaken => Fresh(q) /\ Proposes(q)

HistoryInv == TypeInv /\ \A q \in Requests : Placed(q) /\ Holds(q)

\* Has the request had its effect?
Counts(q) ==
  \/ q \in Edits /\ pc[q] \in {"count", "saved", "done"}
  \/ q \in Savers /\ pc[q] = "done"

Applied == {q \in Edits : pc[q] \in {"count", "saved", "done"}}
           \cup {q \in Savers : pc[q] = "done"}

\* A step of q leaves the document alone ...
Keeps(q) ==
  /\ version' = version \/ Creates(q)
  /\ current' = current /\ overtaken' = overtaken
  /\ Counts(q)' <=> Counts(q)
  /\ q \notin Open /\ q \in Open' => ~Counts(q)

\* ... or it is the one at which q has its effect.
Acts(q) ==
  /\ q \in Open /\ q \notin Open'
  /\ overtaken' = overtaken \cup (Open \ {q})
  /\ ~Counts(q) /\ Counts(q)'
  /\ q \notin overtaken => version'[current'] \in History!Effects(q, version[current])

\* What it does to the history.
Rewrites(q) == pc[q] = "write" /\ Writes(q) /\ current' = current /\ pc'[q] = "count"
Moves(q) ==
  pc[q] = "switch" /\ version' = version /\ current' = read[q] /\ pc'[q] = "done"

LEMMA Kinds ==
  ASSUME NEW q \in Requests
  PROVE  /\ q \in Edits \/ q \in Savers \/ q \in Snapshots \cup Publishes
         /\ q \in Edits => q \notin Savers /\ q \notin Snapshots \cup Publishes
         /\ q \in Savers => q \notin Snapshots \cup Publishes
         /\ q \in Savers => q \in Puts \/ q \in Forges \/ q \in Commands
         /\ q \in Puts => q \notin Forges /\ q \notin Commands /\ q \in Savers
         /\ q \in Forges => q \notin Commands /\ q \in Savers
         /\ q \in Commands => q \in Savers
  BY WorldAssumption DEF Requests, Writers, Savers

LEMMA IsOpen ==
  ASSUME NEW q \in Requests
  PROVE  q \in Open <=> /\ q \in Edits \cup Savers
                        /\ pc[q] \in {"load", "write", "tool", "save", "label", "create", "switch"}
  BY DEF Open, Writers

LEMMA StepHistory ==
  ASSUME NEW q \in Requests, HistoryInv, Step(q) \/ Fail(q)
  PROVE  Placed(q)' /\ Holds(q)' /\ (Keeps(q) \/ (Acts(q) /\ (Rewrites(q) \/ Moves(q))))
<1>0. /\ q \in DOMAIN pc /\ q \in DOMAIN read /\ q \in DOMAIN draft
      /\ Placed(q) /\ Holds(q) /\ Named(q) /\ IsDocument(draft[q])
      /\ \E S : version \in Seq(S)
      /\ read \in [Requests -> 0..(Len(version) + 1)]
  BY DEF HistoryInv, TypeInv, TypeOK, IInv, Shapes
<1>1. /\ Len(version) \in Nat /\ DOMAIN version = 1..Len(version)
      /\ current \in DOMAIN version /\ Shape(version[current])
      /\ read[q] \in Nat /\ current \in Nat
  <2>1. Len(version) \in Nat /\ DOMAIN version = 1..Len(version)
    BY <1>0, LenProperties
  <2>2. current \in DOMAIN version /\ IsDocument(version[current])
    BY DEF HistoryInv, TypeInv, TypeOK
  <2>3. read[q] \in Nat
    BY <1>0, <2>1
  <2> QED BY <2>1, <2>2, <2>3, DocumentsStay
<1>2. q \in Writers <=> q \in Edits \/ q \in Savers
  BY DEF Writers
<1>o. /\ q \in Open <=> /\ q \in Edits \cup Savers
                        /\ pc[q] \in {"load", "write", "tool", "save", "label", "create", "switch"}
      /\ q \in Open' <=> /\ q \in Edits \cup Savers
                         /\ pc'[q] \in {"load", "write", "tool", "save", "label", "create",
                                        "switch"}
  BY <1>2 DEF Open
<1>3. CASE WriteDocument(q)
  <2>1. /\ pc[q] = "write" /\ q \in Edits
        /\ version' = [version EXCEPT ![read[q]] = draft[q]] /\ current' = current
        /\ pc'[q] = "count" /\ overtaken' = overtaken \cup (Open \ {q})
    BY <1>0, <1>3, Kinds DEF WriteDocument, Overtake, Goto, Placed
  <2>2. ASSUME q \notin overtaken
        PROVE  version'[current'] \in History!Effects(q, version[current])
    <3>1. Fresh(q) /\ Proposes(q)
      BY <1>0, <1>2, <2>1, <2>2 DEF Holds
    <3> QED BY <1>1, <2>1, <3>1 DEF Fresh, Proposes
  <2>3. Placed(q)' /\ Holds(q)'
    BY <2>1, Kinds DEF Placed, Holds, Fresh, Proposes
  <2>4. ~Counts(q) /\ Counts(q)'
    BY <2>1, Kinds DEF Counts
  <2>5. Rewrites(q)
    BY <2>1 DEF Rewrites, Writes
  <2> QED BY <1>o, <2>1, <2>2, <2>3, <2>4, <2>5 DEF Acts
<1>4. CASE SwitchCurrent(q)
  <2>1. /\ pc[q] = "switch" /\ q \in Savers /\ version' = version
        /\ current' = read[q] /\ pc'[q] = "done"
        /\ overtaken' = overtaken \cup (Open \ {q})
    BY <1>0, <1>4, Kinds DEF SwitchCurrent, Overtake, Placed, Finish, Goto
  <2>2. ASSUME q \notin overtaken
        PROVE  version'[current'] \in History!Effects(q, version[current])
    <3>1. Fresh(q) /\ Proposes(q)
      BY <1>0, <1>2, <2>1, <2>2 DEF Holds
    <3> QED BY <2>1, <3>1 DEF Fresh, Proposes
  <2>3. Placed(q)' /\ Holds(q)'
    BY <2>1, Kinds DEF Placed, Holds, Fresh, Proposes
  <2>4. ~Counts(q) /\ Counts(q)'
    BY <2>1, Kinds DEF Counts
  <2> QED BY <1>o, <2>1, <2>2, <2>3, <2>4 DEF Acts, Moves
<1>5. CASE CreateVersion(q)
  <2>1. /\ pc[q] = "create" /\ q \in Savers /\ q \in Writers
        /\ current' = current /\ overtaken' = overtaken
    BY <1>0, <1>2, <1>5, Kinds DEF CreateVersion, Placed
  <2>2. CASE /\ read[q] = Len(version) + 1 /\ version' = Append(version, draft[q])
             /\ draft' = draft /\ read' = read /\ Goto(q, "switch")
    <3>1. /\ \A i \in 1..Len(version) : version'[i] = version[i]
          /\ version'[Len(version) + 1] = draft[q]
      BY <1>0, <2>2, Appended
    <3>2. pc'[q] = "switch" /\ Creates(q)
      BY <1>0, <2>1, <2>2 DEF Goto, Creates
    <3>3. ASSUME q \notin overtaken PROVE Fresh(q)' /\ Proposes(q)'
      <4>1. Fresh(q) /\ Proposes(q)
        BY <1>0, <2>1, <3>3 DEF Holds
      <4>2. version'[current'] = version[current] /\ draft'[q] = draft[q] /\ read'[q] = read[q]
        BY <1>1, <2>1, <2>2, <3>1
      <4>3. current < read[q] /\ draft[q] \in History!Effects(q, version[current])
        BY <2>1, <4>1 DEF Fresh, Proposes
      <4>4. version'[read'[q]] = draft'[q]
        BY <2>2, <3>1, <4>2
      <4> QED BY <2>1, <3>2, <4>2, <4>3, <4>4 DEF Fresh, Proposes
    <3>4. Placed(q)' /\ Holds(q)'
      BY <2>1, <3>2, <3>3, Kinds DEF Placed, Holds
    <3> QED BY <1>o, <2>1, <3>2, <3>4, Kinds DEF Keeps, Counts
  <2>3. CASE version' = version /\ Finish(q, "failed")
    <3>1. pc'[q] = "failed"
      BY <1>0, <2>3 DEF Finish, Goto
    <3> QED BY <1>o, <2>1, <2>3, <3>1, Kinds DEF Placed, Holds, Fresh, Proposes, Keeps, Counts
  <2> QED BY <1>5, <2>2, <2>3 DEF CreateVersion
<1>6. SUFFICES ASSUME ~(WriteDocument(q) \/ CreateVersion(q) \/ SwitchCurrent(q))
               PROVE  /\ Placed(q)' /\ (Counts(q)' <=> Counts(q))
                      /\ version' = version /\ current' = current /\ overtaken' = overtaken
                      /\ q \notin Open /\ q \in Open' => ~Counts(q)
                      /\ q \in Writers \ overtaken => Fresh(q)' /\ Proposes(q)'
  <2>1. CASE ~(WriteDocument(q) \/ CreateVersion(q) \/ SwitchCurrent(q))
    BY <1>6, <2>1 DEF Holds, Keeps
  <2> QED BY <1>3, <1>4, <1>5, <2>1
<1>7. q \in Writers \ overtaken => Fresh(q) /\ Proposes(q)
  BY <1>0 DEF Holds
<1> USE <1>o, <1>2, Kinds DEF Placed, Counts, Finish, Goto
<1>8. CASE ReadPointer(q)
  BY <1>0, <1>8 DEF ReadPointer, rowVars, Fresh, Proposes
<1>9. CASE LoadEdit(q)
  <2>1. q \in Edits /\ pc[q] = "load" /\ version' = version /\ current' = current
        /\ overtaken' = overtaken
    BY <1>9 DEF LoadEdit, rowVars
  <2>2. CASE Finish(q, "refused")
    BY <1>0, <2>1, <2>2 DEF Fresh, Proposes
  <2>3. ASSUME NEW d \in Patched(q, Loaded(q)), Accepts(d), draft' = [draft EXCEPT ![q] = d],
               Goto(q, "write"), read' = read
        PROVE  /\ Placed(q)' /\ (Counts(q)' <=> Counts(q))
               /\ q \notin Open /\ q \in Open' => ~Counts(q)
               /\ q \in Writers \ overtaken => Fresh(q)' /\ Proposes(q)'
    <3>1. pc'[q] = "write" /\ draft'[q] = d
      BY <1>0, <2>3
    <3>2. ASSUME q \notin overtaken PROVE Fresh(q)' /\ Proposes(q)'
      <4>1. read[q] = current
        BY <1>7, <2>1, <3>2 DEF Fresh
      <4>2. d \in History!Effects(q, version[current])
        BY <1>1, <2>1, <2>3, <4>1, EditHasEffect DEF Accepts, Loaded
      <4> QED BY <2>1, <2>3, <3>1, <4>1, <4>2 DEF Fresh, Proposes
    <3> QED BY <2>1, <3>1, <3>2
  <2> QED BY <1>9, <2>1, <2>2, <2>3 DEF LoadEdit
<1>10. CASE CountEntities(q)
  BY <1>0, <1>10 DEF CountEntities, Fresh, Proposes
<1>11. CASE LoadForge(q)
  <2>1. /\ q \in Forges /\ pc[q] = "load" /\ version' = version /\ current' = current
        /\ pc'[q] = "save" /\ draft'[q] = With(Loaded(q), q, Root) /\ overtaken' = overtaken
    BY <1>0, <1>11 DEF LoadForge, rowVars
  <2>2. ASSUME q \notin overtaken PROVE Fresh(q)' /\ Proposes(q)'
    <3>1. read[q] = current
      BY <1>7, <2>1, <2>2 DEF Fresh
    <3>2. With(version[current], q, Root) \in History!Effects(q, version[current])
      BY <2>1, EffectsAre
    <3>3. draft'[q] \in History!Effects(q, version[current])
      BY <2>1, <3>1, <3>2 DEF Loaded
    <3> QED BY <2>1, <3>3 DEF Fresh, Proposes
  <2> QED BY <2>1, <2>2
<1>12. CASE LoadCommand(q)
  <2>1. q \in Commands /\ pc[q] = "load" /\ version' = version /\ current' = current
        /\ overtaken' = overtaken
    BY <1>12 DEF LoadCommand, rowVars
  <2>2. CASE Finish(q, "unchanged")
    BY <1>0, <2>1, <2>2 DEF Fresh, Proposes
  <2>3. ASSUME NEW d \in Planned(q, Loaded(q)) \cup {Loaded(q)}, NEW step \in {"save", "tool"},
               draft' = [draft EXCEPT ![q] = d], Goto(q, step)
        PROVE  /\ Placed(q)' /\ (Counts(q)' <=> Counts(q))
               /\ q \notin Open /\ q \in Open' => ~Counts(q)
               /\ q \in Writers \ overtaken => Fresh(q)' /\ Proposes(q)'
    <3>1. pc'[q] = step /\ draft'[q] = d
      BY <1>0, <2>3
    <3>2. ASSUME q \notin overtaken PROVE Fresh(q)' /\ Proposes(q)'
      <4>1. Loaded(q) = version[current]
        BY <1>7, <2>1, <3>2 DEF Fresh, Loaded
      <4>2. Valid(d) => d \in History!Effects(q, version[current])
        BY <1>1, <2>1, <2>3, <4>1, CommandHasEffect
      <4> QED BY <2>1, <3>1, <4>2 DEF Fresh, Proposes
    <3> QED BY <2>1, <3>1, <3>2
  <2>4. CASE \E d \in Planned(q, Loaded(q)) : draft' = [draft EXCEPT ![q] = d] /\ Goto(q, "save")
    BY <2>1, <2>3, <2>4
  <2>5. CASE draft' = [draft EXCEPT ![q] = Loaded(q)] /\ Goto(q, "tool")
    BY <2>1, <2>3, <2>5
  <2> QED BY <1>12, <2>1, <2>2, <2>4, <2>5 DEF LoadCommand
<1>13. CASE PublishTool(q)
  BY <1>0, <1>7, <1>13 DEF PublishTool, rowVars, Fresh, Proposes
<1>14. CASE Save(q)
  <2>1. version' = version /\ current' = current /\ overtaken' = overtaken
    BY <1>14 DEF Save, rowVars
  <2>2. ASSUME NEW d, Checked(q, d), q \in Savers, pc[q] \in {"idle", "save"},
               q \notin overtaken => (Valid(d) => d \in History!Effects(q, version[current]))
        PROVE  /\ Placed(q)' /\ (Counts(q)' <=> Counts(q))
               /\ q \notin Open /\ q \in Open' => ~Counts(q)
               /\ q \in Writers \ overtaken => Fresh(q)' /\ Proposes(q)'
    <3>1. \/ pc'[q] = "label" /\ draft'[q] = d /\ Valid(d)
          \/ pc'[q] = "refused"
      BY <1>0, <2>2 DEF Checked, Accepts
    <3> QED BY <2>1, <2>2, <3>1 DEF Fresh, Proposes
  <2>3. CASE pc[q] = "save" /\ Checked(q, draft[q])
    <3>1. q \in Savers
      BY <1>0, <2>3
    <3>2. q \notin overtaken =>
            (Valid(draft[q]) => draft[q] \in History!Effects(q, version[current]))
      BY <1>7, <2>3, <3>1 DEF Proposes
    <3> QED BY <2>1, <2>2, <2>3, <3>1, <3>2
  <2>4. ASSUME q \in Puts, pc[q] = "idle", NEW body \in Bodies, Checked(q, body)
        PROVE  /\ Placed(q)' /\ (Counts(q)' <=> Counts(q))
               /\ q \notin Open /\ q \in Open' => ~Counts(q)
               /\ q \in Writers \ overtaken => Fresh(q)' /\ Proposes(q)'
    <3>1. body \in History!Effects(q, version[current])
      BY <2>4, EffectsAre
    <3> QED BY <2>2, <2>4, <3>1
  <2> QED BY <1>14, <2>1, <2>3, <2>4 DEF Save
<1>15. CASE TakeLabel(q)
  BY <1>0, <1>1, <1>7, <1>15 DEF TakeLabel, rowVars, Fresh, Proposes
<1>16. CASE LoadOnly(q)
  BY <1>0, <1>16 DEF LoadOnly, rowVars, Fresh, Proposes
<1>17. CASE RecordSnapshot(q) \/ MarkPublished(q)
  BY <1>0, <1>17 DEF RecordSnapshot, MarkPublished, rowVars, Fresh, Proposes
<1>18. CASE ListProduct(q) \/ PinVersion(q)
  BY <1>0, <1>18 DEF ListProduct, PinVersion, rowVars, Fresh, Proposes
<1>19. CASE Fail(q)
  BY <1>0, <1>19 DEF Fail, rowVars, Resting, Fresh, Proposes
<1> QED
  BY <1>6, <1>8, <1>9, <1>10, <1>11, <1>12, <1>13, <1>14, <1>15, <1>16, <1>17, <1>18, <1>19
     DEF Step

\* A step of q leaves what every other request holds, or overtakes it.
LEMMA OthersHold ==
  ASSUME NEW q \in Requests, HistoryInv, OthersKeep(q), Keeps(q) \/ Acts(q),
         NEW r \in Requests, r # q
  PROVE  Placed(r)' /\ Holds(r)'
<1>1. pc'[r] = pc[r] /\ read'[r] = read[r] /\ draft'[r] = draft[r] /\ Placed(r) /\ Holds(r)
      /\ Named(r)
  BY DEF OthersKeep, HistoryInv, TypeInv
<1>2. Placed(r)'
  BY <1>1 DEF Placed
<1>3. CASE Keeps(q)
  <2>1. /\ \E S : version \in Seq(S)
        /\ current \in DOMAIN version /\ current' = current /\ overtaken' = overtaken
    BY <1>3 DEF Keeps, HistoryInv, TypeInv, TypeOK, IInv, Shapes
  <2>2. \A v \in DOMAIN version : version'[v] = version[v]
    <3>1. CASE version' = version
      BY <3>1
    <3>2. CASE Creates(q)
      BY <2>1, <3>2, Appended DEF Creates
    <3> QED BY <1>3, <3>1, <3>2 DEF Keeps
  <2>3. ASSUME r \in Writers \ overtaken PROVE Fresh(r)' /\ Proposes(r)'
    <3>1. Fresh(r) /\ Proposes(r)
      BY <1>1, <2>3 DEF Holds
    <3>2. pc[r] = "switch" => version'[read[r]] = version[read[r]]
      BY <1>1, <2>2 DEF Named
    <3>3. version'[current'] = version[current]
      BY <2>1, <2>2
    <3> QED BY <1>1, <2>1, <3>1, <3>2, <3>3 DEF Fresh, Proposes
  <2> QED BY <1>2, <2>1, <2>3 DEF Holds
<1>4. CASE Acts(q)
  <2>1. r \in Writers \ overtaken' => r \notin Open
    BY <1>4 DEF Acts
  <2>2. ASSUME r \in Writers \ overtaken' PROVE Fresh(r)' /\ Proposes(r)'
    BY <1>1, <2>1, <2>2 DEF Open, Fresh, Proposes
  <2> QED BY <1>2, <2>2 DEF Holds
<1> QED BY <1>3, <1>4

LEMMA NextHistory ==
  HistoryInv /\ [Next]_vars =>
    /\ HistoryInv'
    /\ \/ UNCHANGED <<version, current, pc, overtaken>>
       \/ \E q \in Requests :
            OthersKeep(q) /\ (Keeps(q) \/ (Acts(q) /\ (Rewrites(q) \/ Moves(q))))
<1> SUFFICES ASSUME HistoryInv, [Next]_vars
             PROVE  /\ HistoryInv'
                    /\ \/ UNCHANGED <<version, current, pc, overtaken>>
                       \/ \E q \in Requests :
                            OthersKeep(q) /\ (Keeps(q) \/ (Acts(q) /\ (Rewrites(q) \/ Moves(q))))
  OBVIOUS
<1>1. TypeInv'
  BY NextTypes DEF HistoryInv
<1>2. CASE UNCHANGED vars \/ RemoveWorld
  <2>1. UNCHANGED <<version, current, pc, read, draft, overtaken>>
    BY <1>2 DEF vars, RemoveWorld, rowVars
  <2>2. \A q \in Requests : Placed(q)' /\ Holds(q)'
    BY <2>1 DEF HistoryInv, Placed, Holds, Fresh, Proposes
  <2> QED BY <1>1, <2>1, <2>2 DEF HistoryInv
<1>3. ASSUME NEW q \in Requests, Step(q) \/ Fail(q)
      PROVE  /\ HistoryInv' /\ OthersKeep(q)
             /\ Keeps(q) \/ (Acts(q) /\ (Rewrites(q) \/ Moves(q)))
  <2>1. Placed(q)' /\ Holds(q)' /\ (Keeps(q) \/ (Acts(q) /\ (Rewrites(q) \/ Moves(q))))
    BY <1>3, StepHistory
  <2>2. OthersKeep(q)
    BY <1>3, StepStores DEF HistoryInv, TypeInv, IInv
  <2>3. \A r \in Requests : r # q => Placed(r)' /\ Holds(r)'
    BY <2>1, <2>2, OthersHold
  <2> QED BY <1>1, <2>1, <2>2, <2>3 DEF HistoryInv
<1> QED BY <1>2, <1>3 DEF Next

LEMMA InitHistory == Init => HistoryInv /\ History!Init
<1> SUFFICES ASSUME Init PROVE HistoryInv /\ History!Init
  OBVIOUS
<1>1. /\ version = <<Empty>> /\ current = 1 /\ overtaken = {}
      /\ \A q \in Requests : pc[q] = "idle"
  BY DEF Init
<1>2. version[current] = Empty
  BY <1>1
<1>3. \A q \in Requests : Placed(q) /\ Holds(q)
  BY <1>1 DEF Placed, Holds, Fresh, Proposes
<1>4. HistoryInv
  BY <1>3, InitTypes DEF HistoryInv
<1>5. History!Empty = Empty
  BY DEF History!Empty, Empty, History!Document, Document, History!Root, Root
<1>6. \A q \in Edits \cup Savers : pc[q] = "idle"
  BY <1>1 DEF Requests, Writers
<1>7. {q \in Edits : pc[q] \in {"count", "saved", "done"}}
        \cup {q \in Savers : pc[q] = "done"} = {}
  BY <1>6
<1>8. Open = {}
  BY <1>6 DEF Open, Writers
<1> QED BY <1>1, <1>2, <1>4, <1>5, <1>7, <1>8 DEF History!Init

\* A step of a request that no other has overtaken changes and drops no version row but the
\* current one, and does not move the world back to one, wherever requests died before it and
\* whatever else runs (the versioning model of worlds/service.ts:6-10).
THEOREM HistoryStaysFrozen == Spec => VersionsFrozen
<1> DEFINE Frozen == \/ /\ \A v \in DOMAIN version :
                             v # current => v \in DOMAIN version' /\ version'[v] = version[v]
                        /\ current' >= current
                     \/ \E q \in overtaken : pc[q] \in {"write", "switch"} /\ pc'[q] # pc[q]
<1>1. HistoryInv /\ [Next]_vars => [Frozen]_<<version, current>>
  <2> SUFFICES ASSUME HistoryInv, [Next]_vars, ~(version' = version /\ current' = current)
               PROVE  Frozen
    OBVIOUS
  <2>1. PICK q \in Requests : Keeps(q) \/ (Acts(q) /\ (Rewrites(q) \/ Moves(q)))
    BY NextHistory
  <2>2. /\ \E S : version \in Seq(S)
        /\ Len(version) \in Nat /\ DOMAIN version = 1..Len(version)
        /\ current \in DOMAIN version /\ current \in Nat
        /\ read[q] \in Nat
    <3>1. \E S : version \in Seq(S)
      BY DEF HistoryInv, TypeInv, IInv, Shapes
    <3>2. Len(version) \in Nat /\ DOMAIN version = 1..Len(version)
      BY <3>1, LenProperties
    <3>3. current \in DOMAIN version /\ read \in [Requests -> 0..(Len(version) + 1)]
      BY DEF HistoryInv, TypeInv, TypeOK
    <3> QED BY <3>1, <3>2, <3>3
  <2>3. CASE Keeps(q)
    <3>1. Creates(q) /\ current' = current
      BY <2>3 DEF Keeps
    <3>2. /\ DOMAIN version' = 1..(Len(version) + 1)
          /\ \A i \in 1..Len(version) : version'[i] = version[i]
      BY <2>2, <3>1, Appended DEF Creates
    <3> QED BY <2>2, <3>1, <3>2
  <2>4. CASE Acts(q) /\ q \in overtaken /\ (Rewrites(q) \/ Moves(q))
    BY <2>4 DEF Rewrites, Moves
  <2>5. CASE Acts(q) /\ q \notin overtaken /\ (Rewrites(q) \/ Moves(q))
    <3>1. Fresh(q)
      BY <2>5 DEF HistoryInv, Holds, Acts, Open
    <3>2. CASE Rewrites(q)
      <4>1. /\ version' = [version EXCEPT ![current] = draft[q]] /\ current' = current
        BY <3>1, <3>2 DEF Rewrites, Writes, Fresh
      <4> QED BY <2>2, <4>1
    <3>3. CASE Moves(q)
      <4>1. version' = version /\ current' = read[q] /\ current < read[q]
        BY <3>1, <3>3 DEF Moves, Fresh
      <4> QED BY <2>2, <4>1
    <3> QED BY <2>5, <3>2, <3>3
  <2> QED BY <2>1, <2>3, <2>4, <2>5
<1>2. HistoryInv /\ [Next]_vars => HistoryInv'
  BY NextHistory
<1> QED BY <1>1, <1>2, InitHistory, PTL DEF Spec, VersionsFrozen

\* What the requests that have had their effect, and those that may yet have it, become when
\* one of them steps.
LEMMA SetsMove ==
  ASSUME NEW q \in Requests, OthersKeep(q)
  PROVE  /\ (Counts(q)' <=> Counts(q)) => Applied' = Applied
         /\ ~Counts(q) /\ Counts(q)' => q \notin Applied /\ Applied' = Applied \cup {q}
         /\ ~Counts(q) => q \notin Applied
         /\ (q \in Open' <=> q \in Open) => Open' = Open
         /\ q \in Open /\ q \notin Open' => Open' = Open \ {q}
         /\ q \notin Open /\ q \in Open' => Open' = Open \cup {q}
<1>1. \A r \in Edits \cup Savers : r \in Requests
  BY DEF Requests, Writers
<1>2. \A r : r \in Applied <=> r \in Edits \cup Savers /\ Counts(r)
  BY DEF Applied, Counts
<1>3. \A r : r \in Applied' <=> r \in Edits \cup Savers /\ Counts(r)'
  BY DEF Applied, Counts
<1>4. \A r \in Edits \cup Savers : r # q => (Counts(r)' <=> Counts(r))
  BY <1>1 DEF OthersKeep, Counts
<1>5. Counts(q)' => q \in Edits \cup Savers
  BY DEF Counts
<1>6. \A r : r # q => (r \in Open' <=> r \in Open)
  BY DEF OthersKeep, Open, Requests
<1>7. /\ (q \in Open' <=> q \in Open) => Open' = Open
      /\ q \in Open /\ q \notin Open' => Open' = Open \ {q}
      /\ q \notin Open /\ q \in Open' => Open' = Open \cup {q}
  BY <1>6
<1>8. /\ (Counts(q)' <=> Counts(q)) => Applied' = Applied
      /\ ~Counts(q) /\ Counts(q)' => q \notin Applied /\ Applied' = Applied \cup {q}
      /\ ~Counts(q) => q \notin Applied
  BY <1>2, <1>3, <1>4, <1>5
<1> QED BY <1>7, <1>8

\* The requests of a world, however they interleave and wherever they fail, implement one
\* document that every request which succeeds edits once and at once, on all that was saved
\* before it unless another overtook it (patchCurrentDocument, putDocument, forgeWorld and the
\* AI's tools).
THEOREM EditsImplementHistory == Spec => ImplementsHistory
<1> DEFINE counted == {q \in Edits : pc[q] \in {"count", "saved", "done"}}
                      \cup {q \in Savers : pc[q] = "done"}
<1>1. HistoryInv /\ [Next]_vars => HistoryInv'
  BY NextHistory
<1>2. HistoryInv /\ [Next]_vars
        => [History!Next]_<<version[current], counted, Open, overtaken>>
  <2> SUFFICES ASSUME HistoryInv, [Next]_vars
               PROVE  \/ History!Next
                      \/ UNCHANGED <<version[current], Applied, Open, overtaken>>
    BY DEF Applied
  <2>1. CASE UNCHANGED <<version, current, pc, overtaken>>
    BY <2>1 DEF Applied, Open
  <2>2. ASSUME NEW q \in Requests, OthersKeep(q), Keeps(q)
        PROVE  \/ History!Next
               \/ UNCHANGED <<version[current], Applied, Open, overtaken>>
    <3>1. version'[current'] = version[current]
      <4>1. /\ \E S : version \in Seq(S)
            /\ current \in DOMAIN version /\ current' = current
        BY <2>2 DEF Keeps, HistoryInv, TypeInv, TypeOK, IInv, Shapes
      <4>2. CASE version' = version
        BY <4>1, <4>2
      <4>3. CASE Creates(q)
        BY <4>1, <4>3, Appended DEF Creates
      <4> QED BY <2>2, <4>2, <4>3 DEF Keeps
    <3>2. Applied' = Applied /\ overtaken' = overtaken
      BY <2>2, SetsMove DEF Keeps
    <3>3. CASE q \in Open' <=> q \in Open
      BY <2>2, <3>1, <3>2, <3>3, SetsMove
    <3>4. CASE q \in Open /\ q \notin Open'
      <4>1. Open' = Open \ {q}
        BY <2>2, <3>4, SetsMove
      <4>2. q \in Edits \cup Puts \cup Forges \cup Commands
        BY <3>4 DEF Open, Writers, Savers
      <4>3. History!Leave(q)
        BY <3>1, <3>2, <3>4, <4>1 DEF History!Leave, Applied
      <4> QED BY <4>2, <4>3 DEF History!Next
    <3>5. CASE q \notin Open /\ q \in Open'
      <4>1. Open' = Open \cup {q} /\ q \notin Applied
        BY <2>2, <3>5, SetsMove DEF Keeps
      <4>2. q \in Edits \cup Puts \cup Forges \cup Commands
        BY <3>5 DEF Open, Writers, Savers
      <4>3. History!Begin(q)
        BY <3>1, <3>2, <3>5, <4>1 DEF History!Begin, Applied
      <4> QED BY <4>2, <4>3 DEF History!Next
    <3> QED BY <3>3, <3>4, <3>5
  <2>3. ASSUME NEW q \in Requests, OthersKeep(q), Acts(q)
        PROVE  History!Next
    <3>1. /\ q \in Open /\ Open' = Open \ {q}
          /\ q \notin Applied /\ Applied' = Applied \cup {q}
          /\ overtaken' = overtaken \cup Open'
          /\ q \notin overtaken => version'[current'] \in History!Effects(q, version[current])
      BY <2>3, SetsMove DEF Acts
    <3>2. Valid(version'[current'])
      BY NextHistory DEF HistoryInv, TypeInv, TypeOK, IInv, StoredValid
    <3>3. History!Valid(version'[current'])
      BY <3>2, SameTrees
    <3>4. q \in Edits \cup Puts \cup Forges \cup Commands
      BY <3>1 DEF Open, Writers, Savers
    <3>5. History!Apply(q)
      BY <3>1, <3>3 DEF History!Apply, Applied
    <3> QED BY <3>4, <3>5 DEF History!Next
  <2> QED BY <2>1, <2>2, <2>3, NextHistory
<1> QED BY <1>1, <1>2, InitHistory, PTL DEF Spec, ImplementsHistory, History!Spec
=============================================================================
