----------------------------- MODULE Listings -----------------------------
(***************************************************************************)
(* A product of the marketplace: POST and PATCH of it by its owner         *)
(* (services/api/src/modules/products/index.ts), what a moderator's        *)
(* rejection does to it (moderation/index.ts), and its entry in the search *)
(* index.  Requests may overlap; a step is the code between two awaits.    *)
(***************************************************************************)
EXTENDS Moderation

CONSTANTS
  Patches,    \* requests to PATCH /products/:id
  Targets,    \* bound: the statuses they ask for
  MaxRequests \* bound: patches and reports that are made

Unasked  == "unasked"
Statuses == {"DRAFT", "PENDING_REVIEW", "PUBLISHED", "DELISTED"}
Draft    == [status |-> "DRAFT", text |-> {}]

ASSUME ListingAssumption == Targets \subseteq Statuses /\ MaxRequests \in Nat

VARIABLES
  product, \* the Product row: status, and the edits its text is made of
  indexed, \* has the search index an entry for it?
  patch    \* where each request is, what it asks for, and the row as it last saw it

listingVars == <<product, indexed, patch>>
vars        == <<moderationVars, faults, listingVars>>

Requests ==
  Cardinality({p \in Patches : patch[p].step # "new"} \cup {r \in Reports : report[r] # "new"})

-----------------------------------------------------------------------------
\* POST /products, up to its scan: a draft of a text without findings.
ListingInit ==
  /\ product = Draft
  /\ indexed = FALSE
  /\ patch = [p \in Patches |-> [step |-> "new", status |-> Unasked, edits |-> {}, row |-> Draft]]

\* PATCH /products/:id reads the product; an edit is a new value for a field of its own.
ReadProduct(p) ==
  /\ Requests < MaxRequests
  /\ patch[p].step = "new"
  /\ \E s \in Targets \cup {Unasked}, e \in {{}} \cup {{x} : x \in Edits} :
       /\ s # Unasked \/ e # {}
       /\ patch' = [patch EXCEPT ![p] = [step |-> "write", status |-> s, edits |-> e, row |-> product]]
  /\ UNCHANGED <<moderationVars, faults, product, indexed>>

Asked(p, old) ==
  [status |-> IF patch[p].status = Unasked THEN old.status ELSE patch[p].status,
   text   |-> old.text \cup patch[p].edits]

\* Mutant of Returned: the row as it was read, with the request's own changes.
ReturnedStale(p) == Asked(p, patch[p].row)

\* The update gives back the row with what others have written since it was read.
Returned(p) == Asked(p, product)

\* A text that is new, or goes live, is scanned; live is judged by the row that was read.
NeedsScan(p) ==
  \/ patch[p].edits # {}
  \/ patch[p].status = "PUBLISHED" /\ patch[p].row.status # "PUBLISHED"

WriteProduct(p) ==
  /\ patch[p].step = "write"
  /\ product' = Asked(p, product)
  /\ patch' = [patch EXCEPT ![p].step = IF NeedsScan(p) THEN "scan" ELSE "index",
                            ![p].row  = Returned(p)]
  /\ UNCHANGED <<moderationVars, faults, indexed>>

ScanProduct(p) ==
  /\ patch[p].step = "scan"
  /\ Enqueue(Scan(patch[p].row.text))
  /\ patch' = [patch EXCEPT ![p].step = "index"]
  /\ UNCHANGED <<items, resolve, report, verdicts, cleared, faults, product, indexed>>

\* The index follows the row the update gave back, which may be out of date by now.
IndexProduct(p) ==
  /\ patch[p].step = "index"
  /\ indexed' = (patch[p].row.status = "PUBLISHED" \/ (indexed /\ patch[p].status # "DELISTED"))
  /\ patch' = [patch EXCEPT ![p].step = "done"]
  /\ UNCHANGED <<moderationVars, faults, product>>

PatchDies(p) ==
  /\ patch[p].step \in {"write", "scan", "index"}
  /\ Fault
  /\ patch' = [patch EXCEPT ![p].step = "done"]
  /\ UNCHANGED <<moderationVars, product, indexed>>

Delisted(old) == [old EXCEPT !.status = "DELISTED"]

\* A rejection takes a product off the market, then out of the index.
DelistProduct(m) ==
  /\ resolve[m].step = "effect"
  /\ product' = Delisted(product)
  /\ resolve' = [resolve EXCEPT ![m].step = "unindex"]
  /\ UNCHANGED <<scans, items, report, verdicts, cleared, faults, indexed, patch>>

UnindexProduct(m) ==
  /\ resolve[m].step = "unindex"
  /\ indexed' = FALSE
  /\ resolve' = [resolve EXCEPT ![m].step = "announce"]
  /\ UNCHANGED <<scans, items, report, verdicts, cleared, faults, product, patch>>

ListingProgress ==
  \/ \E p \in Patches : WriteProduct(p) \/ ScanProduct(p) \/ IndexProduct(p)
  \/ \E m \in Moderators : DelistProduct(m) \/ UnindexProduct(m)

Init == ModerationInit /\ ListingInit

Progress == (ModerationProgress /\ UNCHANGED listingVars) \/ ListingProgress

Next ==
  \/ Progress
  \/ ModerationEnv /\ UNCHANGED listingVars /\ Requests' <= MaxRequests
  \/ \E p \in Patches : ReadProduct(p) \/ PatchDies(p)

Spec == Init /\ [][Next]_vars

\* Requests that have begun, and jobs that are queued, go on until they end or die.
FairSpec == Spec /\ WF_vars(Progress)
-----------------------------------------------------------------------------
TypeOK ==
  /\ ModerationTypeOK
  /\ product \in [status : Statuses, text : SUBSET Edits]
  /\ indexed \in BOOLEAN
  /\ patch \in [Patches -> [step : {"new", "write", "scan", "index", "done"},
                            status : Statuses \cup {Unasked}, edits : SUBSET Edits,
                            row : [status : Statuses, text : SUBSET Edits]]]

\* When the owner's requests are over and none has failed, the text that stands has been handed
\* to moderation, however the requests overlapped: the last to write a field scans them all.
TextIsScanned ==
  (\A p \in Patches : patch[p].step \in {"new", "done"}) /\ product.text # {} =>
    faults > 0 \/ \E k \in 1 .. Len(scans) : scans[k].text = product.text
=============================================================================
