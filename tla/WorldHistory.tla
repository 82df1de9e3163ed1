---------------------------- MODULE WorldHistory ----------------------------
(***************************************************************************)
(* What the editing routes of a world promise together: one document,      *)
(* always valid, on which every request that succeeds acts once and at     *)
(* once, on all that was saved before it, unless another request changes   *)
(* the document while it runs: then the last one to save wins, or both     *)
(* lose, and nothing is promised but a valid document.                     *)
(***************************************************************************)
EXTENDS WorldTree

CONSTANTS Edits, Puts, Forges, Commands, Bodies

VARIABLES
  document, \* the world's document
  applied,  \* the requests that have had their effect
  open,     \* those in progress that have not
  overtaken \* those in progress when another had its effect

\* The documents a request may leave in the place of doc.
Effects(q, doc) ==
  LET added(p)    == With(doc, q, p)
      parents     == Entities(doc) \cup {Root}
      existing    == Entities(doc)
  IN CASE q \in Edits    -> {added(p) : p \in parents}
                            \cup {With(doc, e, p) : e \in existing, p \in parents}
                            \cup {Without(doc, e) : e \in existing}
       [] q \in Puts     -> Bodies
       [] q \in Forges   -> {added(Root)}
       [] q \in Commands -> LET after(d) == {d} \cup {Without(d, e) : e \in Entities(d)}
                                          \cup {[d EXCEPT !.targets = @ \cup {e}] :
                                                   e \in Entities(d)}
                            IN UNION {after(d) : d \in {doc} \cup {added(p) : p \in parents}}

Init ==
  /\ document = Empty
  /\ applied = {} /\ open = {} /\ overtaken = {}

Begin(q) ==
  /\ q \notin applied \cup open
  /\ open' = open \cup {q}
  /\ UNCHANGED <<document, applied, overtaken>>

Apply(q) ==
  /\ q \in open /\ q \notin applied
  /\ applied' = applied \cup {q}
  /\ open' = open \ {q}
  /\ overtaken' = overtaken \cup open'
  /\ Valid(document')
  /\ q \notin overtaken => document' \in Effects(q, document)

\* Refused, or failed.
Leave(q) ==
  /\ q \in open
  /\ open' = open \ {q}
  /\ UNCHANGED <<document, applied, overtaken>>

Next == \E q \in Edits \cup Puts \cup Forges \cup Commands : Begin(q) \/ Apply(q) \/ Leave(q)

Spec == Init /\ [][Next]_<<document, applied, open, overtaken>>
=============================================================================
