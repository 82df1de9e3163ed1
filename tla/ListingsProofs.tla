-------------------------- MODULE ListingsProofs --------------------------
(* Proofs about Moderation and Listings: types, that the pipeline approves *)
(* a flagged text only after a moderator has, and who still has to.        *)
EXTENDS Listings, TLAPS

ScanRecords(n) ==
  [text : SUBSET Edits, item : 0 .. n, resolution : {"none", "APPROVED", "REJECTED"},
   step : {"queued", "flag", "publish", "waiting", "done", "failed"}]
ResolveRecords(n) ==
  [step : {"new", "decide", "effect", "unindex", "announce", "resume", "done"},
   item : 0 .. n, action : Actions]
PatchRecords ==
  [step : {"new", "write", "scan", "index", "done"}, status : Statuses \cup {Unasked},
   edits : SUBSET Edits, row : [status : Statuses, text : SUBSET Edits]]

\* A case that is known is in the table, and one whose verdict is announced has been decided.
Decided ==
  \A m \in Moderators :
    /\ resolve[m].step = "decide" => resolve[m].item \in 1 .. Len(items)
    /\ resolve[m].step \in {"effect", "unindex"} => resolve[m].action = "REJECTED"
    /\ resolve[m].step = "resume" => Resumes(resolve[m].action)
    /\ resolve[m].step \in {"announce", "resume"} /\ resolve[m].action = "APPROVED" =>
         <<resolve[m].item, "APPROVED">> \in verdicts

\* What a job may be about to publish, given the verdicts so far.
Sound(scan) ==
  /\ scan.resolution = "APPROVED" => <<scan.item, "APPROVED">> \in verdicts
  /\ scan.step \in {"publish", "done"} =>
       /\ scan.resolution # "REJECTED"
       /\ scan.resolution = "none" => scan.text \cap Flagged = {}

JobsSound ==
  /\ \A k \in 1 .. Len(scans) : Sound(scans[k])
  /\ \A k \in cleared : scans[k].step = "done"

Inv == TypeOK /\ Decided /\ JobsSound

\* The types, with the number of cases made a parameter.
CaseTypes(n) ==
  /\ scans \in Seq(ScanRecords(n))
  /\ resolve \in [Moderators -> ResolveRecords(n)]
  /\ verdicts \subseteq (1 .. n) \X Actions
OtherTypes ==
  /\ items \in Seq([status : {"PENDING"} \cup Actions])
  /\ report \in [Reports -> {"new", "scan", "done"}]
  /\ cleared \subseteq 1 .. Len(scans)
  /\ faults \in 0 .. MaxFaults
ProductTypes ==
  /\ product \in [status : Statuses, text : SUBSET Edits]
  /\ indexed \in BOOLEAN
  /\ patch \in [Patches -> PatchRecords]

LEMMA Types == TypeOK <=> CaseTypes(Len(items)) /\ OtherTypes /\ ProductTypes
  BY Zenon DEF TypeOK, ModerationTypeOK, CaseTypes, OtherTypes, ProductTypes, ScanRecords,
         ResolveRecords, PatchRecords

LEMMA CasesGrow ==
  ASSUME NEW n \in Nat
  PROVE  /\ ScanRecords(n) \subseteq ScanRecords(n + 1)
         /\ ResolveRecords(n) \subseteq ResolveRecords(n + 1)
         /\ (1 .. n) \X Actions \subseteq (1 .. n + 1) \X Actions
  BY DEF ScanRecords, ResolveRecords

\* The jobs of a type, and one that is replaced or added.
LEMMA ElementIs ==
  ASSUME NEW R, NEW jobs \in Seq(R) PROVE \A i \in 1 .. Len(jobs) : jobs[i] \in R
  OBVIOUS

LEMMA JobReplaced ==
  ASSUME NEW R, NEW S, S \subseteq R, NEW jobs \in Seq(S), NEW k \in 1 .. Len(jobs), NEW x \in R
  PROVE  LET after == [jobs EXCEPT ![k] = x]
         IN /\ after \in Seq(R) /\ Len(after) = Len(jobs)
            /\ \A i \in 1 .. Len(jobs) : after[i] = IF i = k THEN x ELSE jobs[i]
  OBVIOUS

LEMMA JobAdded ==
  ASSUME NEW R, NEW jobs \in Seq(R), NEW x \in R
  PROVE  LET after == Append(jobs, x)
         IN /\ after \in Seq(R) /\ Len(after) = Len(jobs) + 1
            /\ \A i \in 1 .. Len(jobs) : after[i] = jobs[i]
            /\ after[Len(jobs) + 1] = x
  OBVIOUS

\* The steps of a job.
Became(k, x) == scans' = [scans EXCEPT ![k] = x]
Stepped(s, step)   == [s EXCEPT !.step = step]
Marked(c, a)       == [c EXCEPT !.status = a]
Linked(s, step, i) == [s EXCEPT !.step = step, !.item = i]

LEMMA JobSteps ==
  ASSUME NEW n \in Nat, NEW s \in ScanRecords(n),
         NEW step \in {"queued", "flag", "publish", "waiting", "done", "failed"}
  PROVE  /\ Stepped(s, step) \in ScanRecords(n)
         /\ Stepped(s, step).step = step
         /\ Stepped(s, step).text = s.text
         /\ Stepped(s, step).item = s.item
         /\ Stepped(s, step).resolution = s.resolution
  BY DEF ScanRecords, Stepped

\* A job that is given a case, or loses it.
LEMMA JobLinks ==
  ASSUME NEW n \in Nat, NEW s \in ScanRecords(n), NEW step \in {"queued", "flag"}, NEW i \in 0 .. n
  PROVE  /\ Linked(s, step, i) \in ScanRecords(n)
         /\ Linked(s, step, i).step = step
         /\ Linked(s, step, i).item = i
         /\ Linked(s, step, i).resolution = s.resolution
  BY DEF ScanRecords, Linked

Cases == items \in Seq([status : {"PENDING"} \cup Actions])

\* A step of one job, which may open a case, that leaves the job sound.
LEMMA JobStepKeeps ==
  ASSUME Inv, NEW k \in 1 .. Len(scans), NEW x \in ScanRecords(Len(items')), Became(k, x),
         Cases', Len(items') = Len(items) \/ Len(items') = Len(items) + 1,
         Sound(x), scans[k].step # "done",
         cleared' = cleared \/ (cleared' = cleared \cup {k} /\ x.step = "done"),
         faults' \in 0 .. MaxFaults,
         UNCHANGED <<resolve, report, verdicts, listingVars>>
  PROVE  Inv'
<1> DEFINE n == Len(items)
           N == Len(items')
<1>0. CaseTypes(n) /\ OtherTypes /\ ProductTypes /\ Decided /\ JobsSound /\ n \in Nat /\ N \in Nat
  BY Types DEF Inv, OtherTypes, Cases
<1>1. /\ ScanRecords(n) \subseteq ScanRecords(N)
      /\ ResolveRecords(n) \subseteq ResolveRecords(N)
      /\ (1 .. n) \X Actions \subseteq (1 .. N) \X Actions
  BY <1>0, CasesGrow
<1> HIDE DEF n, N
<1>2. scans \in Seq(ScanRecords(n)) /\ x \in ScanRecords(N)
  BY <1>0 DEF CaseTypes, N
<1>3. /\ scans' \in Seq(ScanRecords(N)) /\ Len(scans') = Len(scans)
      /\ \A i \in 1 .. Len(scans) : scans'[i] = IF i = k THEN x ELSE scans[i]
  BY <1>1, <1>2, JobReplaced DEF Became
<1>4. (CaseTypes(Len(items)))'
  BY <1>0, <1>1, <1>3 DEF CaseTypes, N
<1>5. k \notin cleared /\ cleared' \subseteq 1 .. Len(scans')
  BY <1>0, <1>3 DEF JobsSound, OtherTypes
<1>6. OtherTypes' /\ ProductTypes'
  BY <1>0, <1>5 DEF OtherTypes, ProductTypes, Cases, listingVars
<1>7. TypeOK'
  BY <1>4, <1>6, Types, PTL
<1>8. Decided'
  <2>1. \A m \in Moderators : resolve[m].item \in 1 .. n => resolve[m].item \in 1 .. N
    BY <1>0 DEF n, N
  <2> QED BY <1>0, <2>1 DEF Decided, n, N
<1>9. JobsSound'
  <2>1. ASSUME NEW i \in 1 .. Len(scans') PROVE Sound(scans[i])'
    <3>1. CASE i = k
      <4>1. scans'[i] = x
        BY <1>3, <3>1
      <4> QED BY <4>1 DEF Sound
    <3>2. CASE i # k
      <4>1. scans'[i] = scans[i] /\ Sound(scans[i])
        BY <1>0, <1>3, <3>2 DEF JobsSound
      <4> QED BY <4>1 DEF Sound
    <3> QED BY <3>1, <3>2
  <2>2. \A i \in cleared' : scans'[i].step = "done"
    BY <1>0, <1>3, <1>5 DEF JobsSound, OtherTypes
  <2> QED BY <2>1, <2>2 DEF JobsSound
<1> QED BY <1>7, <1>8, <1>9 DEF Inv

LEMMA WorkerKeeps ==
  ASSUME Inv, NEW k \in 1 .. Len(scans), UNCHANGED listingVars,
         \/ ScanText(k) \/ ScanFails(k) \/ ResumeScan(k) \/ AnnounceFlag(k)
         \/ PublishApproval(k) \/ RunAgain(k)
  PROVE  Inv'
<1>n. PICK n \in Nat : n = Len(items)
  BY Types DEF Inv, OtherTypes
<1>s. PICK s : s = scans[k]
  OBVIOUS
<1>0. /\ CaseTypes(n) /\ OtherTypes /\ Decided /\ JobsSound /\ n \in Nat /\ Cases
      /\ s \in ScanRecords(n) /\ Sound(s)
  BY <1>n, <1>s, Types DEF Inv, OtherTypes, CaseTypes, Cases, JobsSound
<1>f. faults \in Nat /\ MaxFaults \in Nat /\ faults \in 0 .. MaxFaults
  BY <1>0, ModerationAssumption DEF OtherTypes
<1>m. ASSUME NEW step \in {"queued", "flag", "publish", "waiting", "done", "failed"}
      PROVE  /\ Stepped(s, step) \in ScanRecords(n)
             /\ Stepped(s, step).step = step
             /\ Stepped(s, step).text = s.text
             /\ Stepped(s, step).item = s.item
             /\ Stepped(s, step).resolution = s.resolution
  BY <1>0, <1>m, JobSteps
<1>j. ASSUME NEW step \in {"queued", "flag", "publish", "waiting", "done", "failed"},
             s.step # "done", UNCHANGED <<items, resolve, report, verdicts>>,
             faults' \in 0 .. MaxFaults, scans' = [scans EXCEPT ![k] = Stepped(s, step)],
             cleared' = cleared \/ (cleared' = cleared \cup {k} /\ step = "done"),
             Sound(Stepped(s, step))
      PROVE  Inv'
  <2> DEFINE x == Stepped(s, step)
  <2>1. x \in ScanRecords(n) /\ x.step = step
    BY <1>m
  <2> HIDE DEF x
  <2>2. x \in ScanRecords(Len(items')) /\ Cases' /\ Len(items') = Len(items)
    BY <1>0, <1>n, <1>j, <2>1 DEF Cases
  <2>3. Became(k, x) /\ Sound(x) /\ scans[k].step # "done"
    BY <1>s, <1>j DEF Became, x
  <2> QED BY <1>j, <2>1, <2>2, <2>3, JobStepKeeps
<1>1. CASE ScanFails(k)
  <2>1. /\ s.step # "done" /\ UNCHANGED <<items, resolve, report, verdicts, cleared>>
        /\ scans' = [scans EXCEPT ![k] = Stepped(s, "failed")]
        /\ faults' \in 0 .. MaxFaults
    BY <1>s, <1>1, <1>f DEF ScanFails, Fault, Stepped
  <2>2. Sound(Stepped(s, "failed"))
    BY <1>0, <1>m DEF Sound
  <2> QED BY <1>j, <2>1, <2>2
<1>2. CASE ResumeScan(k)
  <2> DEFINE step == ResumeStep(s.resolution)
  <2>1. /\ s.step = "queued" /\ s.resolution # "none"
        /\ UNCHANGED <<items, resolve, report, verdicts, cleared, faults>>
        /\ scans' = [scans EXCEPT ![k] = Stepped(s, step)]
    BY <1>s, <1>2 DEF ResumeScan, Stepped
  <2>2. step \in {"failed", "publish"} /\ (step = "publish" => s.resolution # "REJECTED")
    BY DEF ResumeStep
  <2> HIDE DEF step
  <2>3. Sound(Stepped(s, step))
    BY <1>0, <1>m, <2>1, <2>2 DEF Sound
  <2> QED BY <1>f, <1>j, <2>1, <2>2, <2>3
<1>3. CASE AnnounceFlag(k)
  <2>1. /\ s.step = "flag" /\ UNCHANGED <<items, resolve, report, verdicts, cleared, faults>>
        /\ scans' = [scans EXCEPT ![k] = Stepped(s, "waiting")]
    BY <1>s, <1>3 DEF AnnounceFlag, Stepped
  <2>2. Sound(Stepped(s, "waiting"))
    BY <1>0, <1>m DEF Sound
  <2> QED BY <1>f, <1>j, <2>1, <2>2
<1>4. CASE PublishApproval(k)
  <2>1. /\ s.step = "publish" /\ UNCHANGED <<items, resolve, report, verdicts, faults>>
        /\ scans' = [scans EXCEPT ![k] = Stepped(s, "done")]
        /\ cleared' = cleared \cup {k}
    BY <1>s, <1>4 DEF PublishApproval, Stepped
  <2>2. Sound(Stepped(s, "done"))
    BY <1>0, <1>m, <2>1 DEF Sound
  <2> QED BY <1>f, <1>j, <2>1, <2>2
<1>5. CASE RunAgain(k)
  <2>i. PICK i : i = IF s.resolution = "none" THEN NoItem ELSE s.item
    OBVIOUS
  <2> DEFINE x == Linked(s, "queued", i)
  <2>1. /\ s.step \in {"flag", "publish"} /\ UNCHANGED <<items, resolve, report, verdicts, cleared>>
        /\ scans' = [scans EXCEPT ![k] = x] /\ faults' \in 0 .. MaxFaults
    <3>1. /\ scans' = [scans EXCEPT ![k].step = "queued",
                                     ![k].item = IF scans[k].resolution = "none" THEN NoItem ELSE @]
          /\ UNCHANGED <<items, resolve, report, verdicts, cleared>> /\ Fault
          /\ scans[k].step \in {"flag", "publish"}
      BY <1>5 DEF RunAgain
    <3>2. scans' = [scans EXCEPT ![k] = x]
      BY <1>s, <1>0, <2>i, <3>1 DEF CaseTypes, Linked
    <3>3. faults' \in 0 .. MaxFaults
      BY <1>f, <3>1 DEF Fault
    <3> HIDE DEF x
    <3> QED BY <1>s, <3>1, <3>2, <3>3, Zenon
  <2>2. i \in 0 .. n
    BY <1>0, <2>i DEF ScanRecords, NoItem
  <2>3. /\ x \in ScanRecords(n) /\ x.step = "queued" /\ x.item = i
        /\ x.resolution = s.resolution
    BY <1>0, <2>2, JobLinks
  <2>4. x.resolution = "APPROVED" => x.item = s.item
    BY <2>i, <2>3
  <2> HIDE DEF x
  <2>5. Sound(x)
    BY <1>0, <2>3, <2>4 DEF Sound
  <2>6. x \in ScanRecords(Len(items')) /\ Cases' /\ Len(items') = Len(items)
    BY <1>0, <1>n, <2>1, <2>3 DEF Cases
  <2>7. Became(k, x) /\ scans[k].step # "done"
    BY <1>s, <2>1 DEF Became
  <2> QED BY <2>1, <2>5, <2>6, <2>7, JobStepKeeps
<1>6. CASE ScanText(k)
  <2>1. /\ s.step = "queued" /\ s.resolution = "none"
        /\ UNCHANGED <<resolve, report, verdicts, cleared, faults>>
    BY <1>s, <1>6 DEF ScanText, FlagText, ClearText
  <2>2. CASE FlagText(k)
    <3> DEFINE x == Linked(s, "flag", n + 1)
    <3>1. items' = Append(items, Item("PENDING")) /\ scans' = [scans EXCEPT ![k] = x]
      BY <1>s, <1>n, <2>2 DEF FlagText, Linked
    <3>2. Cases' /\ Len(items') = n + 1
      BY <1>0, <1>n, <3>1 DEF Cases, Item
    <3>3. s \in ScanRecords(n + 1) /\ n + 1 \in Nat /\ n + 1 \in 0 .. n + 1
      BY <1>0, CasesGrow
    <3>4. /\ x \in ScanRecords(n + 1) /\ x.step = "flag" /\ x.resolution = s.resolution
      BY <3>3, JobLinks
    <3> HIDE DEF x
    <3>5. Sound(x)
      BY <2>1, <3>4 DEF Sound
    <3>6. Became(k, x) /\ scans[k].step # "done" /\ x \in ScanRecords(Len(items'))
      BY <1>s, <2>1, <3>1, <3>2, <3>4 DEF Became
    <3> QED BY <1>n, <1>f, <2>1, <3>2, <3>5, <3>6, JobStepKeeps
  <2>3. CASE ClearText(k)
    <3>1. items' = items /\ scans' = [scans EXCEPT ![k] = Stepped(s, "publish")]
      BY <1>s, <2>3 DEF ClearText, Stepped
    <3>2. Sound(Stepped(s, "publish"))
      BY <1>0, <1>s, <1>m, <2>1, <2>3 DEF Sound, ClearText, Reviewed
    <3> QED BY <1>f, <1>j, <2>1, <3>1, <3>2
  <2> QED BY <1>6, <2>2, <2>3 DEF ScanText
<1> QED BY <1>1, <1>2, <1>3, <1>4, <1>5, <1>6

-----------------------------------------------------------------------------
(* The requests.                                                           *)

\* Jobs stay sound when verdicts are added and when a sound job is added.
LEMMA JobsKept ==
  ASSUME Inv, verdicts \subseteq verdicts', cleared' = cleared,
         scans' = scans \/ \E x : scans' = Append(scans, x) /\ Sound(x)'
  PROVE  JobsSound'
<1>0. JobsSound /\ cleared \subseteq 1 .. Len(scans) /\ Len(scans) \in Nat
      /\ scans \in Seq(ScanRecords(Len(items)))
  BY Types DEF Inv, OtherTypes, CaseTypes
<1>1. \A i \in 1 .. Len(scans) : Sound(scans[i]) => (\A x : x = scans[i] => Sound(x)')
  BY DEF Sound
<1>2. CASE scans' = scans
  BY <1>0, <1>1, <1>2 DEF JobsSound
<1>3. ASSUME NEW x, scans' = Append(scans, x), Sound(x)' PROVE JobsSound'
  <2>1. /\ Len(scans') = Len(scans) + 1 /\ scans'[Len(scans) + 1] = x
        /\ \A i \in 1 .. Len(scans) : scans'[i] = scans[i]
    BY <1>0, <1>3
  <2>2. ASSUME NEW i \in 1 .. Len(scans') PROVE Sound(scans[i])'
    <3>1. CASE i \in 1 .. Len(scans)
      BY <1>0, <1>1, <2>1, <3>1 DEF JobsSound
    <3>2. CASE i = Len(scans) + 1
      BY <1>3, <2>1, <3>2
    <3> QED BY <1>0, <2>1, <3>1, <3>2
  <2>3. \A i \in cleared' : scans'[i].step = "done"
    BY <1>0, <2>1 DEF JobsSound
  <2> QED BY <2>2, <2>3 DEF JobsSound
<1> QED BY <1>2, <1>3

LEMMA NewJobs ==
  /\ \A t \in SUBSET Edits, n \in Nat : Scan(t) \in ScanRecords(n) /\ Sound(Scan(t))'
  /\ \A n \in Nat : \A i \in 0 .. n, a \in {"APPROVED", "REJECTED"} :
       /\ Resume(i, a) \in ScanRecords(n)
       /\ (a = "APPROVED" => <<i, a>> \in verdicts') => Sound(Resume(i, a))'
<1>1. \A t \in SUBSET Edits, n \in Nat : Scan(t) \in ScanRecords(n) /\ Sound(Scan(t))'
  BY DEF Scan, ScanRecords, Sound, NoItem
<1>2. \A n \in Nat : \A i \in 0 .. n, a \in {"APPROVED", "REJECTED"} :
       /\ Resume(i, a) \in ScanRecords(n)
       /\ (a = "APPROVED" => <<i, a>> \in verdicts') => Sound(Resume(i, a))'
  BY DEF Resume, ScanRecords, Sound
<1> QED BY <1>1, <1>2

\* A step of one moderator's request, which may add a verdict or a job.
LEMMA ResolveKeeps ==
  ASSUME Inv, NEW m \in Moderators, NEW y \in ResolveRecords(Len(items)),
         resolve' = [resolve EXCEPT ![m] = y],
         Cases', Len(items') = Len(items), ProductTypes', faults' \in 0 .. MaxFaults,
         UNCHANGED <<report, cleared>>,
         verdicts \subseteq verdicts', verdicts' \subseteq (1 .. Len(items)) \X Actions,
         \/ scans' = scans
         \/ \E x \in ScanRecords(Len(items)) : scans' = Append(scans, x) /\ Sound(x)',
         y.step = "decide" => y.item \in 1 .. Len(items),
         y.step \in {"effect", "unindex"} => y.action = "REJECTED",
         y.step = "resume" => Resumes(y.action),
         y.step \in {"announce", "resume"} /\ y.action = "APPROVED" =>
           <<y.item, "APPROVED">> \in verdicts'
  PROVE  Inv'
<1>0. CaseTypes(Len(items)) /\ OtherTypes /\ Decided /\ resolve \in [Moderators -> ResolveRecords(Len(items))]
  BY Types DEF Inv, CaseTypes
<1>1. resolve' \in [Moderators -> ResolveRecords(Len(items))]
      /\ \A k \in Moderators : resolve'[k] = IF k = m THEN y ELSE resolve[k]
  BY <1>0
<1>2. scans' \in Seq(ScanRecords(Len(items))) /\ Len(scans') >= Len(scans) /\ Len(scans) \in Nat
      /\ Len(scans') \in Nat
  BY <1>0 DEF CaseTypes
<1>3. CaseTypes(Len(items))' /\ OtherTypes'
  BY <1>0, <1>1, <1>2 DEF CaseTypes, OtherTypes, Cases
<1>4. TypeOK'
  BY <1>3, Types, PTL
<1>5. Decided'
  <2> SUFFICES ASSUME NEW k \in Moderators
               PROVE  /\ resolve'[k].step = "decide" => resolve'[k].item \in 1 .. Len(items')
                      /\ resolve'[k].step \in {"effect", "unindex"} =>
                           resolve'[k].action = "REJECTED"
                      /\ resolve'[k].step = "resume" => Resumes(resolve'[k].action)
                      /\ resolve'[k].step \in {"announce", "resume"} /\ resolve'[k].action = "APPROVED" =>
                           <<resolve'[k].item, "APPROVED">> \in verdicts'
    BY DEF Decided, Resumes
  <2>1. CASE k = m
    BY <1>1, <2>1
  <2>2. CASE k # m
    BY <1>0, <1>1, <2>2 DEF Decided
  <2> QED BY <2>1, <2>2
<1>6. JobsSound'
  BY JobsKept
<1> QED BY <1>4, <1>5, <1>6 DEF Inv

\* Steps of the owner's requests, and of reports.
LEMMA OtherKeeps ==
  ASSUME Inv, ProductTypes', faults' \in 0 .. MaxFaults, Cases',
         Len(items') = Len(items) \/ Len(items') = Len(items) + 1,
         report' \in [Reports -> {"new", "scan", "done"}],
         UNCHANGED <<resolve, verdicts, cleared>>,
         \/ scans' = scans
         \/ \E x \in ScanRecords(Len(items)) : scans' = Append(scans, x) /\ Sound(x)'
  PROVE  Inv'
<1> DEFINE n == Len(items)
           N == Len(items')
<1>0. CaseTypes(n) /\ OtherTypes /\ Decided /\ n \in Nat /\ N \in Nat
  BY Types DEF Inv, OtherTypes, Cases
<1>1. /\ ScanRecords(n) \subseteq ScanRecords(N)
      /\ ResolveRecords(n) \subseteq ResolveRecords(N)
      /\ (1 .. n) \X Actions \subseteq (1 .. N) \X Actions
  BY <1>0, CasesGrow
<1>2. scans' \in Seq(ScanRecords(n)) /\ Len(scans') >= Len(scans) /\ Len(scans) \in Nat
      /\ Len(scans') \in Nat
  BY <1>0 DEF CaseTypes
<1> HIDE DEF n
<1>3. scans' \in Seq(ScanRecords(N))
  BY <1>1, <1>2
<1>4. CaseTypes(Len(items))'
  BY <1>0, <1>1, <1>3 DEF CaseTypes
<1>5. OtherTypes'
  BY <1>0, <1>2 DEF OtherTypes, Cases
<1>6. TypeOK'
  BY <1>4, <1>5, Types, PTL
<1>7. Decided'
  <2>1. \A m \in Moderators : resolve[m].item \in 1 .. n => resolve[m].item \in 1 .. N
    BY <1>0 DEF n
  <2> QED BY <1>0, <2>1 DEF Decided, n
<1>8. JobsSound'
  BY JobsKept
<1> QED BY <1>6, <1>7, <1>8 DEF Inv

LEMMA ModeratorKeeps ==
  ASSUME Inv, NEW m \in Moderators,
         \/ UNCHANGED listingVars /\ (FindCase(m) \/ ResolveDies(m) \/ ResolveStep(m))
         \/ DelistProduct(m) \/ UnindexProduct(m)
  PROVE  Inv'
<1>n. PICK n \in Nat : n = Len(items)
  BY Types DEF Inv, OtherTypes
<1>y. PICK y : y = resolve[m]
  OBVIOUS
<1>0. /\ CaseTypes(n) /\ OtherTypes /\ ProductTypes /\ Decided /\ Cases
      /\ y \in ResolveRecords(n)
  BY <1>n, <1>y, Types DEF Inv, OtherTypes, CaseTypes, Cases
<1>f. faults \in Nat /\ MaxFaults \in Nat /\ faults \in 0 .. MaxFaults
  BY <1>0, ModerationAssumption DEF OtherTypes
<1>m. ASSUME NEW step \in {"effect", "unindex", "announce", "resume", "done"}
      PROVE  /\ Stepped(y, step) \in ResolveRecords(n)
             /\ Stepped(y, step).step = step
             /\ Stepped(y, step).item = y.item /\ Stepped(y, step).action = y.action
  BY <1>0, <1>m DEF Stepped, ResolveRecords
<1>p. UNCHANGED listingVars => ProductTypes'
  BY <1>0 DEF listingVars, ProductTypes
<1>1. CASE UNCHANGED listingVars /\ FindCase(m)
  <2>1. PICK i \in 1 .. n, a \in Actions :
          resolve' = [resolve EXCEPT ![m] = [step |-> "decide", item |-> i, action |-> a]]
    BY <1>n, <1>1 DEF FindCase
  <2>2. UNCHANGED <<scans, items, report, verdicts, cleared, faults>>
    BY <1>1 DEF FindCase
  <2> DEFINE x == [step |-> "decide", item |-> i, action |-> a]
  <2>3. x \in ResolveRecords(n) /\ x.step = "decide" /\ x.item = i
    BY DEF ResolveRecords
  <2> HIDE DEF x
  <2>4. resolve' = [resolve EXCEPT ![m] = x]
    BY <2>1 DEF x
  <2> QED BY <1>0, <1>f, <1>n, <1>p, <1>1, <2>2, <2>3, <2>4, ResolveKeeps DEF CaseTypes, Cases
<1>2. CASE UNCHANGED listingVars /\ ResolveDies(m)
  <2>1. /\ resolve' = [resolve EXCEPT ![m] = Stepped(y, "done")]
        /\ UNCHANGED <<scans, items, report, verdicts, cleared>>
        /\ faults' \in 0 .. MaxFaults
    BY <1>2, <1>f, <1>y DEF ResolveDies, Fault, Stepped
  <2> QED BY <1>0, <1>m, <1>n, <1>p, <1>2, <2>1, ResolveKeeps DEF CaseTypes, Cases
<1>3. CASE UNCHANGED listingVars /\ Decide(m)
  <2> DEFINE step == IF y.action = "REJECTED" THEN "effect" ELSE "announce"
             v    == <<y.item, y.action>>
  <2>1. /\ y.step = "decide" /\ items' = [items EXCEPT ![y.item].status = y.action]
        /\ verdicts' = verdicts \cup {v}
        /\ resolve' = [resolve EXCEPT ![m] = Stepped(y, step)]
        /\ UNCHANGED <<scans, report, cleared, faults>>
    BY <1>3, <1>y DEF Decide, Stepped
  <2>2. y.item \in 1 .. n /\ y.action \in Actions
    BY <1>0, <1>n, <1>y, <2>1 DEF Decided, ResolveRecords
  <2>3. Cases' /\ Len(items') = Len(items)
    <3>0. \A i \in 1 .. Len(items) : items[i] \in [status : {"PENDING"} \cup Actions]
      BY <1>0, ElementIs DEF Cases
    <3>1. PICK c \in [status : {"PENDING"} \cup Actions] : c = items[y.item]
      BY <1>n, <2>2, <3>0, Zenon
    <3>2. Marked(c, y.action) \in [status : {"PENDING"} \cup Actions]
      BY <2>2 DEF Marked
    <3>3. items' = [items EXCEPT ![y.item] = Marked(c, y.action)]
      BY <1>0, <2>1, <3>1 DEF Cases, Marked
    <3> QED BY <1>0, <1>n, <2>2, <3>2, <3>3 DEF Cases
  <2>4. verdicts' \subseteq (1 .. n) \X Actions
    BY <1>0, <2>1, <2>2 DEF CaseTypes
  <2>5. step \in {"effect", "announce"} /\ (step = "effect" => y.action = "REJECTED")
    OBVIOUS
  <2> HIDE DEF step
  <2> QED BY <1>0, <1>f, <1>m, <1>n, <1>p, <1>3, <2>1, <2>2, <2>3, <2>4, <2>5, ResolveKeeps
<1>4. CASE UNCHANGED listingVars /\ AnnounceVerdict(m)
  <2> DEFINE step == IF Resumes(y.action) THEN "resume" ELSE "done"
  <2>1. /\ y.step = "announce" /\ resolve' = [resolve EXCEPT ![m] = Stepped(y, step)]
        /\ UNCHANGED <<scans, items, report, verdicts, cleared, faults>>
    BY <1>4, <1>y DEF AnnounceVerdict, Stepped
  <2>2. y.action = "APPROVED" => <<y.item, "APPROVED">> \in verdicts
    BY <1>0, <1>y, <2>1 DEF Decided
  <2>3. step \in {"resume", "done"} /\ (step = "resume" => Resumes(y.action))
    OBVIOUS
  <2> HIDE DEF step
  <2> QED BY <1>0, <1>f, <1>m, <1>n, <1>p, <1>4, <2>1, <2>2, <2>3, ResolveKeeps DEF CaseTypes, Cases
<1>5. CASE UNCHANGED listingVars /\ ResumeCase(m)
  <2> DEFINE x == Resume(y.item, y.action)
  <2>1. /\ y.step = "resume" /\ scans' = Append(scans, x)
        /\ resolve' = [resolve EXCEPT ![m] = Stepped(y, "done")]
        /\ UNCHANGED <<items, report, verdicts, cleared, faults>>
    BY <1>5, <1>y DEF ResumeCase, Enqueue, Stepped
  <2>2. /\ y.action \in {"APPROVED", "REJECTED"} /\ y.item \in 0 .. n
        /\ y.action = "APPROVED" => <<y.item, "APPROVED">> \in verdicts'
    BY <1>0, <1>y, <2>1 DEF Decided, Resumes, ResolveRecords
  <2>3. x \in ScanRecords(n) /\ Sound(x)'
    <3>1. ASSUME NEW i \in 0 .. n, NEW a \in {"APPROVED", "REJECTED"},
                 a = "APPROVED" => <<i, a>> \in verdicts'
          PROVE  Resume(i, a) \in ScanRecords(n) /\ Sound(Resume(i, a))'
      BY <3>1, NewJobs
    <3>2. \A z : z = x => Sound(z)'
      BY <2>2, <3>1
    <3> QED BY <2>2, <3>1
  <2> HIDE DEF x
  <2> QED BY <1>0, <1>f, <1>m, <1>n, <1>p, <1>5, <2>1, <2>3, ResolveKeeps DEF CaseTypes, Cases
<1>6. CASE DelistProduct(m)
  <2>1. /\ y.step = "effect" /\ resolve' = [resolve EXCEPT ![m] = Stepped(y, "unindex")]
        /\ UNCHANGED <<scans, items, report, verdicts, cleared, faults>>
    BY <1>6, <1>y DEF DelistProduct, Stepped
  <2>2. ProductTypes'
    BY <1>0, <1>6 DEF DelistProduct, Delisted, ProductTypes, Statuses
  <2>3. y.action = "REJECTED"
    BY <1>0, <1>y, <2>1 DEF Decided
  <2> QED BY <1>0, <1>f, <1>m, <1>n, <2>1, <2>2, <2>3, ResolveKeeps DEF CaseTypes, Cases
<1>7. CASE UnindexProduct(m)
  <2>1. /\ y.step = "unindex" /\ resolve' = [resolve EXCEPT ![m] = Stepped(y, "announce")]
        /\ UNCHANGED <<scans, items, report, verdicts, cleared, faults>>
    BY <1>7, <1>y DEF UnindexProduct, Stepped
  <2>2. ProductTypes'
    BY <1>0, <1>7 DEF UnindexProduct, ProductTypes
  <2>3. y.action = "REJECTED"
    BY <1>0, <1>y, <2>1 DEF Decided
  <2> QED BY <1>0, <1>f, <1>m, <1>n, <2>1, <2>2, <2>3, ResolveKeeps DEF CaseTypes, Cases
<1> QED BY <1>1, <1>2, <1>3, <1>4, <1>5, <1>6, <1>7 DEF ResolveStep

LEMMA ReportKeeps ==
  ASSUME Inv, NEW r \in Reports, UNCHANGED listingVars,
         FileReport(r) \/ ScanReported(r) \/ ReportDies(r)
  PROVE  Inv'
<1>0. CaseTypes(Len(items)) /\ OtherTypes /\ ProductTypes /\ Cases /\ Len(items) \in Nat
  BY Types DEF Inv, OtherTypes, Cases
<1>1. ProductTypes'
  BY <1>0 DEF listingVars, ProductTypes
<1>2. /\ report' \in [Reports -> {"new", "scan", "done"}] /\ faults' \in 0 .. MaxFaults
      /\ UNCHANGED <<resolve, verdicts, cleared>>
  BY <1>0, ModerationAssumption
     DEF FileReport, ScanReported, ReportDies, Fault, OtherTypes
<1>3. Cases' /\ (Len(items') = Len(items) \/ Len(items') = Len(items) + 1)
  <2>1. CASE FileReport(r)
    <3>1. items' = Append(items, Item("PENDING")) /\ Item("PENDING") \in [status : {"PENDING"} \cup Actions]
      BY <2>1 DEF FileReport, Item
    <3> QED BY <1>0, <3>1 DEF Cases
  <2>2. CASE ScanReported(r) \/ ReportDies(r)
    BY <1>0, <2>2 DEF ScanReported, ReportDies, Cases
  <2> QED BY <2>1, <2>2
<1>4. scans' = scans \/ \E x \in ScanRecords(Len(items)) : scans' = Append(scans, x) /\ Sound(x)'
  <2>1. CASE ScanReported(r)
    <3>1. scans' = Append(scans, Scan({}))
      BY <2>1 DEF ScanReported, Enqueue
    <3>2. PICK x : x = Scan({})
      OBVIOUS
    <3>3. x \in ScanRecords(Len(items)) /\ Sound(x)'
      BY <1>0, <3>2 DEF Scan, ScanRecords, Sound, NoItem
    <3> QED BY <3>1, <3>2, <3>3
  <2>2. CASE FileReport(r) \/ ReportDies(r)
    BY <2>2 DEF FileReport, ReportDies
  <2> QED BY <2>1, <2>2
<1> QED BY <1>1, <1>2, <1>3, <1>4, OtherKeeps

\* A request of the owner, and the row it holds.
Holding(c, step, row) == [c EXCEPT !.step = step, !.row = row]

LEMMA Requested ==
  ASSUME NEW c \in PatchRecords, NEW step \in {"write", "scan", "index", "done"},
         NEW row \in [status : Statuses, text : SUBSET Edits]
  PROVE  Holding(c, step, row) \in PatchRecords /\ Stepped(c, step) \in PatchRecords
  BY DEF PatchRecords, Holding, Stepped

LEMMA OwnerKeeps ==
  ASSUME Inv, NEW p \in Patches,
         ReadProduct(p) \/ WriteProduct(p) \/ ScanProduct(p) \/ IndexProduct(p) \/ PatchDies(p)
  PROVE  Inv'
<1>c. PICK c : c = patch[p]
  OBVIOUS
<1>0. /\ CaseTypes(Len(items)) /\ OtherTypes /\ ProductTypes /\ Cases /\ Len(items) \in Nat
      /\ c \in PatchRecords /\ patch \in [Patches -> PatchRecords]
  BY <1>c, Types DEF Inv, OtherTypes, ProductTypes, Cases
<1>r. c.row \in [status : Statuses, text : SUBSET Edits] /\ c.edits \subseteq Edits
  BY <1>0 DEF PatchRecords
<1>1. ASSUME NEW x \in PatchRecords, patch' = [patch EXCEPT ![p] = x],
             product' \in [status : Statuses, text : SUBSET Edits], indexed' \in BOOLEAN,
             UNCHANGED <<items, resolve, report, verdicts, cleared>>, faults' \in 0 .. MaxFaults,
             \/ scans' = scans
             \/ \E s \in ScanRecords(Len(items)) : scans' = Append(scans, s) /\ Sound(s)'
      PROVE  Inv'
  <2>1. ProductTypes'
    BY <1>0, <1>1 DEF ProductTypes
  <2>2. Cases' /\ Len(items') = Len(items) /\ report' \in [Reports -> {"new", "scan", "done"}]
    BY <1>0, <1>1 DEF OtherTypes, Cases
  <2> QED BY <1>1, <2>1, <2>2, OtherKeeps
<1>f. /\ faults \in 0 .. MaxFaults /\ product \in [status : Statuses, text : SUBSET Edits]
      /\ indexed \in BOOLEAN
  BY <1>0 DEF OtherTypes, ProductTypes
<1>2. CASE ReadProduct(p)
  <2>1. PICK s \in Targets \cup {Unasked}, e \in {{}} \cup {{y} : y \in Edits} :
          patch' = [patch EXCEPT ![p] = [step |-> "write", status |-> s, edits |-> e, row |-> product]]
    BY <1>2 DEF ReadProduct
  <2>2. PICK x : x = [step |-> "write", status |-> s, edits |-> e, row |-> product]
    OBVIOUS
  <2>3. x \in PatchRecords
    BY <1>f, <2>2, ListingAssumption DEF PatchRecords
  <2>4. UNCHANGED <<scans, items, resolve, report, verdicts, cleared, faults, product, indexed>>
    BY <1>2 DEF ReadProduct, moderationVars
  <2> QED BY <1>1, <1>f, <2>1, <2>2, <2>3, <2>4
<1>3. CASE WriteProduct(p)
  <2>1. PICK row : row = Asked(p, product)
    OBVIOUS
  <2>2. row \in [status : Statuses, text : SUBSET Edits]
    <3>1. /\ c.status \in Statuses \cup {Unasked} /\ product.status \in Statuses
          /\ product.text \subseteq Edits
      BY <1>0, <1>f DEF PatchRecords
    <3> QED BY <1>c, <1>r, <2>1, <3>1 DEF Asked
  <2>3. PICK step \in {"scan", "index"} : step = IF NeedsScan(p) THEN "scan" ELSE "index"
    OBVIOUS
  <2>4. /\ product' = row /\ patch' = [patch EXCEPT ![p] = Holding(c, step, row)]
        /\ UNCHANGED <<scans, items, resolve, report, verdicts, cleared, faults, indexed>>
    BY <1>0, <1>3, <1>c, <2>1, <2>3
       DEF WriteProduct, Returned, Holding, moderationVars
  <2>5. PICK x \in PatchRecords : x = Holding(c, step, row)
    BY <1>0, <2>2, <2>3, Requested
  <2> QED BY <1>1, <1>f, <2>2, <2>4, <2>5
<1>4. CASE ScanProduct(p)
  <2>1. PICK x \in PatchRecords : x = Stepped(c, "index")
    BY <1>0, <1>r, Requested
  <2>2. /\ patch' = [patch EXCEPT ![p] = x]
        /\ UNCHANGED <<items, resolve, report, verdicts, cleared, faults, product, indexed>>
        /\ scans' = Append(scans, Scan(c.row.text))
    BY <1>4, <1>c, <2>1 DEF ScanProduct, Enqueue, Stepped
  <2>3. PICK s : s = Scan(c.row.text)
    OBVIOUS
  <2>4. s \in ScanRecords(Len(items)) /\ Sound(s)'
    <3>1. c.row.text \in SUBSET Edits
      BY <1>r
    <3> QED BY <1>0, <2>3, <3>1 DEF Scan, ScanRecords, Sound, NoItem
  <2> QED BY <1>1, <1>f, <2>2, <2>3, <2>4
<1>5. CASE IndexProduct(p)
  <2>1. PICK x \in PatchRecords : x = Stepped(c, "done")
    BY <1>0, <1>r, Requested
  <2>2. /\ patch' = [patch EXCEPT ![p] = x]
        /\ UNCHANGED <<scans, items, resolve, report, verdicts, cleared, faults, product>>
        /\ indexed' \in BOOLEAN
    BY <1>5, <1>c, <2>1 DEF IndexProduct, Stepped, moderationVars
  <2> QED BY <1>1, <1>f, <2>2
<1>6. CASE PatchDies(p)
  <2>1. PICK x \in PatchRecords : x = Stepped(c, "done")
    BY <1>0, <1>r, Requested
  <2>2. /\ patch' = [patch EXCEPT ![p] = x]
        /\ UNCHANGED <<scans, items, resolve, report, verdicts, cleared, product, indexed>>
        /\ faults' \in 0 .. MaxFaults
    BY <1>6, <1>c, <1>f, <2>1, ModerationAssumption
       DEF PatchDies, Fault, Stepped, moderationVars
  <2> QED BY <1>1, <1>f, <2>2
<1> QED BY <1>2, <1>3, <1>4, <1>5, <1>6

-----------------------------------------------------------------------------
LEMMA InvInit == Init => Inv
<1> SUFFICES ASSUME Init PROVE Inv
  OBVIOUS
<1> USE DEF Init, ModerationInit, ListingInit
<1>1. CaseTypes(Len(items))
  BY DEF CaseTypes, ResolveRecords, NoItem, Actions
<1>2. OtherTypes
  BY ModerationAssumption DEF OtherTypes
<1>3. ProductTypes
  BY DEF ProductTypes, PatchRecords, Draft, Statuses
<1>4. Decided
  BY DEF Decided
<1>5. JobsSound
  BY DEF JobsSound
<1> QED BY <1>1, <1>2, <1>3, <1>4, <1>5, Types DEF Inv

LEMMA InvStep == Inv /\ [Next]_vars => Inv'
<1> SUFFICES ASSUME Inv, [Next]_vars PROVE Inv'
  OBVIOUS
<1>1. CASE ModerationProgress /\ UNCHANGED listingVars
  BY <1>1, WorkerKeeps, ReportKeeps, ModeratorKeeps DEF ModerationProgress, WorkerStep
<1>2. CASE ListingProgress
  BY <1>2, OwnerKeeps, ModeratorKeeps DEF ListingProgress
<1>3. CASE ModerationEnv /\ UNCHANGED listingVars
  BY <1>3, WorkerKeeps, ReportKeeps, ModeratorKeeps DEF ModerationEnv
<1>4. CASE \E p \in Patches : ReadProduct(p) \/ PatchDies(p)
  BY <1>4, OwnerKeeps
<1>5. CASE UNCHANGED vars
  BY <1>5, Types DEF Inv, vars, moderationVars, listingVars, TypeOK, ModerationTypeOK, Decided,
       JobsSound, Sound
<1> QED BY <1>1, <1>2, <1>3, <1>4, <1>5 DEF Next, Progress

\* Whatever the owner, the reporters, the moderators and the worker do, and whoever of them dies:
\* the types hold, a verdict that is announced has been recorded, and a job about to publish is
\* of a text without findings or carries an approval that was recorded for its case.
THEOREM ListingsInvariant == Spec => []Inv
<1> QED BY InvInit, InvStep, PTL DEF Spec

\* Every variable of Moderation and Listings keeps its type.
THEOREM ListingTypes == Spec => []TypeOK
<1>1. Inv => TypeOK
  BY DEF Inv
<1> QED BY <1>1, ListingsInvariant, PTL

\* The pipeline publishes an approval of a flagged text only after a moderator has approved the
\* case, for any number of edits, requests, reports, moderators, deaths and re-runs.
THEOREM ApprovedByModerator == Spec => []ClearedByModerator
<1>1. ASSUME Inv PROVE ClearedByModerator
  <2>1. TypeOK /\ JobsSound
    BY <1>1 DEF Inv
  <2>2. CaseTypes(Len(items)) /\ OtherTypes /\ Len(items) \in Nat
    BY <2>1, Types DEF OtherTypes
  <2>3. ASSUME NEW k \in cleared
        PROVE  \/ scans[k].resolution = "none" /\ scans[k].text \cap Flagged = {}
               \/ <<scans[k].item, "APPROVED">> \in verdicts
    <3>1. PICK s : s = scans[k]
      OBVIOUS
    <3>2. Sound(s) /\ s.step = "done" /\ s \in ScanRecords(Len(items))
      BY <2>1, <2>2, <2>3, <3>1, ElementIs DEF JobsSound, OtherTypes, CaseTypes
    <3>3. s.resolution \in {"none", "APPROVED", "REJECTED"}
      BY <3>2 DEF ScanRecords
    <3> QED BY <3>1, <3>2, <3>3 DEF Sound
  <2> QED BY <2>3 DEF ClearedByModerator
<1> QED BY <1>1, ListingsInvariant, PTL
-----------------------------------------------------------------------------
(* TextIsScanned.  Unless something has failed, the text that stands has been *)
(* handed over or the last request to write a field is about to do so.       *)

HandedOver(t) == \E k \in 1 .. Len(scans) : scans[k].text = t
Awaited(t)    == \E p \in Patches : patch[p].step = "scan" /\ patch[p].row.text = t

TextFollowed ==
  \/ faults > 0
  \/ product.text = {}
  \/ HandedOver(product.text)
  \/ Awaited(product.text)

\* A job keeps the text it was added with.
TextsKept ==
  \A k \in 1 .. Len(scans) : k \in 1 .. Len(scans') /\ scans'[k].text = scans[k].text

LEMMA JobTextKept ==
  ASSUME Inv, NEW k \in 1 .. Len(scans), NEW x, Became(k, x), x.text = scans[k].text
  PROVE  TextsKept
<1>1. PICK jobs : jobs = scans
  OBVIOUS
<1>2. jobs \in Seq(ScanRecords(Len(items)))
  BY <1>1, Types DEF Inv, CaseTypes
<1>3. /\ Len(scans') = Len(scans)
      /\ \A i \in 1 .. Len(scans) : scans'[i] = IF i = k THEN x ELSE scans[i]
  BY <1>1, <1>2 DEF Became
<1> QED BY <1>3 DEF TextsKept

LEMMA WorkerKeepsTexts ==
  ASSUME Inv, NEW k \in 1 .. Len(scans),
         \/ ScanText(k) \/ ScanFails(k) \/ ResumeScan(k) \/ AnnounceFlag(k)
         \/ PublishApproval(k) \/ RunAgain(k)
  PROVE  TextsKept
<1>0. scans \in Seq(ScanRecords(Len(items))) /\ Len(items) \in Nat
  BY Types DEF Inv, CaseTypes, OtherTypes
<1>1. PICK s : s = scans[k]
  OBVIOUS
<1>2. s \in ScanRecords(Len(items))
  BY <1>0, <1>1, ElementIs
<1>3. ASSUME NEW step, Became(k, Stepped(s, step)) PROVE TextsKept
  <2>1. Stepped(s, step).text = s.text
    BY <1>2 DEF Stepped, ScanRecords
  <2>2. PICK x : x = Stepped(s, step)
    OBVIOUS
  <2> QED BY <1>1, <1>3, <2>1, <2>2, JobTextKept
<1>4. ASSUME NEW step, NEW i, Became(k, Linked(s, step, i)) PROVE TextsKept
  <2>1. Linked(s, step, i).text = s.text
    BY <1>2 DEF Linked, ScanRecords
  <2>2. PICK x : x = Linked(s, step, i)
    OBVIOUS
  <2> QED BY <1>1, <1>4, <2>1, <2>2, JobTextKept
<1>5. (\E step : Became(k, Stepped(s, step))) \/ (\E step, i : Became(k, Linked(s, step, i)))
  <2>1. CASE \E step : scans' = [scans EXCEPT ![k].step = step]
    BY <1>0, <1>1, <2>1 DEF Became, Stepped
  <2>2. ASSUME NEW step, NEW i, scans' = [scans EXCEPT ![k].step = step, ![k].item = i]
        PROVE  Became(k, Linked(s, step, i))
    <3>1. scans' = [scans EXCEPT ![k] = [s EXCEPT !.step = step, !.item = i]]
      BY <1>0, <1>1, <1>2, <2>2 DEF ScanRecords
    <3> QED BY <3>1 DEF Became, Linked
  <2>3. CASE ScanText(k)
    BY <2>1, <2>2, <2>3 DEF ScanText, FlagText, ClearText
  <2>4. CASE RunAgain(k)
    <3>1. scans' = [scans EXCEPT ![k].step = "queued",
                    ![k].item = IF s.resolution = "none" THEN NoItem ELSE s.item]
      BY <1>0, <1>1, <2>4 DEF RunAgain
    <3> QED BY <2>2, <3>1
  <2>5. CASE ScanFails(k) \/ ResumeScan(k) \/ AnnounceFlag(k) \/ PublishApproval(k)
    BY <2>1, <2>5 DEF ScanFails, ResumeScan, AnnounceFlag, PublishApproval
  <2> QED BY <2>3, <2>4, <2>5
<1> QED BY <1>3, <1>4, <1>5

LEMMA RequestsKeepTexts ==
  ASSUME Inv, scans' = scans \/ \E x : scans' = Append(scans, x)
  PROVE  TextsKept
<1>1. scans \in Seq(ScanRecords(Len(items)))
  BY Types DEF Inv, CaseTypes
<1>2. CASE scans' = scans
  BY <1>2 DEF TextsKept
<1>3. ASSUME NEW x, scans' = Append(scans, x) PROVE TextsKept
  BY <1>1, <1>3 DEF TextsKept
<1> QED BY <1>2, <1>3

LEMMA StepKeepsTexts ==
  ASSUME Inv, Next
  PROVE  TextsKept /\ (faults > 0 => faults' > 0)
<1>1. faults > 0 => faults' > 0
  <2>1. faults \in Nat
    BY ModerationAssumption DEF Inv, TypeOK, ModerationTypeOK
  <2>2. faults' = faults \/ faults' = faults + 1
    BY DEF Next, Progress, ModerationProgress, WorkerStep, ResolveStep, ModerationEnv,
       ListingProgress, Fault, ScanText, FlagText, ClearText, ScanFails, ResumeScan, AnnounceFlag,
       PublishApproval, RunAgain, FileReport, ScanReported, FindCase, Decide,
       AnnounceVerdict, ResumeCase, ResolveDies, ReportDies, ReadProduct, WriteProduct,
       ScanProduct, IndexProduct, PatchDies, DelistProduct, UnindexProduct
  <2> QED BY <2>1, <2>2
<1>2. \/ scans' = scans
      \/ \E x : scans' = Append(scans, x)
      \/ \E k \in 1 .. Len(scans) :
           \/ ScanText(k) \/ ScanFails(k) \/ ResumeScan(k) \/ AnnounceFlag(k)
           \/ PublishApproval(k) \/ RunAgain(k)
  BY DEF Next, Progress, ModerationProgress, WorkerStep, ResolveStep, ModerationEnv,
     ListingProgress, moderationVars, Enqueue, FileReport, ScanReported, FindCase, Decide,
     AnnounceVerdict, ResumeCase, ResolveDies, ReportDies, ReadProduct, WriteProduct,
     ScanProduct, IndexProduct, PatchDies, DelistProduct, UnindexProduct
<1> QED BY <1>1, <1>2, WorkerKeepsTexts, RequestsKeepTexts

LEMMA FollowedStep ==
  ASSUME Inv, TextFollowed, Next
  PROVE  TextFollowed'
<1>0. /\ TextsKept /\ (faults > 0 => faults' > 0)
      /\ patch \in [Patches -> PatchRecords]
      /\ product \in [status : Statuses, text : SUBSET Edits]
      /\ scans \in Seq(ScanRecords(Len(items)))
  BY StepKeepsTexts, Types DEF Inv, ProductTypes, CaseTypes
<1>1. \A t : HandedOver(t) => \A u : u = t => HandedOver(u)'
  BY <1>0 DEF TextsKept, HandedOver
<1>2. CASE product'.text = product.text /\ \A p \in Patches :
             patch[p].step = "scan" => patch'[p] = patch[p]
  <2>1. Awaited(product.text) => Awaited(product.text)'
    BY <1>2 DEF Awaited
  <2> QED BY <1>0, <1>1, <1>2, <2>1 DEF TextFollowed
<1>3. CASE UNCHANGED listingVars
  BY <1>2, <1>3 DEF listingVars
<1>4. ASSUME NEW p \in Patches, ReadProduct(p) \/ IndexProduct(p) PROVE TextFollowed'
  <2>1. /\ product' = product /\ patch[p].step # "scan"
        /\ \A q \in Patches \ {p} : patch'[q] = patch[q]
    BY <1>0, <1>4 DEF ReadProduct, IndexProduct
  <2> QED BY <1>2, <2>1
<1>5. ASSUME NEW p \in Patches, WriteProduct(p) PROVE TextFollowed'
  <2>1. PICK c : c = patch[p]
    OBVIOUS
  <2>2. PICK row : row = Asked(p, product)
    OBVIOUS
  <2>3. PICK step \in {"scan", "index"} : step = IF NeedsScan(p) THEN "scan" ELSE "index"
    OBVIOUS
  <2>4. /\ c.step = "write" /\ product' = row /\ c \in PatchRecords
        /\ patch' = [patch EXCEPT ![p] = Holding(c, step, row)]
    BY <1>0, <1>5, <2>1, <2>2, <2>3 DEF WriteProduct, Returned, Holding
  <2>5. Holding(c, step, row).step = step /\ Holding(c, step, row).row = row
    BY <2>4 DEF Holding, PatchRecords
  <2>6. patch'[p].step = step /\ patch'[p].row = row
    BY <1>0, <2>4, <2>5
  <2>7. CASE step = "scan"
    BY <2>4, <2>6, <2>7 DEF TextFollowed, Awaited
  <2>8. CASE step = "index"
    <3>1. c.edits = {}
      BY <2>1, <2>3, <2>8 DEF NeedsScan
    <3>2. row.text = product.text
      BY <2>1, <2>2, <3>1 DEF Asked
    <3>3. \A q \in Patches \ {p} : patch'[q] = patch[q]
      BY <1>0, <2>4
    <3> QED BY <1>2, <2>1, <2>4, <3>2, <3>3
  <2> QED BY <2>7, <2>8
<1>6. ASSUME NEW p \in Patches, ScanProduct(p) PROVE TextFollowed'
  <2>1. PICK text : text = patch[p].row.text
    OBVIOUS
  <2>2. /\ scans' = Append(scans, Scan(text)) /\ product' = product
        /\ \A q \in Patches \ {p} : patch'[q] = patch[q]
    BY <1>0, <1>6, <2>1 DEF ScanProduct, Enqueue
  <2>3. PICK s : s = Scan(text)
    OBVIOUS
  <2>4. Len(scans) + 1 \in 1 .. Len(scans') /\ scans'[Len(scans) + 1] = s
    BY <1>0, <2>2, <2>3
  <2>5. s.text = text
    BY <2>3 DEF Scan
  <2>6. CASE product.text = text
    BY <2>2, <2>4, <2>5, <2>6 DEF TextFollowed, HandedOver
  <2>7. CASE product.text # text
    <3>1. Awaited(product.text) => Awaited(product.text)'
      BY <2>1, <2>2, <2>7 DEF Awaited
    <3> QED BY <1>0, <1>1, <2>2, <3>1 DEF TextFollowed
  <2> QED BY <2>6, <2>7
<1>7. ASSUME NEW p \in Patches, PatchDies(p) PROVE TextFollowed'
  <2>1. faults \in Nat
    BY ModerationAssumption DEF Inv, TypeOK, ModerationTypeOK
  <2> QED BY <1>7, <2>1 DEF PatchDies, Fault, TextFollowed
<1>8. ASSUME NEW m \in Moderators, DelistProduct(m) \/ UnindexProduct(m) PROVE TextFollowed'
  <2>1. patch' = patch /\ product'.text = product.text
    BY <1>0, <1>8 DEF DelistProduct, UnindexProduct, Delisted
  <2> QED BY <1>2, <2>1
<1> QED BY <1>3, <1>4, <1>5, <1>6, <1>7, <1>8 DEF Next, Progress, ListingProgress

\* If no request, worker or call has failed, the text that stands when the owner's requests are
\* over has been handed to moderation, for any number of requests that overlap in any way.
THEOREM StandingTextIsScanned == Spec => []TextIsScanned
<1>1. Init => TextFollowed
  BY DEF Init, ListingInit, Draft, TextFollowed
<1>2. Inv /\ TextFollowed /\ [Next]_vars => TextFollowed'
  <2> SUFFICES ASSUME Inv, TextFollowed, [Next]_vars PROVE TextFollowed'
    OBVIOUS
  <2>1. CASE UNCHANGED vars
    BY <2>1 DEF vars, moderationVars, listingVars, TextFollowed, HandedOver, Awaited
  <2> QED BY <2>1, FollowedStep
<1>3. TextFollowed => TextIsScanned
  BY DEF TextFollowed, TextIsScanned, HandedOver, Awaited
<1> QED BY <1>1, <1>2, <1>3, InvInit, InvStep, PTL DEF Spec
-----------------------------------------------------------------------------
(* ApprovalPublished: who still has to publish an approval.                *)

\* A job that has published the approval of a case, or is on its way to.
Carried(i) ==
  \E k \in 1 .. Len(scans) :
    /\ scans[k].item = i /\ scans[k].resolution = "APPROVED"
    /\ scans[k].step \in {"queued", "publish"} \/ k \in cleared

\* Unless something has failed, an approval that was recorded is in the hands of the moderator's
\* request, or in those of a job.
ApprovalIsDue ==
  \A m \in Moderators :
    resolve[m].action = "APPROVED" /\ resolve[m].step \notin {"new", "decide"} =>
      \/ faults > 0
      \/ resolve[m].step \in {"announce", "resume"}
      \/ Carried(resolve[m].item)

\* What a step of a job leaves of the jobs.
JobMoved(k) ==
  /\ Len(scans') = Len(scans)
  /\ \A i \in 1 .. Len(scans) : i # k => scans'[i] = scans[i]

LEMMA BecameMoves ==
  ASSUME Inv, NEW k \in 1 .. Len(scans), NEW x, Became(k, x)
  PROVE  JobMoved(k) /\ scans'[k] = x
<1>1. PICK jobs : jobs = scans
  OBVIOUS
<1>2. jobs \in Seq(ScanRecords(Len(items)))
  BY <1>1, Types DEF Inv, CaseTypes
<1>3. /\ Len(scans') = Len(scans)
      /\ \A i \in 1 .. Len(scans) : scans'[i] = IF i = k THEN x ELSE scans[i]
  BY <1>1, <1>2 DEF Became
<1> QED BY <1>3 DEF JobMoved

LEMMA WorkerCarries ==
  ASSUME Inv, NEW k \in 1 .. Len(scans), WorkerStep(k), NEW i, Carried(i)
  PROVE  Carried(i)'
<1>1. PICK j \in 1 .. Len(scans) :
        /\ scans[j].item = i /\ scans[j].resolution = "APPROVED"
        /\ scans[j].step \in {"queued", "publish"} \/ j \in cleared
  BY DEF Carried
<1>2. /\ scans \in Seq(ScanRecords(Len(items))) /\ Len(items) \in Nat /\ JobsSound
  BY Types DEF Inv, CaseTypes, OtherTypes
<1>3. PICK s : s = scans[k]
  OBVIOUS
<1>4. s \in ScanRecords(Len(items))
  BY <1>2, <1>3, ElementIs
<1>5. cleared \subseteq cleared'
  BY DEF WorkerStep, ScanText, FlagText, ClearText, ResumeScan, AnnounceFlag, PublishApproval
<1>6. PICK x : Became(k, x)
  BY <1>3 DEF WorkerStep, ScanText, FlagText, ClearText, ResumeScan, AnnounceFlag,
       PublishApproval, Became
<1>7. JobMoved(k) /\ scans'[k] = x
  BY <1>6, BecameMoves
<1>8. CASE j # k
  BY <1>1, <1>5, <1>7, <1>8 DEF Carried, JobMoved
<1>9. CASE j = k
  <2>1. s.item = i /\ s.resolution = "APPROVED" /\ s.step \in {"queued", "publish", "done"}
    BY <1>1, <1>2, <1>3, <1>9 DEF JobsSound
  <2>2. \/ ResumeScan(k) /\ Became(k, Stepped(s, "publish"))
        \/ PublishApproval(k) /\ Became(k, Stepped(s, "done"))
    BY <1>3, <2>1 DEF WorkerStep, ScanText, FlagText, ClearText, ResumeScan, AnnounceFlag,
         PublishApproval, Became,
         ResumeStep, Stepped
  <2>3. \A y : Became(k, y) => scans'[k] = y
    BY BecameMoves
  <2>4. /\ Stepped(s, "publish").step = "publish" /\ Stepped(s, "publish").item = s.item
        /\ Stepped(s, "publish").resolution = s.resolution
        /\ Stepped(s, "done").item = s.item /\ Stepped(s, "done").resolution = s.resolution
    BY <1>2, <1>4, JobSteps
  <2>5. CASE ResumeScan(k) /\ Became(k, Stepped(s, "publish"))
    <3>1. scans'[k] = Stepped(s, "publish")
      BY <2>3, <2>5
    <3> QED BY <1>7, <2>1, <2>4, <3>1 DEF Carried, JobMoved
  <2>6. CASE PublishApproval(k) /\ Became(k, Stepped(s, "done"))
    <3>1. scans'[k] = Stepped(s, "done") /\ k \in cleared'
      BY <2>3, <2>6 DEF PublishApproval
    <3> QED BY <1>7, <2>1, <2>4, <3>1 DEF Carried, JobMoved
  <2> QED BY <2>2, <2>5, <2>6
<1> QED BY <1>8, <1>9

\* A job is added behind those that are there.
LEMMA AddedCarries ==
  ASSUME Inv, NEW x, scans' = Append(scans, x), cleared' = cleared
  PROVE  /\ \A i : Carried(i) => Carried(i)'
         /\ x.step = "queued" /\ x.resolution = "APPROVED" => Carried(x.item)'
<1>1. scans \in Seq(ScanRecords(Len(items)))
  BY Types DEF Inv, CaseTypes
<1>2. /\ Len(scans') = Len(scans) + 1 /\ Len(scans) \in Nat
      /\ \A i \in 1 .. Len(scans) : scans'[i] = scans[i]
      /\ scans'[Len(scans) + 1] = x
  BY <1>1
<1>3. \A i \in 1 .. Len(scans) : i \in 1 .. Len(scans')
  BY <1>2
<1>4. Len(scans) + 1 \in 1 .. Len(scans')
  BY <1>2
<1> QED BY <1>2, <1>3, <1>4 DEF Carried

\* The steps of the moderator's request itself.
LEMMA ModeratorCarries ==
  ASSUME Inv, ApprovalIsDue, NEW m \in Moderators,
         \/ FindCase(m) \/ ResolveStep(m)
         \/ DelistProduct(m) \/ UnindexProduct(m)
  PROVE  ApprovalIsDue'
<1>1. PICK c : c = resolve[m]
  OBVIOUS
<1>2. /\ resolve \in [Moderators -> ResolveRecords(Len(items))]
      /\ c \in ResolveRecords(Len(items)) /\ Decided
  BY <1>1, Types DEF Inv, CaseTypes
<1>3. ASSUME NEW y, resolve' = [resolve EXCEPT ![m] = y], faults' = faults,
             \A i : Carried(i) => Carried(i)',
             y.action = "APPROVED" /\ y.step \notin {"new", "decide"} =>
               y.step \in {"announce", "resume"} \/ Carried(y.item)'
      PROVE  ApprovalIsDue'
  <2>1. resolve'[m] = y /\ \A n \in Moderators \ {m} : resolve'[n] = resolve[n]
    BY <1>2, <1>3
  <2> QED BY <1>3, <2>1 DEF ApprovalIsDue
<1>4. ASSUME scans' = scans, cleared' = cleared PROVE \A i : Carried(i) => Carried(i)'
  BY <1>4 DEF Carried
<1>5. ASSUME NEW step \in {"new", "decide", "effect", "unindex", "announce", "resume", "done"}
      PROVE  /\ [c EXCEPT !.step = step].step = step
             /\ [c EXCEPT !.step = step].item = c.item /\ [c EXCEPT !.step = step].action = c.action
  BY <1>2 DEF ResolveRecords
<1>6. CASE FindCase(m)
  <2>1. PICK i \in 1 .. Len(items), a \in Actions :
          resolve' = [resolve EXCEPT ![m] = [step |-> "decide", item |-> i, action |-> a]]
    BY <1>6 DEF FindCase
  <2>2. UNCHANGED <<scans, cleared, faults>>
    BY <1>6 DEF FindCase
  <2> DEFINE y == [step |-> "decide", item |-> i, action |-> a]
  <2>3. y.step = "decide"
    OBVIOUS
  <2> HIDE DEF y
  <2> QED BY <1>3, <1>4, <2>1, <2>2, <2>3 DEF y
<1>7. CASE Decide(m)
  <2>1. PICK step \in {"effect", "announce"} : /\ resolve' = [resolve EXCEPT ![m] = [c EXCEPT !.step = step]]
                                               /\ c.action # "REJECTED" => step = "announce"
    BY <1>1, <1>7 DEF Decide
  <2>2. UNCHANGED <<scans, cleared, faults>>
    BY <1>7 DEF Decide
  <2> DEFINE y == [c EXCEPT !.step = step]
  <2>3. y.action = c.action /\ y.step = step
    BY <1>5
  <2> HIDE DEF y
  <2>4. y.action = "APPROVED" => y.step = "announce"
    BY <2>1, <2>3
  <2> QED BY <1>3, <1>4, <2>1, <2>2, <2>4 DEF y
<1>8. CASE AnnounceVerdict(m)
  <2>1. PICK step \in {"resume", "done"} : /\ resolve' = [resolve EXCEPT ![m] = [c EXCEPT !.step = step]]
                                           /\ c.action = "APPROVED" => step = "resume"
    BY <1>1, <1>8 DEF AnnounceVerdict, Resumes
  <2>2. UNCHANGED <<scans, cleared, faults>>
    BY <1>8 DEF AnnounceVerdict
  <2> DEFINE y == [c EXCEPT !.step = step]
  <2>3. y.action = c.action /\ y.step = step
    BY <1>5
  <2> HIDE DEF y
  <2>4. y.action = "APPROVED" => y.step = "resume"
    BY <2>1, <2>3
  <2> QED BY <1>3, <1>4, <2>1, <2>2, <2>4 DEF y
<1>9. CASE ResumeCase(m)
  <2> DEFINE y == [c EXCEPT !.step = "done"]
             x == Resume(c.item, c.action)
  <2>1. /\ resolve' = [resolve EXCEPT ![m] = y] /\ scans' = Append(scans, x)
        /\ UNCHANGED <<cleared, faults>>
    BY <1>1, <1>9 DEF ResumeCase, Enqueue
  <2>2. y.action = c.action /\ y.item = c.item
    BY <1>5
  <2>3. x.step = "queued" /\ x.resolution = c.action /\ x.item = c.item
    BY DEF Resume
  <2> HIDE DEF x, y
  <2>4. (\A i : Carried(i) => Carried(i)') /\ (c.action = "APPROVED" => Carried(c.item)')
    <3>1. /\ \A i : Carried(i) => Carried(i)'
          /\ x.step = "queued" /\ x.resolution = "APPROVED" => Carried(x.item)'
      BY <2>1, AddedCarries
    <3>2. ASSUME c.action = "APPROVED" PROVE Carried(c.item)'
      BY <2>3, <3>1, <3>2
    <3> QED BY <3>1, <3>2
  <2> QED BY <1>3, <2>1, <2>2, <2>4
<1>10. CASE DelistProduct(m) \/ UnindexProduct(m)
  <2>1. PICK step \in {"unindex", "announce"} : resolve' = [resolve EXCEPT ![m] = [c EXCEPT !.step = step]]
    BY <1>1, <1>10 DEF DelistProduct, UnindexProduct
  <2>2. UNCHANGED <<scans, cleared, faults>> /\ c.action = "REJECTED"
    BY <1>1, <1>2, <1>10 DEF DelistProduct, UnindexProduct, Decided
  <2> DEFINE y == [c EXCEPT !.step = step]
  <2>3. y.action # "APPROVED"
    BY <1>5, <2>2
  <2> HIDE DEF y
  <2> QED BY <1>3, <1>4, <2>1, <2>2, <2>3 DEF y
<1> QED BY <1>6, <1>7, <1>8, <1>9, <1>10 DEF ResolveStep

LEMMA ApprovalStep == Inv /\ ApprovalIsDue /\ [Next]_vars => ApprovalIsDue'
<1> SUFFICES ASSUME Inv, ApprovalIsDue, [Next]_vars PROVE ApprovalIsDue'
  OBVIOUS
<1>0. faults \in Nat
  BY ModerationAssumption DEF Inv, TypeOK, ModerationTypeOK
<1>1. ASSUME Fault PROVE ApprovalIsDue'
  BY <1>0, <1>1 DEF Fault, ApprovalIsDue
<1>2. ASSUME resolve' = resolve, faults' = faults, \A i : Carried(i) => Carried(i)'
      PROVE  ApprovalIsDue'
  BY <1>2 DEF ApprovalIsDue
<1>3. ASSUME UNCHANGED <<resolve, faults, scans, cleared>> PROVE ApprovalIsDue'
  BY <1>3 DEF ApprovalIsDue, Carried
<1>4. ASSUME NEW k \in 1 .. Len(scans), WorkerStep(k) PROVE ApprovalIsDue'
  <2>1. resolve' = resolve /\ faults' = faults
    BY <1>4 DEF WorkerStep, ScanText, FlagText, ClearText, ResumeScan, AnnounceFlag, PublishApproval
  <2> QED BY <1>2, <1>4, <2>1, WorkerCarries
<1>5. ASSUME NEW x, scans' = Append(scans, x), UNCHANGED <<resolve, faults, cleared>>
      PROVE  ApprovalIsDue'
  BY <1>2, <1>5, AddedCarries
<1>6. ASSUME NEW r \in Reports, ScanReported(r) PROVE ApprovalIsDue'
  BY <1>5, <1>6 DEF ScanReported, Enqueue
<1>7. CASE ModerationProgress
  BY <1>4, <1>6, <1>7, ModeratorCarries DEF ModerationProgress
<1>8. CASE ModerationEnv
  BY <1>1, <1>3, <1>8, ModeratorCarries
     DEF ModerationEnv, ScanFails, RunAgain, FileReport, ReportDies, ResolveDies
<1>9. ASSUME NEW p \in Patches,
             \/ ReadProduct(p) \/ WriteProduct(p) \/ ScanProduct(p) \/ IndexProduct(p) \/ PatchDies(p)
      PROVE  ApprovalIsDue'
  BY <1>1, <1>3, <1>5, <1>9 DEF ReadProduct, WriteProduct, ScanProduct, IndexProduct, PatchDies,
       Enqueue, moderationVars
<1>10. CASE UNCHANGED vars
  BY <1>3, <1>10 DEF vars, moderationVars
<1> QED BY <1>7, <1>8, <1>9, <1>10, ModeratorCarries DEF Next, Progress, ListingProgress

\* Unless something has failed, an approval a moderator has had recorded is announced or resumed by
\* the moderator's request next, or a job carries it and publishes it or has published it; no
\* verdict that the case is given later takes it back (moderation/index.ts, workers/moderation).
THEOREM ApprovalComesDue == Spec => []ApprovalIsDue
<1>1. Init => ApprovalIsDue
  BY DEF Init, ModerationInit, ApprovalIsDue
<1> QED BY <1>1, ListingsInvariant, InvInit, InvStep, ApprovalStep, PTL DEF Spec
=============================================================================
