---------------------------- MODULE Moderation ----------------------------
(***************************************************************************)
(* Moderation of one product: the jobs of the queue moderation.scan and    *)
(* the worker that runs them (workers/moderation), the cases that wait for *)
(* a moderator, and the requests of users and moderators (services/api/src *)
(* /modules/moderation/index.ts).  What a verdict does to the product is   *)
(* in Listings.                                                            *)
(*                                                                         *)
(* A text is the set of edits it is made of; some edits make it one that   *)
(* the automatic stages flag, always or depending on who classifies it.    *)
(* The worker has several jobs in hand at once, and a job whose worker     *)
(* dies is run again from its beginning.                                   *)
(***************************************************************************)
EXTENDS Integers, Sequences, FiniteSets

CONSTANTS
  Edits,      \* edits of the subject's text
  Flagged,    \* those that every scan flags, by AI_SAFETY or CONTENT_POLICY
  Suspect,    \* those that only one flags of the safety provider and its fallback
  Moderators, \* requests to POST /moderation/:id/resolve
  Reports,    \* requests to POST /moderation/report
  MaxFaults   \* bound: requests, workers and calls that die or fail

ASSUME ModerationAssumption ==
  /\ Flagged \subseteq Edits
  /\ Suspect \subseteq Edits
  /\ MaxFaults \in Nat

VARIABLES
  scans,    \* the jobs, in the order they were added
  items,    \* the ModerationItem rows, in the order they were created
  resolve,  \* where each moderator's request is, and with which case and action
  report,   \* where each report is
  verdicts, \* history: the actions that were recorded, with their case
  cleared,  \* history: the jobs that published an approval
  faults

moderationVars == <<scans, items, resolve, report, verdicts, cleared>>

NoItem  == 0
Actions == {"APPROVED", "REJECTED", "ESCALATED"}
Fault   == faults < MaxFaults /\ faults' = faults + 1

\* A first scan of a text, and the job that resumes a decided case at HUMAN_REVIEW.
Scan(text)    == [text |-> text, item |-> NoItem, resolution |-> "none", step |-> "queued"]
Resume(i, a)  == [text |-> {}, item |-> i, resolution |-> a, step |-> "queued"]
Enqueue(scan) == scans' = Append(scans, scan)

Item(status) == [status |-> status]
-----------------------------------------------------------------------------
ModerationInit ==
  /\ scans = <<>>
  /\ items = <<>>
  /\ resolve = [m \in Moderators |-> [step |-> "new", item |-> NoItem, action |-> "ESCALATED"]]
  /\ report = [r \in Reports |-> "new"]
  /\ verdicts = {}
  /\ cleared = {}
  /\ faults = 0

-----------------------------------------------------------------------------
(* The worker *)

Reviewed(text)    == text \cap Flagged # {}
MayReview(text)   == text \cap (Flagged \cup Suspect) # {}

\* MALWARE to CONTENT_POLICY and the first pass of HUMAN_REVIEW: a finding opens a case.
FlagText(k) ==
  /\ scans[k].step = "queued"
  /\ scans[k].resolution = "none"
  /\ MayReview(scans[k].text)
  /\ items' = Append(items, Item("PENDING"))
  /\ scans' = [scans EXCEPT ![k].step = "flag", ![k].item = Len(items) + 1]
  /\ UNCHANGED <<resolve, report, verdicts, cleared, faults>>

\* With nothing to look at the text is clear.  The provider may fail in one run of a job and
\* answer in another: what the two make of a suspect text differs.
ClearText(k) ==
  /\ scans[k].step = "queued"
  /\ scans[k].resolution = "none"
  /\ ~Reviewed(scans[k].text)
  /\ scans' = [scans EXCEPT ![k].step = "publish"]
  /\ UNCHANGED <<items, resolve, report, verdicts, cleared, faults>>

ScanText(k) == FlagText(k) \/ ClearText(k)

\* The license is incompatible or the file no good, or something throws: the job fails.
ScanFails(k) ==
  /\ scans[k].step \in {"queued", "flag", "publish"}
  /\ Fault
  /\ scans' = [scans EXCEPT ![k].step = "failed"]
  /\ UNCHANGED <<items, resolve, report, verdicts, cleared>>

\* Mutant of ResumeStep: any verdict lets the text through.
ResumeStepAny(a) == "publish"

ResumeStep(a) == IF a = "REJECTED" THEN "failed" ELSE "publish"

\* HUMAN_REVIEW of a resumed job: the verdict it carries.
ResumeScan(k) ==
  /\ scans[k].step = "queued"
  /\ scans[k].resolution # "none"
  /\ scans' = [scans EXCEPT ![k].step = ResumeStep(scans[k].resolution)]
  /\ UNCHANGED <<items, resolve, report, verdicts, cleared, faults>>

\* MODERATION_FLAGGED; the job is over, the case waits.
AnnounceFlag(k) ==
  /\ scans[k].step = "flag"
  /\ scans' = [scans EXCEPT ![k].step = "waiting"]
  /\ UNCHANGED <<items, resolve, report, verdicts, cleared, faults>>

\* PUBLISH: MODERATION_RESOLVED, approved.
PublishApproval(k) ==
  /\ scans[k].step = "publish"
  /\ scans' = [scans EXCEPT ![k].step = "done"]
  /\ cleared' = cleared \cup {k}
  /\ UNCHANGED <<items, resolve, report, verdicts, faults>>

\* The worker dies in the job, which the queue hands out again.
RunAgain(k) ==
  /\ scans[k].step \in {"flag", "publish"}
  /\ Fault
  /\ scans' = [scans EXCEPT ![k].step = "queued",
                            ![k].item = IF scans[k].resolution = "none" THEN NoItem ELSE @]
  /\ UNCHANGED <<items, resolve, report, verdicts, cleared>>

WorkerStep(k) == ScanText(k) \/ ResumeScan(k) \/ AnnounceFlag(k) \/ PublishApproval(k)
-----------------------------------------------------------------------------
(* The API *)

\* POST /moderation/report: a case, and a scan without any text.
FileReport(r) ==
  /\ report[r] = "new"
  /\ items' = Append(items, Item("PENDING"))
  /\ report' = [report EXCEPT ![r] = "scan"]
  /\ UNCHANGED <<scans, resolve, verdicts, cleared, faults>>

ScanReported(r) ==
  /\ report[r] = "scan"
  /\ Enqueue(Scan({}))
  /\ report' = [report EXCEPT ![r] = "done"]
  /\ UNCHANGED <<items, resolve, verdicts, cleared, faults>>

\* POST /moderation/:id/resolve finds the case, whatever its status.
FindCase(m) ==
  /\ resolve[m].step = "new"
  /\ \E i \in 1 .. Len(items), a \in Actions :
       resolve' = [resolve EXCEPT ![m] = [step |-> "decide", item |-> i, action |-> a]]
  /\ UNCHANGED <<scans, items, report, verdicts, cleared, faults>>

\* The row takes the action; what it does to the product follows.
Decide(m) ==
  LET i == resolve[m].item
      a == resolve[m].action
  IN /\ resolve[m].step = "decide"
     /\ items' = [items EXCEPT ![i].status = a]
     /\ verdicts' = verdicts \cup {<<i, a>>}
     /\ resolve' = [resolve EXCEPT ![m].step = IF a = "REJECTED" THEN "effect" ELSE "announce"]
     /\ UNCHANGED <<scans, report, cleared, faults>>

\* Mutant of Resumes: the pipeline only hears of rejections.
ResumesRejected(a) == a = "REJECTED"

Resumes(a) == a \in {"APPROVED", "REJECTED"}

\* MODERATION_RESOLVED
AnnounceVerdict(m) ==
  /\ resolve[m].step = "announce"
  /\ resolve' = [resolve EXCEPT ![m].step = IF Resumes(resolve[m].action) THEN "resume" ELSE "done"]
  /\ UNCHANGED <<scans, items, report, verdicts, cleared, faults>>

ResumeCase(m) ==
  /\ resolve[m].step = "resume"
  /\ Enqueue(Resume(resolve[m].item, resolve[m].action))
  /\ resolve' = [resolve EXCEPT ![m].step = "done"]
  /\ UNCHANGED <<items, report, verdicts, cleared, faults>>

ResolveDies(m) ==
  /\ resolve[m].step \notin {"new", "done"}
  /\ Fault
  /\ resolve' = [resolve EXCEPT ![m].step = "done"]
  /\ UNCHANGED <<scans, items, report, verdicts, cleared>>

ReportDies(r) ==
  /\ report[r] = "scan"
  /\ Fault
  /\ report' = [report EXCEPT ![r] = "done"]
  /\ UNCHANGED <<scans, items, resolve, verdicts, cleared>>

ResolveStep(m) == Decide(m) \/ AnnounceVerdict(m) \/ ResumeCase(m)

ModerationProgress ==
  \/ \E k \in 1 .. Len(scans) : WorkerStep(k)
  \/ \E r \in Reports : ScanReported(r)
  \/ \E m \in Moderators : ResolveStep(m)

ModerationEnv ==
  \/ \E k \in 1 .. Len(scans) : ScanFails(k) \/ RunAgain(k)
  \/ \E r \in Reports : FileReport(r) \/ ReportDies(r)
  \/ \E m \in Moderators : FindCase(m) \/ ResolveDies(m)
-----------------------------------------------------------------------------
ModerationTypeOK ==
  /\ scans \in Seq([text : SUBSET Edits, item : 0 .. Len(items),
                    resolution : {"none", "APPROVED", "REJECTED"},
                    step : {"queued", "flag", "publish", "waiting", "done", "failed"}])
  /\ items \in Seq([status : {"PENDING"} \cup Actions])
  /\ resolve \in [Moderators ->
       [step : {"new", "decide", "effect", "unindex", "announce", "resume", "done"},
        item : 0 .. Len(items), action : Actions]]
  /\ report \in [Reports -> {"new", "scan", "done"}]
  /\ verdicts \subseteq (1 .. Len(items)) \X Actions
  /\ cleared \subseteq 1 .. Len(scans)
  /\ faults \in 0 .. MaxFaults

\* The pipeline publishes an approval of a flagged text only after a moderator has approved the
\* case, whatever other cases and jobs there are and however often a job is run.
ClearedByModerator ==
  \A k \in cleared :
    \/ scans[k].resolution = "none" /\ scans[k].text \cap Flagged = {}
    \/ <<scans[k].item, "APPROVED">> \in verdicts

\* An approval that a moderator sends is in the end published by the pipeline as that case's,
\* unless something fails, whatever other verdicts the case is given.
ApprovalPublished ==
  \A m \in Moderators :
    (resolve[m].step = "decide" /\ resolve[m].action = "APPROVED")
      ~> (faults > 0 \/ \E k \in cleared : scans[k].item = resolve[m].item)
=============================================================================
