------------------------------ MODULE Webhooks ------------------------------
(***************************************************************************)
(* The webhook dispatcher of the API                                       *)
(* (services/api/src/modules/developer/webhookDispatcher.ts) on the event  *)
(* stream it subscribes to, with the owner's PATCH and DELETE of the hook  *)
(* (developer/index.ts).                                                   *)
(*                                                                         *)
(* The handler returns before it has done anything: the stream             *)
(* acknowledges the event while its delivery is still running, so several  *)
(* deliveries to one hook run at once, in one process or in two.  One      *)
(* hook, subscribed to every event.                                        *)
(***************************************************************************)
EXTENDS EventStream

CONSTANTS
  MaxFailures, \* config.webhook.maxFailures
  Requests     \* the owner's requests

ASSUME WebhookAssumption == MaxFailures \in Nat \ {0}

VARIABLES
  hook,     \* the Webhook row
  tasks,    \* deliveries that are running
  request,  \* where each request of the owner is
  failures, \* history: posts that have failed
  posted    \* history: the events that have been posted

hookVars == <<hook, tasks, request, failures, posted>>
allVars  == <<vars, hookVars>>

\* A run of the handler: the event, the process, and which run of the event it is.
Task(i, p) == [event |-> i, at |-> p, run |-> runs[i], step |-> "find", read |-> 0]

Advance(t, step) == tasks' = (tasks \ {t}) \cup {[t EXCEPT !.step = step]}
Finish(t)        == tasks' = tasks \ {t}
Killed(p)        == tasks' = {t \in tasks : t.at # p}
-----------------------------------------------------------------------------
WebhookInit ==
  /\ Init
  /\ hook = [active |-> TRUE, deleted |-> FALSE, failureCount |-> 0, disabled |-> FALSE]
  /\ tasks = {}
  /\ request = [r \in Requests |-> "new"]
  /\ failures = 0
  /\ posted = {}

\* The handler starts a delivery and returns.
StartDelivery(p) ==
  /\ Dispatch(p)
  /\ tasks' = IF closed[p] THEN tasks ELSE tasks \cup {Task(Next1(p), p)}
  /\ UNCHANGED <<hook, request, failures, posted>>

\* Steps of the consumers that do not touch the deliveries.
StreamStep ==
  /\ \/ Publish
     \/ \E p \in Processes :
          \/ EnsureGroup(p)
          \/ EnsureGroupFails(p)
          \/ ReadPending(p)
          \/ ReadNew(p)
          \/ ReadLost(p)
          \/ Ack(p)
          \/ AckFails(p)
          \/ Close(p)
  /\ UNCHANGED hookVars

\* A process dies, or has ended when the next one starts; its deliveries go with it.
Die(p) ==
  /\ Crash(p) \/ \E n \in Names : Subscribe(p, n)
  /\ Killed(p)
  /\ UNCHANGED <<hook, request, failures, posted>>

\* findMany of the active hooks: the row as it is now, with its failure count.
Find(t) ==
  /\ t.step = "find"
  /\ IF hook.active /\ ~hook.deleted
     THEN tasks' = (tasks \ {t}) \cup {[t EXCEPT !.step = "post", !.read = hook.failureCount]}
     ELSE Finish(t)
  /\ UNCHANGED <<vars, hook, request, failures, posted>>

\* deliverToWebhook: the receiver takes it, or refuses it, fails or is too slow.
Post(t) ==
  /\ t.step = "post"
  /\ posted' = posted \cup {t.event}
  /\ \/ Advance(t, "succeeded") /\ UNCHANGED failures
     \/ Advance(t, "failed") /\ failures' = failures + 1
  /\ UNCHANGED <<vars, hook, request>>

\* Mutant of Failed: one failure too few.
FailedEarly(t) ==
  LET count == t.read + 1
  IN IF count >= MaxFailures - 1
     THEN [hook EXCEPT !.failureCount = count, !.active = FALSE, !.disabled = TRUE]
     ELSE [hook EXCEPT !.failureCount = count]

\* One more failure than the task had read; disabled is a history of who switched it off.
Failed(t) ==
  LET count == t.read + 1
  IN IF count >= MaxFailures
     THEN [hook EXCEPT !.failureCount = count, !.active = FALSE, !.disabled = TRUE]
     ELSE [hook EXCEPT !.failureCount = count]

\* The update by id; an error of it is ignored.
Record(t) ==
  /\ t.step \in {"succeeded", "failed"}
  /\ \/ hook' = (IF t.step = "failed" THEN Failed(t) ELSE [hook EXCEPT !.failureCount = 0])
        /\ UNCHANGED faults
     \/ Fault /\ UNCHANGED hook
  /\ Finish(t)
  /\ UNCHANGED <<streamVars, pel, acked, loop, loopVars, batch, runs, unseen, request,
                 failures, posted>>

\* Both requests first look the row up, and end there if it is deleted.
Lookup(r) ==
  /\ request[r] = "new"
  /\ request' = [request EXCEPT ![r] = IF hook.deleted THEN "done" ELSE "found"]
  /\ UNCHANGED <<vars, hook, tasks, failures, posted>>

\* PATCH /developer/webhooks/:id with active; the failure count stays.
Patch(r) ==
  /\ request[r] = "found"
  /\ \E b \in BOOLEAN : hook' = [hook EXCEPT !.active = b]
  /\ request' = [request EXCEPT ![r] = "done"]
  /\ UNCHANGED <<vars, tasks, failures, posted>>

\* DELETE /developer/webhooks/:id
Delete(r) ==
  /\ request[r] = "found"
  /\ hook' = [hook EXCEPT !.deleted = TRUE, !.active = FALSE]
  /\ request' = [request EXCEPT ![r] = "done"]
  /\ UNCHANGED <<vars, tasks, failures, posted>>

TaskStep(t) == Find(t) \/ Post(t) \/ Record(t)

WebhookNext ==
  \/ StreamStep
  \/ \E p \in Processes : StartDelivery(p) \/ Die(p)
  \/ \E t \in tasks : TaskStep(t)
  \/ \E r \in Requests : Lookup(r) \/ Patch(r) \/ Delete(r)

WebhookSpec == WebhookInit /\ [][WebhookNext]_allVars

\* As in the stream; a running delivery goes on, for its post ends at the latest by the timeout.
LoopStep(p) == StartDelivery(p) \/ (Loop(p) /\ ~Dispatch(p) /\ UNCHANGED hookVars)
WebhookFair ==
  /\ WebhookSpec
  /\ \A p \in Processes : WF_allVars(LoopStep(p))
  /\ WF_allVars(\E t \in tasks : TaskStep(t))
-----------------------------------------------------------------------------
WebhookTypeOK ==
  /\ TypeOK
  /\ hook \in [active : BOOLEAN, deleted : BOOLEAN, failureCount : 0 .. failures,
               disabled : BOOLEAN]
  /\ tasks \subseteq [event : Ids, at : Processes, run : Nat,
                      step : {"find", "post", "succeeded", "failed"}, read : 0 .. failures]
  /\ request \in [Requests -> {"new", "found", "done"}]
  /\ posted \subseteq Ids

\* However the deliveries overlap, the dispatcher gives a hook up only after MaxFailures posts
\* to it have failed: the counts they read and write back never run ahead of the failures.
DisabledEarned == hook.disabled => failures >= MaxFailures

\* An event published while the group exists is posted to the hook, unless something fails or
\* the hook is off at some moment.
EventPosted ==
  \A i \in Ids :
    group # NoGroup /\ group < i /\ i <= added ~> i \in posted \/ faults > 0 \/ ~hook.active
=============================================================================
