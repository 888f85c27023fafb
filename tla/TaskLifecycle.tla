---------------------------- MODULE TaskLifecycle ----------------------------
(***************************************************************************)
(* The life of a one-shot ("now") task in the krypton scheduler, from the  *)
(* request handler to the device's response.                               *)
(*                                                                         *)
(*  - Schedule (scheduler/api.go) stores the task row, then the            *)
(*    consignment row, then puts a ServiceMessage on the SQS dispatch      *)
(*    queue; any of the three may fail and leave the earlier ones behind.  *)
(*  - The dispatch worker of every replica (sqs_provider/dispatch_queue.go)*)
(*    receives one message, publishes it to the broker, marks the task     *)
(*    dispatched and deletes the message; a failure at any step leaves the *)
(*    message to come back after its visibility timeout.                   *)
(*  - A device answers on v1/@cloud/task_responses; the task response      *)
(*    handler of a replica (scheduler/task_response.go) looks the task up, *)
(*    checks the token's tenant and service against it, writes the status  *)
(*    to the task row and then to the consignment row, and forwards the    *)
(*    response to the originating service's queue.                         *)
(*  - DELETE /api/v1/tasks/{id} (db/remove_task.go) deletes the task row.  *)
(*                                                                         *)
(* Rows of the Cassandra tables are modelled with CQL semantics: UPDATE is *)
(* an upsert, so a status write to a deleted row creates a row holding     *)
(* only the key and the status.                                            *)
(***************************************************************************)
EXTENDS Naturals, FiniteSets

CONSTANTS
    Tasks,        \* task IDs (the TimeUUIDs CreateTask will issue)
    Replicas,     \* scheduler processes sharing the queues and subscription
    Tenants,      \* tenant IDs
    Services,     \* registered service IDs
    MaxFailures,  \* bound on transient SQS/DB/broker failures and timeouts
    NoRow,        \* an absent table row
    NoValue,      \* an unset column or an unset history entry
    NoTask        \* a worker or handler holding nothing

ASSUME MaxFailures \in Nat

VARIABLES
    tasks,         \* tasks table: task ID -> row
    consignments,  \* consignments table: task ID -> status column or NoRow
    requested,     \* history: the tenant and service a task was requested for
    dq,            \* the task's message on the dispatch queue
    receipt,       \* receipt-handle generation of the message (one per receive)
    wpc, wtask, wreceipt,  \* dispatch worker of each replica
    published,     \* number of times each task was published to the broker
    sent,          \* history: every response a device published
    inbox,         \* responses on the shared subscription not yet handled
    hpc, hresp,    \* task response handler of each replica
    events,        \* DeviceEvents sent to the services' queues
    removed,       \* history: tasks the REST API has deleted
    failures       \* transient failures so far

vars == <<tasks, consignments, requested, dq, receipt, wpc, wtask, wreceipt,
          published, sent, inbox, hpc, hresp, events, removed, failures>>

-----------------------------------------------------------------------------
(* Data                                                                    *)

\* db.TaskStatus values a row can hold (pending retry and unknown are never
\* written by the code).
Status == {"queued", "dispatched", "completed", "failed"}

\* What a device may put in the task_status field of its response.
DeviceStatus == {"complete", "failed", "bogus"}

Row == [status : Status, tenant : Tenants \cup {NoValue},
        svc : Services \cup {NoValue}]

Response == [task : Tasks, tenant : Tenants, svc : Services,
             status : DeviceStatus]

Event == [task : Tasks, tenant : Tenants, svc : Services,
          status : DeviceStatus]

\* The row CreateTask inserts: status queued, tenant and service of the request.
NewTaskRow(tn, sv) == [status |-> "queued", tenant |-> tn, svc |-> sv]

\* UPDATE tasks SET status=? WHERE device_id=? AND task_id=? : an upsert.
SetTaskStatus(row, st) ==
    IF row = NoRow
    THEN [status |-> st, tenant |-> NoValue, svc |-> NoValue]
    ELSE [row EXCEPT !.status = st]

\* Mutant: the tenant comparison of task_response.go is dropped.
ClaimsMatchServiceOnly(row, m) == row.svc = m.svc

\* The token's management service and tenant claims must equal the task's.
ClaimsMatch(row, m) == row.svc = m.svc /\ row.tenant = m.tenant

\* Mutant: the device's status string is stored as it was sent.
ResponseStatusVerbatim(s) == s

\* The switch on strings.ToLower(message.TaskStatus); "success" and "error"
\* are spellings of "complete" and "failed" and are not modelled apart.
ResponseStatus(s) ==
    CASE s = "complete" -> "completed"
      [] s = "failed"   -> "failed"
      [] OTHER          -> NoValue

Fail == failures < MaxFailures /\ failures' = failures + 1

-----------------------------------------------------------------------------
Init ==
    /\ tasks = [t \in Tasks |-> NoRow]
    /\ consignments = [t \in Tasks |-> NoRow]
    /\ requested = [t \in Tasks |-> NoValue]
    /\ dq = [t \in Tasks |-> "none"]
    /\ receipt = [t \in Tasks |-> 0]
    /\ wpc = [r \in Replicas |-> "idle"]
    /\ wtask = [r \in Replicas |-> NoTask]
    /\ wreceipt = [r \in Replicas |-> 0]
    /\ published = [t \in Tasks |-> 0]
    /\ sent = {}
    /\ inbox = {}
    /\ hpc = [r \in Replicas |-> "idle"]
    /\ hresp = [r \in Replicas |-> NoTask]
    /\ events = {}
    /\ removed = [t \in Tasks |-> FALSE]
    /\ failures = 0

-----------------------------------------------------------------------------
(* Request handler: ScheduledTask.Schedule for unit Once                   *)

workerVars == <<wpc, wtask, wreceipt>>
handlerVars == <<hpc, hresp>>
deviceVars == <<published, sent, inbox, events>>

\* CreateTask inserts the task row, then the consignment row (copying the
\* status); Schedule then sends the task to the dispatch queue.  The three
\* writes stop at the first one that fails.
Schedule(t, tn, sv) ==
    /\ requested[t] = NoValue
    /\ requested' = [requested EXCEPT ![t] = [tenant |-> tn, svc |-> sv]]
    /\ \/ UNCHANGED <<tasks, consignments, dq>>                \* insert fails
       \/ /\ tasks' = [tasks EXCEPT ![t] = NewTaskRow(tn, sv)]
          /\ \/ UNCHANGED <<consignments, dq>>                 \* consignment fails
             \/ /\ consignments' = [consignments EXCEPT ![t] = "queued"]
                /\ \/ UNCHANGED dq                             \* SendMessage fails
                   \/ dq' = [dq EXCEPT ![t] = "visible"]
    /\ UNCHANGED <<receipt, workerVars, deviceVars, handlerVars, removed,
                   failures>>

-----------------------------------------------------------------------------
(* Dispatch worker: processSchedulerDispatchRequest, one per replica       *)

\* Release the worker, leaving the message in flight: the early returns.
WorkerGivesUp(r) ==
    /\ wpc' = [wpc EXCEPT ![r] = "idle"]
    /\ wtask' = [wtask EXCEPT ![r] = NoTask]
    /\ UNCHANGED wreceipt

\* ReceiveMessage with MaxNumberOfMessages 1 and a 60 s visibility timeout.
ReceiveDispatchQueueMessage(r) ==
    /\ wpc[r] = "idle"
    /\ \E t \in Tasks :
        /\ dq[t] = "visible"
        /\ dq' = [dq EXCEPT ![t] = "inflight"]
        /\ receipt' = [receipt EXCEPT ![t] = @ + 1]
        /\ wpc' = [wpc EXCEPT ![r] = "publish"]
        /\ wtask' = [wtask EXCEPT ![r] = t]
        /\ wreceipt' = [wreceipt EXCEPT ![r] = receipt[t] + 1]
    /\ UNCHANGED <<tasks, consignments, requested, deviceVars, handlerVars,
                   removed, failures>>

\* SendTaskToBroker succeeds: the payload goes out on the device's topic.
SendTaskToBroker(r) ==
    /\ wpc[r] = "publish"
    /\ published' = [published EXCEPT ![wtask[r]] = @ + 1]
    /\ wpc' = [wpc EXCEPT ![r] = "mark"]
    /\ UNCHANGED <<tasks, consignments, requested, dq, receipt, wtask,
                   wreceipt, sent, inbox, events, handlerVars, removed,
                   failures>>

\* Mutant: the failed publish deletes the message, as the input queue's
\* consumer does on a handler error.
PublishFailedDeletes(r) ==
    /\ wpc[r] = "publish"
    /\ Fail
    /\ dq' = [dq EXCEPT ![wtask[r]] = "deleted"]
    /\ WorkerGivesUp(r)
    /\ UNCHANGED <<tasks, consignments, requested, receipt, deviceVars,
                   handlerVars, removed>>

\* SendTaskToBroker fails (context cancelled, no connection within 5 s, or
\* the publish errors): the worker returns and the message stays in flight.
PublishFailed(r) ==
    /\ wpc[r] = "publish"
    /\ Fail
    /\ WorkerGivesUp(r)
    /\ UNCHANGED <<tasks, consignments, requested, dq, receipt, deviceVars,
                   handlerVars, removed>>

\* db.MarkTaskDispatched: setTaskStatus on the task row only.
MarkTaskDispatched(r) ==
    /\ wpc[r] = "mark"
    /\ \/ /\ tasks' = [tasks EXCEPT ![wtask[r]] =
                          SetTaskStatus(@, "dispatched")]
          /\ wpc' = [wpc EXCEPT ![r] = "delete"]
          /\ UNCHANGED <<wtask, wreceipt, failures>>
       \/ /\ Fail
          /\ WorkerGivesUp(r)
          /\ UNCHANGED tasks
    /\ UNCHANGED <<consignments, requested, dq, receipt, deviceVars,
                   handlerVars, removed>>

\* DeleteMessage with the worker's receipt handle.  With the latest handle
\* the message is deleted; with a stale one (the message was received again
\* after its visibility timeout) SQS may or may not delete it.
DeleteMessage(r) ==
    /\ wpc[r] = "delete"
    /\ LET t == wtask[r] IN
       \/ /\ wreceipt[r] = receipt[t]
          /\ dq' = [dq EXCEPT ![t] = "deleted"]
          /\ UNCHANGED failures
       \/ /\ wreceipt[r] # receipt[t]
          /\ dq' \in {dq, [dq EXCEPT ![t] = "deleted"]}
          /\ UNCHANGED failures
       \/ /\ Fail
          /\ UNCHANGED dq
    /\ WorkerGivesUp(r)
    /\ UNCHANGED <<tasks, consignments, requested, receipt, deviceVars,
                   handlerVars, removed>>

\* The visibility timeout of a message still held by a slow worker expires
\* (a database call may take up to the 60 s session timeout).
VisibilityTimeout(t) ==
    /\ dq[t] = "inflight"
    /\ \E r \in Replicas : wtask[r] = t
    /\ Fail
    /\ dq' = [dq EXCEPT ![t] = "visible"]
    /\ UNCHANGED <<tasks, consignments, requested, receipt, workerVars,
                   deviceVars, handlerVars, removed>>

\* A message no worker holds becomes visible again when its timeout expires.
MessageReappears(t) ==
    /\ dq[t] = "inflight"
    /\ \A r \in Replicas : wtask[r] # t
    /\ dq' = [dq EXCEPT ![t] = "visible"]
    /\ UNCHANGED <<tasks, consignments, requested, receipt, workerVars,
                   deviceVars, handlerVars, removed, failures>>

-----------------------------------------------------------------------------
(* Device                                                                  *)

\* A device that received the task answers once per publish it received,
\* presenting a token whose tenant and service claims may differ from the
\* ones the requester stored with the task.
DeviceResponds(t, st, tn, sv) ==
    LET m == [task |-> t, tenant |-> tn, svc |-> sv, status |-> st] IN
    /\ Cardinality({x \in sent : x.task = t}) < published[t]
    /\ m \notin sent
    /\ sent' = sent \cup {m}
    /\ inbox' = inbox \cup {m}
    /\ UNCHANGED <<tasks, consignments, requested, dq, receipt, workerVars,
                   published, events, handlerVars, removed, failures>>

-----------------------------------------------------------------------------
(* Task response handler: handleTaskResponseMessage, one per replica       *)

\* The handler of replica r takes a response.  GetTaskByID(task, subject)
\* must find a row whose service and tenant match the token's claims, and
\* the reported status must be one the switch knows; otherwise the
\* response is dropped with an error.
ReceiveTaskResponse(r) ==
    /\ hpc[r] = "idle"
    /\ \E m \in inbox :
        /\ inbox' = inbox \ {m}
        /\ IF /\ tasks[m.task] # NoRow
              /\ ClaimsMatch(tasks[m.task], m)
              /\ ResponseStatus(m.status) # NoValue
           THEN /\ hpc' = [hpc EXCEPT ![r] = "task"]
                /\ hresp' = [hresp EXCEPT ![r] = m]
           ELSE UNCHANGED handlerVars
    /\ UNCHANGED <<tasks, consignments, requested, dq, receipt, workerVars,
                   published, sent, events, removed, failures>>

\* UpdateTaskStatus, first write: setTaskStatus.  On failure the consignment
\* write is skipped, but the handler only logs and goes on to forward.
UpdateTaskRow(r) ==
    /\ hpc[r] = "task"
    /\ LET m == hresp[r] IN
       \/ /\ tasks' = [tasks EXCEPT ![m.task] =
                          SetTaskStatus(@, ResponseStatus(m.status))]
          /\ hpc' = [hpc EXCEPT ![r] = "consignment"]
          /\ UNCHANGED failures
       \/ /\ Fail
          /\ UNCHANGED tasks
          /\ hpc' = [hpc EXCEPT ![r] = "forward"]
    /\ UNCHANGED <<consignments, requested, dq, receipt, workerVars,
                   deviceVars, hresp, removed>>

\* UpdateTaskStatus, second write: UpdateConsignmentTaskStatus (an upsert).
UpdateConsignmentRow(r) ==
    /\ hpc[r] = "consignment"
    /\ LET m == hresp[r] IN
       \/ /\ consignments' = [consignments EXCEPT ![m.task] =
                                 ResponseStatus(m.status)]
          /\ UNCHANGED failures
       \/ /\ Fail
          /\ UNCHANGED consignments
    /\ hpc' = [hpc EXCEPT ![r] = "forward"]
    /\ UNCHANGED <<tasks, requested, dq, receipt, workerVars, deviceVars,
                   hresp, removed>>

\* The response is re-encoded as a DeviceEvent carrying the token's claims
\* and sent to the service's queue; SendMessage may fail.
ForwardToService(r) ==
    /\ hpc[r] = "forward"
    /\ LET m == hresp[r] IN
       \/ /\ events' = events \cup {m}
          /\ UNCHANGED failures
       \/ /\ Fail
          /\ UNCHANGED events
    /\ hpc' = [hpc EXCEPT ![r] = "idle"]
    /\ hresp' = [hresp EXCEPT ![r] = NoTask]
    /\ UNCHANGED <<tasks, consignments, requested, dq, receipt, workerVars,
                   published, sent, inbox, removed>>

-----------------------------------------------------------------------------
(* REST DELETE /api/v1/tasks/{task_id}                                     *)

\* Task.RemoveTask deletes the task row; the consignment row and any
\* dispatch message stay.
RemoveTask(t) ==
    /\ requested[t] # NoValue
    /\ ~removed[t]
    /\ tasks' = [tasks EXCEPT ![t] = NoRow]
    /\ removed' = [removed EXCEPT ![t] = TRUE]
    /\ UNCHANGED <<consignments, requested, dq, receipt, workerVars,
                   deviceVars, handlerVars, failures>>

-----------------------------------------------------------------------------
WorkerStep(r) ==
    \/ ReceiveDispatchQueueMessage(r)
    \/ SendTaskToBroker(r)
    \/ PublishFailed(r)
    \/ MarkTaskDispatched(r)
    \/ DeleteMessage(r)

HandlerStep(r) ==
    \/ ReceiveTaskResponse(r)
    \/ UpdateTaskRow(r)
    \/ UpdateConsignmentRow(r)
    \/ ForwardToService(r)

Next ==
    \/ \E t \in Tasks, tn \in Tenants, sv \in Services : Schedule(t, tn, sv)
    \/ \E r \in Replicas : WorkerStep(r) \/ HandlerStep(r)
    \/ \E t \in Tasks : VisibilityTimeout(t) \/ MessageReappears(t)
    \/ \E t \in Tasks, st \in DeviceStatus, tn \in Tenants, sv \in Services :
          DeviceResponds(t, st, tn, sv)
    \/ \E t \in Tasks : RemoveTask(t)

\* Each replica's dispatch watcher and MQTT handler loop forever, and SQS
\* returns an unheld message after its visibility timeout.  Requests,
\* device answers and deletions come from outside and need not happen.
Fairness ==
    /\ \A r \in Replicas : WF_vars(WorkerStep(r)) /\ WF_vars(HandlerStep(r))
    /\ \A t \in Tasks : WF_vars(MessageReappears(t))

Spec == Init /\ [][Next]_vars /\ Fairness

-----------------------------------------------------------------------------
(* Properties                                                              *)

TypeOK ==
    /\ tasks \in [Tasks -> Row \cup {NoRow}]
    /\ consignments \in [Tasks -> Status \cup {NoRow}]
    /\ requested \in [Tasks -> [tenant : Tenants, svc : Services] \cup {NoValue}]
    /\ dq \in [Tasks -> {"none", "visible", "inflight", "deleted"}]
    /\ receipt \in [Tasks -> Nat]
    /\ wpc \in [Replicas -> {"idle", "publish", "mark", "delete"}]
    /\ wtask \in [Replicas -> Tasks \cup {NoTask}]
    /\ wreceipt \in [Replicas -> Nat]
    /\ published \in [Tasks -> Nat]
    /\ sent \subseteq Response
    /\ inbox \subseteq sent
    /\ hpc \in [Replicas -> {"idle", "task", "consignment", "forward"}]
    /\ hresp \in [Replicas -> Response \cup {NoTask}]
    /\ events \subseteq Event
    /\ removed \in [Tasks -> BOOLEAN]
    /\ failures \in 0..MaxFailures

\* Token authority (spec P6, task_response.go): a response whose token's
\* tenant or management service differs from the task it names never
\* reaches the service's queue, and never sets the task's final status.
\* Several actors are involved: the requester fixes the task's tenant and
\* service, the device picks its token, and a handler of any replica may
\* act on a row that was deleted or rewritten in between.
TokenAuthority ==
    /\ \A e \in events :
          /\ requested[e.task] # NoValue
          /\ e.tenant = requested[e.task].tenant
          /\ e.svc = requested[e.task].svc
    /\ \A t \in Tasks :
          tasks[t] # NoRow /\ tasks[t].status \in {"completed", "failed"} =>
             \E m \in sent :
                /\ m.task = t
                /\ m.tenant = requested[t].tenant
                /\ m.svc = requested[t].svc
                /\ ResponseStatus(m.status) = tasks[t].status

\* The dispatch queue, seen through the tasks on it and the tasks the
\* broker has received, is an at-least-once queue (spec section 4.5).
DispatchQueue == INSTANCE AtLeastOnceQueue WITH
    Msgs <- Tasks,
    pending <- {t \in Tasks : dq[t] \in {"visible", "inflight"}},
    delivered <- {t \in Tasks : published[t] > 0}

DispatchQueueRefinement == DispatchQueue!Spec

\* The order of queued -> dispatched -> {completed | failed}.
StatusRank(s) == IF s = "queued" THEN 0 ELSE IF s = "dispatched" THEN 1 ELSE 2

\* Spec P2 and P3: the final status the task-response handler writes
\* stands.  Once a task row is completed or failed, no step moves it back
\* to queued or dispatched.  This is about the dispatch worker's
\* MarkTaskDispatched, written after the publish with no condition on the
\* current status, landing after another replica's handler recorded the
\* device's answer.
FinalStatusStands ==
    [][\A t \in Tasks :
         tasks[t] # NoRow /\ tasks'[t] # NoRow =>
            StatusRank(tasks'[t].status) >= StatusRank(tasks[t].status)]_tasks

=============================================================================
