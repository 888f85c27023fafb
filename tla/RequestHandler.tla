--------------------------- MODULE RequestHandler ---------------------------
(***************************************************************************)
(* The scheduler input queue and the request handler behind it.  Every     *)
(* replica runs WatchInputQueue (queuemgr/sqs_provider/input_queue.go):    *)
(* it receives one request message with a 60 s visibility timeout, decodes *)
(* it, calls handleSchedulerInputQueueRequest (scheduler/request_handler.go)*)
(* and deletes the message whether the handler succeeded or not.  The      *)
(* handler validates the request, then for each device builds a task,     *)
(* parses the schedule and calls Schedule(): the parsing and the checks of *)
(* Schedule() are ScheduleGrammar's operators, so each device step sets    *)
(* ScheduleGrammar's input, task and outcome.  The writes Schedule() makes *)
(* are modelled in TaskLifecycle and SchedulerDaemon; here a store either  *)
(* succeeds or fails as a whole.                                           *)
(*                                                                         *)
(* CreateTaskHandler (rest/create_task.go) calls the same handler for a    *)
(* POST, with source "rest", and answers the caller instead of deleting a  *)
(* message.  A behaviour starts with one request, either on the queue or   *)
(* posted to the REST endpoint.                                            *)
(***************************************************************************)
EXTENDS ScheduleGrammar, FiniteSets

CONSTANTS
    Replicas,             \* scheduler processes watching the input queue
    Requests,             \* the decoded requests a message may carry
    Tenants,              \* tenant IDs that parse as UUIDs
    RegisteredServices,   \* the keys of serviceConfigTable
    BroadcastDeviceID,    \* common.BroadcastDeviceID, "@all"
    BroadcastDeviceUuid,  \* common.BroadcastDeviceUuid, the reserved UUID
    RestCaller,           \* the REST front end's goroutine for one POST
    MaxFailures,          \* bound on SQS and database failures and timeouts
    MaxReceives           \* bound on the receives of the message

VARIABLES
    msg,        \* the request the message carries
    mq,         \* the message: "none", "visible", "inflight" or "deleted"
    receipt,    \* receipt-handle generation (one per receive)
    ipc,        \* input watcher: "idle", "handle", "device" or "delete";
                \* REST caller: "idle", "post", "handle", "device" or "done"
    ircpt,      \* the receipt handle a watcher holds
    idx,        \* index of the next device in request.DeviceIds (1-based)
    itenant,    \* request.TenantId after the broadcast rewrite
    created,    \* tasks Schedule() stored: [device, tenant] columns
    failures

allVars == <<input, task, outcome, msg, mq, receipt, ipc, ircpt, idx, itenant,
             created, failures>>

Callers == Replicas \cup {RestCaller}

Fail == failures < MaxFailures /\ failures' = failures + 1

\* setUuidFromString in db.NewTask: "@all" is stored as the reserved UUID.
DeviceColumn(d) == IF d = BroadcastDeviceID THEN BroadcastDeviceUuid ELSE d

\* The early returns of handleSchedulerInputQueueRequest, in the code's
\* order (the source is always "event" on this path).
RequestValid(q) ==
    /\ q.svc \in RegisteredServices
    /\ q.cons
    /\ q.devices # <<>>
    /\ IF q.devices[1] = BroadcastDeviceID
       THEN Len(q.devices) = 1
       ELSE q.tenant \in Tenants
    /\ q.payload

\* For broadcast task requests the tenant ID is rewritten.
TenantAfterRewrite(q) ==
    IF q.devices[1] = BroadcastDeviceID THEN BroadcastDeviceUuid ELSE q.tenant

HInit ==
    /\ input = <<>> /\ task = Blank /\ outcome = "none"
    /\ msg \in Requests /\ receipt = 0
    /\ \/ mq = "visible" /\ ipc = [c \in Callers |-> "idle"]
       \/ mq = "none"
          /\ ipc = [c \in Callers |-> IF c = RestCaller THEN "post" ELSE "idle"]
    /\ ircpt = [r \in Replicas |-> 0]
    /\ idx = [c \in Callers |-> 1]
    /\ itenant = [c \in Callers |-> msg.tenant]
    /\ created = {} /\ failures = 0

-----------------------------------------------------------------------------
(* processSchedulerInputQueueMessage, one per replica                      *)

\* receiveInputQueueMessage: a message that does not decode is deleted
\* at once (disposeBadInputQueueRequest); otherwise the handler runs.
ReceiveInputQueueMessage(r) ==
    /\ ipc[r] = "idle" /\ mq = "visible" /\ receipt < MaxReceives
    /\ mq' = "inflight" /\ receipt' = receipt + 1
    /\ ircpt' = [ircpt EXCEPT ![r] = receipt + 1]
    /\ ipc' = [ipc EXCEPT ![r] = IF msg.decodes THEN "handle" ELSE "delete"]
    /\ UNCHANGED <<input, task, outcome, msg, idx, itenant, created, failures>>

\* What a caller does once the handler has returned: the watcher deletes
\* the message, the REST handler writes its response.
Finish(c) == IF c = RestCaller THEN "done" ELSE "delete"

AfterHandler(ok, c) == IF ok THEN "device" ELSE Finish(c)

\* CreateTaskHandler's checks before it calls the handler: protobuf content
\* type and a valid app token, a body that unmarshals, a non-nil payload.
\* A failed check answers 4xx.
CreateTaskHandler ==
    /\ ipc[RestCaller] = "post"
    /\ ipc' = [ipc EXCEPT ![RestCaller] =
                 IF msg.authorized /\ msg.decodes /\ msg.payload
                 THEN "handle" ELSE "done"]
    /\ UNCHANGED <<input, task, outcome, msg, mq, receipt, ircpt, idx, itenant,
                   created, failures>>

\* The handler's validation; an invalid request returns ErrInvalidRequest.
HandleRequest(c) ==
    /\ ipc[c] = "handle"
    /\ ipc' = [ipc EXCEPT ![c] = AfterHandler(RequestValid(msg), c)]
    /\ idx' = [idx EXCEPT ![c] = 1]
    /\ itenant' = [itenant EXCEPT ![c] =
                     IF RequestValid(msg) THEN TenantAfterRewrite(msg) ELSE @]
    /\ UNCHANGED <<input, task, outcome, msg, mq, receipt, ircpt, created,
                   failures>>

\* One iteration of the loop over request.DeviceIds.  A broadcast ID after
\* the first is skipped.  Otherwise NewScheduledTask(...).ParseSchedule(
\* request.Schedule).Schedule(): a rejected schedule or a failed store is
\* an error count; a stored task keeps the device and tenant columns.
ScheduleDevice(c, tod) ==
    LET d    == msg.devices[idx[c]]
        last == idx[c] = Len(msg.devices)
    IN
    /\ ipc[c] = "device"
    /\ \/ /\ idx[c] # 1 /\ d = BroadcastDeviceID
          /\ UNCHANGED <<input, task, outcome, created, failures>>
       \/ /\ ~(idx[c] # 1 /\ d = BroadcastDeviceID)
          /\ HandleSchedule(msg.schedule, tod)
          /\ \/ /\ outcome' = "rejected"
                /\ UNCHANGED <<created, failures>>
             \/ /\ outcome' # "rejected"
                /\ created' = created \cup
                       {[device |-> DeviceColumn(d), tenant |-> itenant[c]]}
                /\ UNCHANGED failures
             \/ /\ outcome' # "rejected" /\ Fail
                /\ UNCHANGED created
    /\ idx' = [idx EXCEPT ![c] = IF last THEN @ ELSE @ + 1]
    /\ ipc' = [ipc EXCEPT ![c] = IF last THEN Finish(c) ELSE "device"]
    /\ UNCHANGED <<msg, mq, receipt, ircpt, itenant>>

\* deleteMessage with the watcher's receipt handle: the latest handle
\* deletes; a stale one (the message was received again after its
\* visibility timeout) may or may not; a failed delete is only logged.
DeleteInputMessage(r) ==
    /\ ipc[r] = "delete"
    /\ \/ ircpt[r] = receipt /\ mq' = "deleted" /\ UNCHANGED failures
       \/ ircpt[r] # receipt /\ mq' \in {mq, "deleted"} /\ UNCHANGED failures
       \/ Fail /\ UNCHANGED mq
    /\ ipc' = [ipc EXCEPT ![r] = "idle"]
    /\ UNCHANGED <<input, task, outcome, msg, receipt, ircpt, idx, itenant,
                   created>>

\* The message's visibility timeout expires while a watcher still handles
\* it (one Schedule() per device, each up to the database timeout).
VisibilityTimeout ==
    /\ mq = "inflight" /\ \E r \in Replicas : ipc[r] # "idle"
    /\ Fail
    /\ mq' = "visible"
    /\ UNCHANGED <<input, task, outcome, msg, receipt, ipc, ircpt, idx,
                   itenant, created>>

\* A message no watcher holds becomes visible again after its timeout.
MessageReappears ==
    /\ mq = "inflight" /\ \A r \in Replicas : ipc[r] = "idle"
    /\ mq' = "visible"
    /\ UNCHANGED <<input, task, outcome, msg, receipt, ipc, ircpt, idx,
                   itenant, created, failures>>

WatcherStep(r) ==
    \/ ReceiveInputQueueMessage(r)
    \/ HandleRequest(r)
    \/ \E tod \in TimesOfDay : ScheduleDevice(r, tod)
    \/ DeleteInputMessage(r)

\* The REST front end runs one goroutine per request.
RestStep ==
    \/ CreateTaskHandler
    \/ HandleRequest(RestCaller)
    \/ \E tod \in TimesOfDay : ScheduleDevice(RestCaller, tod)

HNext ==
    \/ \E r \in Replicas : WatcherStep(r)
    \/ RestStep
    \/ VisibilityTimeout
    \/ MessageReappears

\* Every replica's WatchInputQueue loops until shutdown, and SQS returns an
\* unheld message after its visibility timeout.
HSpec ==
    /\ HInit /\ [][HNext]_allVars
    /\ \A r \in Replicas : WF_allVars(WatcherStep(r))
    /\ WF_allVars(RestStep) /\ WF_allVars(MessageReappears)

-----------------------------------------------------------------------------
HandlerTypeOK ==
    /\ TypeOK
    /\ msg \in Requests /\ mq \in {"none", "visible", "inflight", "deleted"}
    /\ receipt \in 0..MaxReceives /\ ircpt \in [Replicas -> 0..receipt]
    /\ ipc \in [Callers -> {"idle", "post", "handle", "device", "delete", "done"}]
    /\ \A c \in Callers : ipc[c] = "device" => idx[c] \in 1..Len(msg.devices)
    /\ created \subseteq [device : Range(msg.devices) \cup {BroadcastDeviceUuid},
                          tenant : Tenants \cup {msg.tenant, BroadcastDeviceUuid}]
    /\ failures \in 0..MaxFailures

MixedBroadcastRejected ==
    \A x, y \in created :
        x.device = BroadcastDeviceUuid => y.device = BroadcastDeviceUuid

=============================================================================
