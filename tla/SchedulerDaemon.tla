--------------------------- MODULE SchedulerDaemon ---------------------------
(***************************************************************************)
(* Recurring tasks and the scheduler daemon (scheduler/daemon.go).         *)
(*                                                                         *)
(* Schedule stores a recurring task and a scheduled run with next_run set  *)
(* to the current time, in the partition of that day.  Every quantum       *)
(* (one minute) the daemon computes today's partition and pages through    *)
(* it, 100 rows at a time, enqueueing the task of every row it finds.      *)
(*                                                                         *)
(* Time is counted in quanta; a quantum holds InstantsPerQuantum distinct  *)
(* timestamps, so a run's next_run is a number now * InstantsPerQuantum + i *)
(* and the rows of a partition are ordered by it, as the table's           *)
(* clustering key next_run orders them.  The key of a row is               *)
(* (run_partition, next_run): an INSERT with an existing key overwrites.   *)
(***************************************************************************)
EXTENDS Naturals, FiniteSets, FiniteSetsExt

CONSTANTS
    Tasks,               \* recurring task IDs
    PageSize,            \* itemsPerPage (100 in the code)
    QuantaPerDay,        \* quanta from one midnight to the next
    InstantsPerQuantum,  \* distinct next_run timestamps within a quantum
    MaxTime,             \* last quantum the clock reaches
    MaxFailures,         \* bound on transient database and SQS failures
    NoRow                \* an empty key of the scheduled_runs table

ASSUME /\ PageSize \in Nat \ {0}
       /\ QuantaPerDay \in Nat \ {0}
       /\ InstantsPerQuantum \in Nat \ {0}
       /\ MaxTime \in Nat /\ MaxFailures \in Nat

\* next_run values and their partitions (GetRunPartition formats the date).
Slots == 0 .. ((MaxTime + 1) * InstantsPerQuantum - 1)
Quantum(s) == s \div InstantsPerQuantum
Day(q) == q \div QuantaPerDay
GetRunPartition(s) == Day(Quantum(s))

\* The paging state for "no further page" (a nil or empty []byte).
NoPage == -1

VARIABLES
    now,         \* current quantum
    cancelled,   \* schedCtx has been cancelled
    taskRow,     \* tasks table: "none", "live" or "removed"
    runCreated,  \* history: Schedule stored the task's scheduled run
    runs,        \* scheduled_runs table: next_run -> task ID or NoRow
    dpc,         \* the daemon's position in runSchedulerDaemon
    part,        \* runPartition of the current scan
    nextPage,    \* paging state: next_run of the last row returned
    page,        \* rows of the current page not yet processed
    waitedAt,    \* quantum in which the daemon began to wait
    enqueued,    \* history: <<task, quantum>> sent to the dispatch queue
    failures,    \* transient failures so far
    scanInit,    \* history: rows in the partition when the scan began
    scanSeen     \* history: rows the scan's pages returned

vars == <<now, cancelled, taskRow, runCreated, runs, dpc, part, nextPage,
          page, waitedAt, enqueued, failures, scanInit, scanSeen>>

daemonVars == <<dpc, part, nextPage, page, waitedAt, scanInit, scanSeen>>
storeVars == <<taskRow, runCreated, runs>>

Fail == failures < MaxFailures /\ failures' = failures + 1

\* The rows of partition p with next_run after the paging state.
RowsAfter(p, cursor) ==
    {s \in Slots : runs[s] # NoRow /\ GetRunPartition(s) = p /\ s > cursor}

\* The first k of a set of next_run values, in clustering order.
FirstRows(R, k) == {s \in R : Cardinality({x \in R : x < s}) < k}

-----------------------------------------------------------------------------
Init ==
    /\ now = 0
    /\ cancelled = FALSE
    /\ taskRow = [t \in Tasks |-> "none"]
    /\ runCreated = [t \in Tasks |-> FALSE]
    /\ runs = [s \in Slots |-> NoRow]
    /\ dpc = "top"
    /\ part = 0
    /\ nextPage = NoPage
    /\ page = {}
    /\ waitedAt = 0
    /\ enqueued = {}
    /\ failures = 0
    /\ scanInit = {}
    /\ scanSeen = {}

\* The minute passes.
Tick ==
    /\ now < MaxTime
    /\ now' = now + 1
    /\ UNCHANGED <<cancelled, storeVars, daemonVars, enqueued, failures>>

\* ScheduledTask.Schedule for a recurring unit: CreateTask, then a
\* scheduled run with NextRun = time.Now(), stored by CreateScheduledRun
\* in the partition of that instant.  Either write may fail.  Requests come
\* before the last modelled quantum, so a later quantum always follows.
ScheduleRecurring(t, i) ==
    LET s == now * InstantsPerQuantum + i IN
    /\ now < MaxTime
    /\ taskRow[t] = "none"
    /\ \/ UNCHANGED <<taskRow, runCreated, runs, failures>>
       \/ /\ taskRow' = [taskRow EXCEPT ![t] = "live"]
          /\ \/ /\ Fail
                /\ UNCHANGED <<runCreated, runs>>
             \/ /\ runs' = [runs EXCEPT ![s] = t]
                /\ runCreated' = [runCreated EXCEPT ![t] = TRUE]
                /\ UNCHANGED failures
    /\ UNCHANGED <<now, cancelled, daemonVars, enqueued>>

\* Task.RemoveTask deletes the task row; its scheduled run stays.
RemoveTask(t) ==
    /\ taskRow[t] = "live"
    /\ taskRow' = [taskRow EXCEPT ![t] = "removed"]
    /\ UNCHANGED <<now, cancelled, runCreated, runs, daemonVars, enqueued,
                   failures>>

\* The service shuts down: schedCtx is cancelled.
Cancel ==
    /\ ~cancelled
    /\ cancelled' = TRUE
    /\ UNCHANGED <<now, storeVars, daemonVars, enqueued, failures>>

-----------------------------------------------------------------------------
(* runSchedulerDaemon                                                      *)

\* Top of the outer loop: stop if cancelled, else take today's partition.
StartScan ==
    /\ dpc = "top"
    /\ IF cancelled
       THEN /\ dpc' = "done"
            /\ UNCHANGED <<part, scanInit, scanSeen>>
       ELSE /\ dpc' = "fetch"
            /\ part' = Day(now)
            /\ scanInit' = RowsAfter(Day(now), NoPage)
            /\ scanSeen' = {}
    /\ UNCHANGED <<now, cancelled, storeVars, nextPage, page, waitedAt,
                   enqueued, failures>>

\* Mutant: an error leaves the paging state where it was.
NextPageOnErrorKept == nextPage

\* GetScheduledRuns returns nil, nil, err, and the loop assigns all three.
NextPageOnError == NoPage

\* Mutant: the query is issued without query.PageState(startPage).
PageStartIgnored == NoPage

\* query.PageState(startPage): the query resumes after the paging state.
PageStart == nextPage

\* iter.PageState(): the position after the last row of the page.
NextPageAfter(P) == Max(P)

\* GetScheduledRuns(runPartition, nextPage): on an error it returns
\* nil, nil, err, so nextPage is reset and the daemon waits for the next
\* quantum.  Otherwise it returns the next PageSize rows after the paging
\* state, and a paging state that is empty when no row follows; when the
\* page is exactly full the driver may still return a non-empty state.
FetchPage ==
    /\ dpc = "fetch"
    /\ \/ /\ Fail
          /\ dpc' = "wait"
          /\ waitedAt' = now
          /\ nextPage' = NextPageOnError
          /\ UNCHANGED <<page, scanSeen>>
       \/ LET R == RowsAfter(part, PageStart)
              P == FirstRows(R, PageSize)
          IN /\ page' = {[slot |-> s, task |-> runs[s]] : s \in P}
             /\ scanSeen' = scanSeen \cup P
             /\ \E more \in IF Cardinality(R) = PageSize
                            THEN BOOLEAN ELSE {Cardinality(R) > PageSize} :
                   nextPage' = IF more THEN NextPageAfter(P) ELSE NoPage
             /\ dpc' = "items"
             /\ UNCHANGED <<waitedAt, failures>>
    /\ UNCHANGED <<now, cancelled, storeVars, part, scanInit, enqueued>>

\* Mutant: the scheduled-run row itself is encoded instead of its task.
MarshalRunItem(item) == item.slot

\* GetTaskByID(item.TaskID, item.DeviceID), then task.MarshalServiceMessage:
\* the dispatch message names the run's task.
MarshalServiceMessage(item) == item.task

\* One iteration of the loop over foundRuns, in next_run order: stop if
\* cancelled; GetTaskByID, then SendDispatchQueueMessage, each skipping the
\* item on an error (a removed task is "not found").
ProcessItem ==
    /\ dpc = "items"
    /\ page # {}
    /\ LET item == CHOOSE x \in page : \A y \in page : x.slot <= y.slot
           t == item.task
       IN IF cancelled
          THEN /\ dpc' = "done"
               /\ UNCHANGED <<page, enqueued, failures>>
          ELSE /\ page' = page \ {item}
               /\ \/ /\ taskRow[t] # "live"
                     /\ UNCHANGED <<enqueued, failures>>
                  \/ /\ taskRow[t] = "live"
                     /\ Fail
                     /\ UNCHANGED enqueued
                  \/ /\ taskRow[t] = "live"
                     /\ enqueued' = enqueued \cup
                           {<<MarshalServiceMessage(item), now>>}
                     /\ UNCHANGED failures
               /\ UNCHANGED dpc
    /\ UNCHANGED <<now, cancelled, storeVars, part, nextPage, waitedAt,
                   scanInit, scanSeen>>

\* The page is drained: fetch the next one, or wait when nextPage is empty.
EndPage ==
    /\ dpc = "items"
    /\ page = {}
    /\ IF nextPage = NoPage
       THEN dpc' = "wait" /\ waitedAt' = now
       ELSE dpc' = "fetch" /\ UNCHANGED waitedAt
    /\ UNCHANGED <<now, cancelled, storeVars, part, nextPage, page, enqueued,
                   failures, scanInit, scanSeen>>

\* select on time.After(schedulerExecutionQuantum) and schedCtx.Done().
\* Past the last modelled quantum the timer still fires; the model no longer
\* tells later quanta apart.
Wait ==
    /\ dpc = "wait"
    /\ \/ (now > waitedAt \/ now = MaxTime) /\ dpc' = "top"
       \/ cancelled /\ dpc' = "done"
    /\ UNCHANGED <<now, cancelled, storeVars, part, nextPage, page, waitedAt,
                   enqueued, failures, scanInit, scanSeen>>

DaemonStep == StartScan \/ FetchPage \/ ProcessItem \/ EndPage \/ Wait

Next ==
    \/ Tick
    \/ \E t \in Tasks, i \in 0 .. (InstantsPerQuantum - 1) :
          ScheduleRecurring(t, i)
    \/ \E t \in Tasks : RemoveTask(t)
    \/ Cancel
    \/ DaemonStep

\* The daemon is one goroutine that never blocks except in the select, and
\* the clock keeps moving.  Requests, removals and shutdown need not come.
Spec == Init /\ [][Next]_vars /\ WF_vars(DaemonStep) /\ WF_vars(Tick)

-----------------------------------------------------------------------------
(* Properties                                                              *)

TypeOK ==
    /\ now \in 0 .. MaxTime
    /\ cancelled \in BOOLEAN
    /\ taskRow \in [Tasks -> {"none", "live", "removed"}]
    /\ runCreated \in [Tasks -> BOOLEAN]
    /\ runs \in [Slots -> Tasks \cup {NoRow}]
    /\ dpc \in {"top", "fetch", "items", "wait", "done"}
    /\ part \in 0 .. Day(MaxTime)
    /\ nextPage \in Slots \cup {NoPage}
    /\ page \subseteq [slot : Slots, task : Tasks]
    /\ waitedAt \in 0 .. MaxTime
    /\ enqueued \subseteq Tasks \times (0 .. MaxTime)
    /\ failures \in 0 .. MaxFailures
    /\ scanInit \subseteq Slots /\ scanSeen \subseteq Slots

\* A scan that drains its last page (no database error) has returned every
\* row that was in today's partition when it began, whatever pages, paging
\* states, earlier failed scans and concurrent inserts came before.
ScanCoversPartition ==
    [][dpc = "items" /\ dpc' = "wait" => scanInit \subseteq scanSeen]_vars

\* Every scan ends: the paging loop of a quantum reaches its last page,
\* or an error, or cancellation, and the daemon waits or stops.
ScanTerminates == dpc = "fetch" ~> dpc \in {"wait", "done"}

\* Spec 4.3, with P1 and section 3 (one scheduled run per live recurring
\* task): the daemon enqueues every due run, so a recurring task whose run
\* was stored is eventually dispatched unless it is removed or the service
\* shuts down.  A run lost to a key collision or stored in a partition no
\* scan reads is never enqueued.
EveryRunEventuallyEnqueued ==
    \A t \in Tasks :
       runCreated[t] ~> \/ \E q \in 0 .. MaxTime : <<t, q>> \in enqueued
                        \/ taskRow[t] = "removed"
                        \/ cancelled

=============================================================================
