------------------------------ MODULE RestApi ------------------------------
(***************************************************************************)
(* The REST handlers that read or delete tasks (rest/get_task.go,          *)
(* rest/list_tasks.go, rest/remove_task.go), routed by rest/routes.go:      *)
(*   GET    /api/v1/tasks/{task_id}?device_id=                             *)
(*   GET    /api/v1/tasks?tenant_id=&consignment_id=                       *)
(*   DELETE /api/v1/tasks/{task_id}?device_id=                             *)
(* Each handler runs its checks in the code's order and then one store     *)
(* call; it keeps nothing between requests.  So a request's answer is an   *)
(* operator of the request, and the state is the request being served and  *)
(* the status it was answered with.  POST is RequestHandler's.             *)
(***************************************************************************)
EXTENDS Naturals

VARIABLES
    query,     \* the request net/http hands to the routed handler
    answer     \* the HTTP status written, 0 before the handler returns

vars == <<query, answer>>

(* A parameter is absent (""), a UUID, or other text; row is whether the   *)
(* store holds the task, dbOk whether the query runs without an error.     *)

Params == {"", "uuid", "text"}

RestQueries ==
    [op : {"get", "list", "delete"}, token : BOOLEAN, id : Params,
     dev : Params, row : BOOLEAN, dbOk : BOOLEAN]

\* db.GetTaskByID: the device ID must parse and the task ID be non-empty
\* (ErrInvalidRequest).  Both are spliced into the CQL text with EqLit, so
\* a task ID that is not a UUID literal makes the query itself fail.  No
\* row is ErrNotFound.
GetTaskByID(q) ==
    CASE q.dev # "uuid" \/ q.id = ""   -> "invalid"
      [] ~q.dbOk \/ q.id = "text"      -> "error"
      [] ~q.row                        -> "notfound"
      [] OTHER                         -> "ok"

\* db.Task.RemoveTask: both IDs go through gocql.ParseUUID first.  A CQL
\* DELETE of an absent row succeeds.
RemoveTask(q) ==
    CASE q.id # "uuid" \/ q.dev # "uuid" -> "invalid"
      [] ~q.dbOk                        -> "error"
      [] OTHER                          -> "ok"

\* db.GetTasksForConsignment: an empty consignment ID is ErrInvalidRequest;
\* the tenant is bound as a text value.
GetTasksForConsignment(q) ==
    CASE q.id = ""  -> "invalid"
      [] ~q.dbOk    -> "error"
      [] OTHER      -> "ok"

\* GetTaskHandler: app token, task ID present, device ID a UUID, then the
\* store's error mapped: invalid 400, not found 404, any other 500.
GetTaskHandler(q) ==
    CASE ~q.token                        -> 401
      [] q.id = "" \/ q.dev # "uuid"     -> 400
      [] GetTaskByID(q) = "invalid"      -> 400
      [] GetTaskByID(q) = "notfound"     -> 404
      [] GetTaskByID(q) = "error"        -> 500
      [] OTHER                           -> 200

\* ListTasksHandler: app token, consignment ID (id) and tenant ID (dev)
\* present, then any store error is 500.
ListTasksHandler(q) ==
    CASE ~q.token                          -> 401
      [] q.id = "" \/ q.dev = ""           -> 400
      [] GetTasksForConsignment(q) # "ok"  -> 500
      [] OTHER                             -> 200

\* RemoveTaskHandler: app token, task ID present, device ID a UUID, then
\* the store's ErrInvalidRequest is 400 and any other error 500.
RemoveTaskHandler(q) ==
    CASE ~q.token                        -> 401
      [] q.id = "" \/ q.dev # "uuid"     -> 400
      [] RemoveTask(q) = "invalid"       -> 400
      [] RemoveTask(q) = "error"         -> 500
      [] OTHER                           -> 200

RestAnswer(q) ==
    CASE q.op = "get"  -> GetTaskHandler(q)
      [] q.op = "list" -> ListTasksHandler(q)
      [] OTHER         -> RemoveTaskHandler(q)

\* The answers of spec sections 6 and 7, read independently of the code:
\* 401 for an invalid app token; 400 for a missing or malformed identifier
\* (task and device IDs are unique identifiers); 500 for a failed query;
\* 404 for a task that is not in the store; otherwise 200 (a delete is
\* idempotent).
SpecRestAnswer(q) ==
    LET malformed ==
            IF q.op = "list" THEN q.id = "" \/ q.dev = ""
            ELSE q.id # "uuid" \/ q.dev # "uuid"
    IN CASE ~q.token                   -> 401
         [] malformed                  -> 400
         [] ~q.dbOk                    -> 500
         [] q.op = "get" /\ ~q.row     -> 404
         [] OTHER                      -> 200

-----------------------------------------------------------------------------
Init ==
    /\ query \in RestQueries
    /\ answer = 0

\* The routed handler runs to its first return and writes its status.
Serve ==
    /\ answer = 0
    /\ answer' = RestAnswer(query)
    /\ UNCHANGED query

Spec == Init /\ [][Serve]_vars

-----------------------------------------------------------------------------
\* Spec sections 6 and 7: a request is answered with the status the error
\* taxonomy gives it: 401 for an invalid token, 400 for a missing or
\* malformed identifier, 500 only for a failed query.  This is about which
\* identifiers each handler parses before they reach the CQL text:
\* GetTaskHandler checks the device ID but hands the task ID to
\* GetTaskByID unparsed.
RestAnswerAsSpecified == answer # 0 => answer = SpecRestAnswer(query)

=============================================================================
