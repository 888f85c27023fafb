\* Spec P2 and P3 against the dispatch worker's MarkTaskDispatched and the
\* task-response handler: one task, two replicas, one tenant, one service,
\* one transient failure.
CONSTANTS
    t1 = t1  t2 = t2  r1 = r1  r2 = r2
    tenantA = tenantA  tenantB = tenantB  svc1 = svc1  svc2 = svc2
    Tasks = {t1}
    Replicas <- MCReplicas
    Tenants = {tenantA}
    Services = {svc1}
    MaxFailures = 1
    NoRow = NoRow
    NoValue = NoValue
    NoTask = NoTask

SPECIFICATION Spec

PROPERTY FinalStatusStands

CHECK_DEADLOCK FALSE
