\* The dispatch path refines the at-least-once queue: one task, two
\* replicas, one tenant and one service, up to two transient failures.
\* No symmetry: the property is temporal.
CONSTANTS
    t1 = t1  t2 = t2  r1 = r1  r2 = r2
    tenantA = tenantA  tenantB = tenantB  svc1 = svc1  svc2 = svc2
    Tasks = {t1}
    Replicas <- MCReplicas
    Tenants = {tenantA}
    Services = {svc1}
    MaxFailures = 2
    NoRow = NoRow
    NoValue = NoValue
    NoTask = NoTask

SPECIFICATION Spec

PROPERTY DispatchQueueRefinement

CHECK_DEADLOCK FALSE
