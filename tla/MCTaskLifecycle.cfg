\* Token authority: one task, two replicas, two tenants and two services,
\* up to two transient failures, under symmetry (safety only).
CONSTANTS
    t1 = t1  t2 = t2  r1 = r1  r2 = r2
    tenantA = tenantA  tenantB = tenantB  svc1 = svc1  svc2 = svc2
    Tasks = {t1}
    Replicas <- MCReplicas
    Tenants <- MCTenants
    Services <- MCServices
    MaxFailures = 2
    NoRow = NoRow
    NoValue = NoValue
    NoTask = NoTask

SPECIFICATION Spec
SYMMETRY MCSymmetry

INVARIANT TypeOK
INVARIANT TokenAuthority

CHECK_DEADLOCK FALSE
