\* Spec 4.2 and P5: a request naming the reserved broadcast UUID after a
\* device must not schedule a broadcast and a per-device task together.
\* The requests are MCRequestHandler's: the device lists, tenants and
\* invalid requests, with two replicas and two failures.
CONSTANTS
    Numbers <- MCNumbers
    Durations <- MCDurations
    UnitWords <- MCUnitWords
    Clocks <- MCClocks
    MaxTimes = 3
    DayItems <- MCDayItems
    MaxDays = 2
    CronExprs <- MCCronExprs
    TimesOfDay <- MCTimesOfDay
    r1 = r1  r2 = r2  rest = rest  d1 = d1  d2 = d2
    all = all  bcastUuid = bcastUuid
    tenantA = tenantA  badTenant = badTenant  svc1 = svc1  svcX = svcX
    Replicas <- MCReplicas
    Requests <- MCRequests
    Tenants = {tenantA}
    RegisteredServices = {svc1}
    BroadcastDeviceID = all
    BroadcastDeviceUuid = bcastUuid
    RestCaller = rest
    MaxFailures = 2
    MaxReceives = 3
SPECIFICATION HSpec
INVARIANT MixedBroadcastRejected
CHECK_DEADLOCK FALSE
