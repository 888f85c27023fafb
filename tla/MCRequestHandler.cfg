\* The input queue and request handler with two replicas and up to two
\* failures; every schedule input of MCScheduleGrammar is parsed by the
\* device loop, so the grammar's invariants are checked here too.
CONSTANTS
    Numbers <- MCNumbers
    Durations <- MCDurations
    UnitWords <- MCUnitWords
    Clocks <- MCClocks
    MaxTimes = 3
    DayItems <- MCDayItems
    MaxDays = 2
    CronExprs <- MCCronExprs
    TimesOfDay <- MCTimesOfDay
    r1 = r1  r2 = r2  rest = rest  d1 = d1  d2 = d2
    all = all  bcastUuid = bcastUuid
    tenantA = tenantA  badTenant = badTenant  svc1 = svc1  svcX = svcX
    Replicas <- MCReplicas
    Requests <- MCRequests
    Tenants = {tenantA}
    RegisteredServices = {svc1}
    BroadcastDeviceID = all
    BroadcastDeviceUuid = bcastUuid
    RestCaller = rest
    MaxFailures = 2
    MaxReceives = 3
SPECIFICATION HSpec
INVARIANTS
    HandlerTypeOK
    RunAtSortedUnique
    EveryGrammarRoundTrip

    
\* Once the message is deleted every watcher polls an empty queue.
CHECK_DEADLOCK FALSE
