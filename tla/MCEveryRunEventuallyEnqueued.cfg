\* Spec 4.3 and P1: every stored run is eventually enqueued.  One task, so
\* no two runs share a key: what is left is where the run is stored and
\* which partition the scans read.  No failures, two quanta per day.
CONSTANTS
    t1 = t1  t2 = t2
    Tasks = {t1}
    PageSize = 1
    QuantaPerDay = 2
    InstantsPerQuantum = 2
    MaxTime = 3
    MaxFailures = 0
    NoRow = NoRow

SPECIFICATION Spec

PROPERTY EveryRunEventuallyEnqueued

CHECK_DEADLOCK FALSE
