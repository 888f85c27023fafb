\* Paging through the day's partition: two recurring tasks, pages of one
\* row, two quanta per day over two days, two timestamps per quantum, one
\* transient failure.
CONSTANTS
    t1 = t1  t2 = t2
    Tasks <- MCTasks
    PageSize = 1
    QuantaPerDay = 2
    InstantsPerQuantum = 2
    MaxTime = 3
    MaxFailures = 1
    NoRow = NoRow

SPECIFICATION Spec

INVARIANT TypeOK
PROPERTY ScanCoversPartition
PROPERTY ScanTerminates

CHECK_DEADLOCK FALSE
