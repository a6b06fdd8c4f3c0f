SPECIFICATION FairSpec
CONSTANTS
    Tasks = {t1, t2, t3}
    Jobs = {t1}
    NoTask = NoTask
    Lost = Lost
PROPERTY DatabaseCallsEnd
PROPERTY UnitsAreAtomic
INVARIANT DurableIsReported
INVARIANT FirstRowCommitted
