\* A package that is new, or that has as many old revisions as its history may hold,
\* and two changes of package, source or revisions, failed calls or crashes: the
\* third revision is collected, and an old digest comes back. The reconcile may be
\* two events ahead of its cache, so that revisions share a number. A package that
\* does not change is reconciled no more. No symmetry, as liveness is checked.
SPECIFICATION FairSpec
CONSTANTS
    Digests = {d1, d2, d3}
    MaxGeneration = 2
    HistoryLimit = 1
    None = None
    MaxLag = 2
    MaxTrouble = 2
CHECK_DEADLOCK FALSE
INVARIANTS
    TypeOK
    OnlyCurrentIsActive
    HistoryIsOrdered
PROPERTIES
    ComesToRest
