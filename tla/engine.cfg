\* One name started up to twice, two callers, and every failure the engine
\* handles: the calls of Start, Stop, StartWatches and StopWatches interleave
\* with each other, with failing controllers and with informers that come and go.
SPECIFICATION Spec
CONSTANTS
    Gvks = {g1}
    MaxInformers = 2
    Names = {n1}
    WatchTypes = {dep}
    Instances = {i1, i2}
    Callers = {t1, t2}
    MaxDropped = 1
    Failures = {"sync", "watch", "remove"}
    None = None
SYMMETRY Symmetry
INVARIANTS
    TypeOK
    OneWatch
    OneController
PROPERTY
    StopReleasesEverything
