\* One controller name, started up to twice, and one watch. No symmetry, as liveness is checked.
SPECIFICATION FairSpec
CONSTANTS
    Gvks = {g1}
    MaxInformers = 1
    Names = {n1}
    WatchTypes = {dep}
    Instances = {i1, i2}
    Callers = {t1}
    MaxDropped = 1
    Failures = {"sync", "watch"}
    None = None
PROPERTIES
    CallsReturn
    FailedIsCleanedUp
