\* Stop races with a StartWatches that already looked its controller up.
SPECIFICATION Spec
CONSTANTS
    Gvks = {g1}
    MaxInformers = 1
    Names = {n1}
    WatchTypes = {dep}
    Instances = {i1}
    Callers = {t1, t2}
    MaxDropped = 1
    Failures = {}
    None = None
INVARIANT NoHandlerOutlivesStop
