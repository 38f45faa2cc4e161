\* Two XRs that may depend on one kind: all interleavings of their reconciles,
\* their creation and deletion, a pause, the collector and the removal of the
\* informer of the kind.
SPECIFICATION Spec
CONSTANTS
    XRs = {x1, x2}
    Kinds = {A}
    MaxCreations = 2
    MaxPauses = 1
PROPERTIES
    NeededIsWatched
    UnneededIsStopped
