\* Two readers and the collector, one kind whose informer may be removed and
\* started again. No symmetry, as liveness is checked.
SPECIFICATION CacheFairSpec
CONSTANTS
    Gvks = {g1}
    MaxInformers = 2
    Readers = {r1, r2}
    Collector = gc
    Nobody = Nobody
PROPERTIES
    ImplementsInformers
    DeletesAreHandled
