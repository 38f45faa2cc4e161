\* One claim, of an XR of its user's or a new one, that is edited, deleted and created
\* again, or loses its XR, while calls fail and the process crashes: four such events
\* at most, between any two steps of the reconcile and of the caches. A claim that
\* does not change is reconciled no more. No symmetry, as liveness is checked.
SPECIFICATION FairSpec
CONSTANTS
    Claims = {c1}
    XRs = {s1, x1, x2}
    Static = {s1}
    None = None
    MaxTrouble = 4
CHECK_DEADLOCK FALSE
INVARIANTS
    TypeOK
    NoXRLeaks
PROPERTIES
    StaysBound
    ClaimsSettle
