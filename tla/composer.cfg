\* Two resource names, one of which may be of either of two kinds, and any two of:
\* a changed mind of the functions, the XR's deletion, a resource deleted, replaced
\* or orphaned by others, a failed call, a crash. Deadlock is not checked: once the
\* XR and its resources are gone nothing more needs to happen.
SPECIFICATION FairSpec
CONSTANTS
    a1 = a1
    b1 = b1
    b2 = b2
    Objects <- MCObjects
    NameOf <- MCNameOf
    MaxTrouble = 2
CHECK_DEADLOCK FALSE
INVARIANTS
    TypeOK
    NoResourceLeaks
PROPERTIES
    DeletesOnlyOwn
    StaysDeleted
    Composes
