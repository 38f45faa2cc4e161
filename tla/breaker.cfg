\* Two goroutines keep delivering events of two sources for one XR, which may be
\* deleted and created again. The ring buffer overflows, and the circuit opens, is
\* probed, closes and opens again. A cooldown refills less than a token, so that the
\* circuit may also close and open again at once. The two locks of a call are taken within a tick. No
\* symmetry, as liveness is checked.
SPECIFICATION BusySpec
CONSTANTS
    Workers = {w1, w2}
    Targets = {t1}
    Sources = {s1, s2}
    Token = 3
    Capacity = 3
    Rate = 1
    Cooldown = 2
    HalfOpenInterval = 1
    ExpireAfter = 2
    RingSize = 2
    MaxLag = 0
    AgeCap = 3
    None = None
INVARIANTS
    TypeOK
    FirstOpenAfterBurst
    TriggerIsRecent
PROPERTIES
    AutoCloses
