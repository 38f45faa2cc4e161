\* Every sequence of Track and Forget of two XRs, each with up to two composed
\* and two required references.
SPECIFICATION Spec
CONSTANTS
    A = A
    B = B
    ns = ns
    n1 = n1
    red = red
    s1 = s1
    XRs = {x1, x2}
    Kinds = {A, B}
    Namespaces = {ns, NoNamespace}
    Names = {n1, n2}
    Labels = {red}
    Composed <- MCComposed
    Required <- MCRequired
    Steps = {s1}
    NoNamespace = NoNamespace
    NoName = NoName
INVARIANTS
    DependantsAreExact
    GVKsAreExact
