\* A retired class is reused while a cycle is under way.
CONSTANTS
    a1 = a1  a2 = a2  b1 = b1  pa = pa  pb = pb
    Objects = {a1, a2, b1}
    Pages = {pa, pb}
    pageOf <- MCPageOf
    NFields = 1
    Null = Null
    OwnedPages = {pb}
    Kernel = FALSE
    ReuseInCycle = TRUE
SPECIFICATION Spec
SYMMETRY Symmetric
INVARIANT NoLoss
