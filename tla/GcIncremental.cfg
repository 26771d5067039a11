\* Three blocks on two pages, the page of two blocks of an owner class, with
\* kernel and software write discovery.
CONSTANTS
    a1 = a1  a2 = a2  b1 = b1  pa = pa  pb = pb
    Objects = {a1, a2, b1}
    Pages = {pa, pb}
    pageOf <- MCPageOf
    NFields = 1
    Null = Null
    OwnedPages = {pa}
    Kernel = TRUE
    ReuseInCycle = FALSE
SPECIFICATION Spec
SYMMETRY Symmetric
INVARIANTS TypeOK NoLoss FinalRemark BatchDrained
PROPERTIES MarksStay ImplementsHeap
