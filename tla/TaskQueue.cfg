SPECIFICATION Spec
CONSTANTS
    Tasks = {k, t1, t2, t3, t4}
    KernelTask = k
    NULL = null
INVARIANTS
    TypeOK
    ListOK
PROPERTY
    ImplementsRunQueue
