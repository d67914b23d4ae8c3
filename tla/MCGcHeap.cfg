CONSTANTS
    TopLevel = 2
    Lengths = {8, 24}
    Vars = {v1, v2}
    Objects = {o1, o2, o3}
    MaxLost = 2
    Root = Root
    NULL = NULL
    Nowhere = Nowhere
SPECIFICATION Spec
SYMMETRY Names
CONSTRAINT LostBound
INVARIANTS BlocksTile BlocksHaveObjects NoDanglingHandle
PROPERTIES IsAllocator CollectIsExact
