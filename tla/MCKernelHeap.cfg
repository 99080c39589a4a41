CONSTANTS
    HeapStart = 100
    HeapEnd = 160
    HeaderSize = 9
    Word = 256
    RequestSizes = {0, 4, 12}
SPECIFICATION Spec
INVARIANTS
    BlocksOrdered
    UseMatchesHolders
    HeldDisjoint
PROPERTIES
    BlocksPersist
    ImplementsAbstractHeap
