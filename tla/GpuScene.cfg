CONSTANTS
    Zero <- MCZero
    PageSize = 2
    PagesPerDirtyWord = 2
    ReallocationMultiple = 2
    ThresholdPercent = 70
    MaxSparsePages = 2
    Assets = {1}
    Descriptors <- MCDescriptors
    Generations = 8
    MaxSlots = 5
    MaxChanges = 7
SPECIFICATION Spec
INVARIANTS SceneIsItsProxies ChangesReachTheGpu
