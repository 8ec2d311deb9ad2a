SPECIFICATION CompositionSpec
CONSTANTS
    Slugs <- MCSlugs
    Default = 1
    None = 0
    SlugLists <- MCSlugLists
    DepLists <- MCDepLists
    CategoryMaps <- MCCategoryMaps
    Registries <- MCRegistries
    Conflicts <- MCConflicts
INVARIANTS
    CycleFound
    MissingIsClosure
    ValidMeansBuilt
    BuiltWithDependencies
CHECK_DEADLOCK FALSE
