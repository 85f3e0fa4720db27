SPECIFICATION ConsoleSpec
CONSTANTS
    Null = Null
    Screens = {"status", "builder", "canvas", "condition", "tester", "shell"}
    s1 = s1
    s2 = s2
    FirstStatuses = {"Ready"}
    Moves = {"WrapUp"}
    ForceTargets = {"Offline"}
    MaxStateVersion = 3
    MaxGets = 2
    Graphs = {"g", "h"}
    MaxDraft = 2
    MaxTrace = 2
    MaxOut = 2
    CanvasDrafts <- StoredDrafts
    Ids = {"l", "a", "e", "n"}
    PaletteKinds = {"plain", "end"}
    HistoryCap = 2
    MaxEdges = 3
    MaxEdits = 2
    Names = {"a", "b", "vendor", "vend"}
    Clipped = {"vendor"}
    Literals = {"1"}
    Variables = {"a", "vendor"}
    Values = {"", "OR", "x y"}
    LoadedTexts <- StoredTexts
    TypedTexts <- TextsTyped
    MaxParts = 3
    MaxRoutes = 2
    Reads = {s1, s2}
    ShellOrgs = {"o", "p"}
    BadOrg = "bad"
    ModuleLists <- ModulesAttributes
    Addresses <- AddressesGoneTo
    Loads = {s1, s2}
SYMMETRY RequestSymmetry
CHECK_DEADLOCK FALSE
INVARIANTS
    PublishedIsWhatWasShown
    HistoryIsCurrent
    RegionsAreEntered
    
    OneTimer
    AddressIsShown
PROPERTIES
    BoardNeverGoesBack
    PatchFollowsTheMatrix
