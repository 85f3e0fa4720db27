SPECIFICATION CatalogSpec
CONSTANTS
    Null = Null
    Screens = {"detail", "list", "form", "import", "api", "publish"}
    s1 = s1
    s2 = s2
    Slots = {s1, s2}
    Names <- NamesByKind
    MaxVersion <- VersionsByKind
    Searches = {"x"}
    Limits = {10, 25}
    Pages <- PagesByKind
    MaxStale = 1
    MaxPage = 3
    FormNames <- NamesTyped
    Drafts <- CodesTyped
    MaxCode = 3
    Files <- FilesOnDisk
    ImportKeys = {"key"}
    MaxImports = 2
    MaxJobs = 2
    ApiKinds = {"agent", "queue"}
    Clients = {s1, s2}
    Bodies = {"x", "y"}
    MaxRowVersion = 2
    Flows = {"f", "g"}
    Publishers = {s1, s2}
    FlowGraphs = {"x", "y"}
    MaxDraftVersion = 2
    MaxBindings = 3
SYMMETRY RequestSymmetry
CHECK_DEADLOCK FALSE
INVARIANTS
    CleanMeansShown
    ConflictMeansChange
    ShownIsAsked
    StackIsTheWayBack
    CodeIsTheUsersOrTheNames
    KeyImportsOnce
    CopyIsOfItsVersion
PROPERTIES
    AnswersKeepEdits
    SavedIsStored
    PublishTakesEffectOnWhatItSaw
