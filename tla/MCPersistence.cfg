CONSTANTS
    None = None
    p1 = p1
    p2 = p2
    Processes = {p1, p2}
    Inodes = {1, 2, 3, 4, 5, 6, 7}
    Executors = {p1, p2}
    Signatures = {"s1", "s2"}
    Hashes = {"x", "y", "z"}
    Outputs <- MCOutputs
    Size <- MCSize
    Threshold = 3
    Target = 2
    TaskKeys = {"k1", "k2", "k3"}
    Inputs = {1, 2}
    Relations <- MCRelations
    MaxEdits = 2
    Fetchers = {p1, p2}
    Urls = {"a/v1", "b/v1", "c/v1"}
    FileName <- MCFileName
    MaxCommits = 3
    Artifacts = {"glibc", "zlib"}
    Paths = {"lib", "doc"}
    Whitelist = {"doc"}
    MaxDependencies = 2
    MaxAttempts = 3
    MaxMultiplier = 2
    MaxCap = 3
    Runs = {p1, p2}
    Lines <- MCLines
    MaxLines = 2
    FileNames = {"x", "y"}
SPECIFICATION MCSpec
SYMMETRY Symmetry
INVARIANTS
    StoreSound
    PlanSound
    
    
    RetryVerdict
    SandboxesSound
    DirectIsShell
PROPERTIES
    ObjectsStay
