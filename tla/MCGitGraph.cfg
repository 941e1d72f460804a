SPECIFICATION GitGraphSpec
CONSTANTS
    Root = "a"
    Urls = {"a", "b", "c"}
    Names <- MCNames
    Commits <- MCCommits
    Ancestry <- MCAncestry
    Author <- MCAuthor
    Manifests <- MCManifests
    Relative = {"..", "../", "TODO"}
    Slashed = {"../"}
    Join <- MCJoin
    Heads <- MCHeads
    Tags <- MCTags
    Moves <- MCMoves
    MaxPushes = 2
    MaxDepths <- MCMaxDepths
    MaxCrawls = 2
INVARIANTS
    
    CrawlComplete
    LinksKept
PROPERTIES
    CrawlEnds
CHECK_DEADLOCK FALSE
