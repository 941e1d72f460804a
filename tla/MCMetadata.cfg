CONSTANTS
    Targets = {"w", "x", "y", "z"}
    Limits <- MCLimits
    Overrides = {"arm"}
    VarNames = {"A", "B", "C"}
    MaxDepth = 2
    RecipeFiles <- MCRecipeFiles
    RecipeOf <- MCRecipeOf
    BaseTasks <- MCBaseTasks
    ClassDefaults <- MCClassDefaults
    MaxFrames = 4
    UpperCase <- MCUpperCase
    Digits <- MCDigits
    RefOf <- MCRefOf
    Defaults <- MCDefaults
    LineLimit = 3
    StaticLimit = 3
    HybridLimit = 9
    Expressions <- MCExpressions
    Dirs <- MCDirs
    LayerConf <- MCLayerConf
    Beginning <- MCBeginning
    Inside <- MCInside
    LayerAppends <- MCLayerAppends
    ReferenceOf <- MCReferenceOf
    MaxIterations = 6
SPECIFICATION MCSpec
INVARIANTS
    QueriesSound
    VariablesSound
    ExtractionSound
    
    BlocksAsPython
    
CHECK_DEADLOCK FALSE
