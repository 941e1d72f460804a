CONSTANTS
    a = a
    b = b
    c = c
    m1 = m1
    m2 = m2
    m3 = m3
    m4 = m4
    Tasks = {a, b, c}
    Mentions = {m1, m2, m3, m4}
    RecipeNames = {"p", "q"}
    TaskNames = {"do_compile", "do_install", "do_populate_sysroot"}
    Recipes = {a, b, c}
    Nodes = {1, 2, 3, 4}
    MaxEdges = 4
    Files = {a, b, c}
    FileLists <- MCFileLists
    RecipeLists <- MCRecipeLists
    MaxRecipes = 2
SPECIFICATION MCSpec
INVARIANTS
    SortSound
    SelectionSound
    
    IncludesSound
PROPERTIES
    LoopSound
    Returns
