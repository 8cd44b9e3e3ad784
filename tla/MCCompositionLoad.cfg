SPECIFICATION Spec
CONSTANTS
    Scenes <- PayloadScenes
    NameOrder <- MCNameOrder
    Paths <- RootPaths
    MaxDepth = 8
    LoadPayloads0 = FALSE
    MaxNamespaceDepth = 5
    RuleSets <- MCRuleSets
    MaxRules <- TwoRules
PROPERTY
    LoadedPrimsRecomposed
CHECK_DEADLOCK FALSE
