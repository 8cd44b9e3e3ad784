SPECIFICATION Spec
CONSTANTS
    Scenes <- MCScenes
    NameOrder <- MCNameOrder
    Paths <- MCPaths
    MaxDepth = 8
    LoadPayloads0 = FALSE
    MaxNamespaceDepth = 5
    RuleSets <- MCRuleSets
    MaxRules <- MCMaxRules
INVARIANTS
    SourcesMapHome
    ChildKeepsParentOrder
    ImpliedClassIsStronger
    NamespaceIsFinite
    DeferralsExplained
    RuledPrimsAreFresh
CHECK_DEADLOCK FALSE
