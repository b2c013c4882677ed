CONSTANTS
    Files <- MCFiles
    Links <- MCLinks
    Unset = Unset
    PatternChars = {"a", "/", "*", "?"}
    ValueChars = {"a", "/", "u"}
    MaxPattern = 4
    MaxValue = 3
    Rules <- MCRules
    MaxRules = 3
    Inputs <- MCInputs
    Components = {"a", "b", "c", "l", ".", ".."}
    MaxPath = 4
    Cwds <- MCCwds
    PathPatterns <- MCPathPatterns
    Ids <- MCIds
    MaxTime = 6
    Retains = {1, 2}
    Cutoffs = {0, 3}
SPECIFICATION Spec
INVARIANTS
    GlobMeansPattern
    DenyIsNotShadowed
    PathRulesSeeTheFile
    PruningKeepsTheNewest
    ListsShowTheNewest
