SPECIFICATION Spec
CONSTANTS
    None = None
    One <- MCOne
    MaxWords = 2
    Asks <- MCAsks
    Scores <- MCScores
    Fusions <- MCFusions
    Float <- MCFloat
    Weights <- MCWeights
    MaxRank <- MCMaxRank
    Share <- MCShare
    Plus <- MCPlus
    MaxCandidates = 4
    Discounts <- MCDiscounts
INVARIANTS
    DiverseOrder
    FusionFair
    MeasuresTheRanking
CHECK_DEADLOCK FALSE
