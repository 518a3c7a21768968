CONSTANTS
    MaxWindow = 5
    Unanalysable = {4}
    LIMIT = 2
    MaxDeaths = 1
    Ranges = {{1, 2, 3}, {3, 4}}
    MaxLabelRuns = 2
    MaxClassifierRuns = 1
    FIT_TENTHS = 7
SPECIFICATION FairSpec
INVARIANTS OneResultEach OneLabelling EvaluationHeldOut
PROPERTY EveryWindowAnalysed
