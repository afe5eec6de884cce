CONSTANTS
    Absent = Absent
    Actions <- MCActions
    Targets <- MCTargets
    DataPrints <- MCDataPrints
    HistoryLimit = 6
    RecentWindow = 4
    ProgressTimeout = 2
    DefaultThreshold = 3
    ThresholdInputs = {0, 2, 3}
SPECIFICATION Spec
CONSTRAINT StateBound
INVARIANTS
    TypeOK
    HistoryIsRecentLog
    StuckOnlyWhenLooping
    StuckDetectedWithinWindow
