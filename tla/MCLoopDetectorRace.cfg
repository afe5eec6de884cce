CONSTANTS
    Absent = Absent
    Actions <- MCActions
    Targets <- MCTargets
    DataPrints <- MCDataPrints
    HistoryLimit = 6
    RecentWindow = 4
    ProgressTimeout = 2
    DefaultThreshold = 3
    ThresholdInputs = {2}
    Recorders = {g1, g2}
SPECIFICATION RaceSpec
CONSTRAINT RaceBound
INVARIANT HistoryIsRecentLog
