\* Two goroutines race on the plain ++ of rc.stats.
CONSTANTS
    Nil = Nil
    Clients = {c1, c2}
    Keys = {"k1"}
    Providers = {"p1"}
    Models = {"m1"}
    TokenValues = {5}
    TTLInputs = {0, 2}
    DefaultTTL = 1
    MaxAges = {}
    Patterns = {}
    PatternKeys <- MCPatternKeys
    Enabled = TRUE
    RedisErrors = FALSE
SPECIFICATION Spec
CONSTRAINT StateBound
PROPERTY StatsMonotonic
