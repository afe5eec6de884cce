\* One goroutine uses the cache; any Redis GET may fail.
CONSTANTS
    Nil = Nil
    Clients = {c1}
    Keys = {"k1", "k2"}
    Providers = {"p1"}
    Models = {"m1"}
    TokenValues = {5}
    TTLInputs = {0, 2}
    DefaultTTL = 1
    MaxAges = {1}
    Patterns = {"k"}
    PatternKeys <- MCPatternKeys
    Enabled = TRUE
    RedisErrors = TRUE
SPECIFICATION Spec
CONSTRAINT StateBound
INVARIANT StatsExact
