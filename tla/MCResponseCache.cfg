\* One goroutine uses the cache; Redis never fails.
CONSTANTS
    Nil = Nil
    Clients = {c1}
    Keys = {"k1", "k2"}
    Providers = {"p1", "p2"}
    Models = {"m1"}
    TokenValues = {5}
    TTLInputs = {0, 2}
    DefaultTTL = 1
    MaxAges = {1}
    Patterns = {"k"}
    PatternKeys <- MCPatternKeys
    Enabled = TRUE
    RedisErrors = FALSE
SPECIFICATION Spec
CONSTRAINT StateBound
INVARIANTS
    RedisExpiryMatchesEntry
    StatsExact
    InvalidationComplete
