\* A Get's write-back races with InvalidateByProvider.
CONSTANTS
    Nil = Nil
    Clients = {c1, c2}
    Keys = {"k1"}
    Providers = {"p1"}
    Models = {"m1"}
    TokenValues = {5}
    TTLInputs = {0, 2}
    DefaultTTL = 1
    MaxAges = {}
    Patterns = {}
    PatternKeys <- MCPatternKeys
    Enabled = TRUE
    RedisErrors = FALSE
SPECIFICATION Spec
CONSTRAINT ConcurrentBound
INVARIANT InvalidationComplete
