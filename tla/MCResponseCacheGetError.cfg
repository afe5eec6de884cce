\* One goroutine; a GET of the invalidation scan may fail.
CONSTANTS
    Nil = Nil
    Clients = {c1}
    Keys = {"k1"}
    Providers = {"p1"}
    Models = {"m1"}
    TokenValues = {5}
    TTLInputs = {0, 2}
    DefaultTTL = 1
    MaxAges = {}
    Patterns = {}
    PatternKeys <- MCPatternKeys
    Enabled = TRUE
    RedisErrors = TRUE
SPECIFICATION Spec
CONSTRAINT StateBound
INVARIANT InvalidationComplete
