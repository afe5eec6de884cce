\* One goroutine; the clock may pass an entry's ExpiresAt while a Get holds it.
CONSTANTS
    Nil = Nil
    Clients = {c1}
    Keys = {"k1"}
    Providers = {"p1"}
    Models = {"m1"}
    TokenValues = {5}
    TTLInputs = {0}
    DefaultTTL = 1
    MaxAges = {}
    Patterns = {}
    PatternKeys <- MCPatternKeys
    Enabled = TRUE
    RedisErrors = FALSE
SPECIFICATION Spec
CONSTRAINT StateBound
INVARIANT ReturnedNotExpired
