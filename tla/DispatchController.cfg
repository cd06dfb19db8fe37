CONSTANTS
    e1 = e1
    e2 = e2
    e3 = e3
    Emitters <- MCEmitters
    Registered <- MCRegistered
    Rates <- MCRates
    Samples = {20, 22}
    Pins = {0, 2}
    MaxDeals = 2
SPECIFICATION FairSpec
INVARIANTS DealsAreLive
PROPERTIES FindsOptimum
