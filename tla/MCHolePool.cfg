SPECIFICATION PoolFairSpec
CONSTANTS
    min_active <- MCMinActive
    max_total <- MCMaxTotal
    MaxTroubles <- MCMaxTroubles
PROPERTIES
    LonePlanKeepsMinimum
    MinimumRestored
    OldestIsRotated
