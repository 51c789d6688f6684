CONSTANTS
    Fetchers = {f1, f2, f3}
    Permits = 1
    Interval = 2
    RetryMax = 0
    Backoff = 1
    RetryAfter = 1
    MaxPages = 1
    Total = 1
    Configs <- LimitedConfig
SPECIFICATION Spec
PROPERTIES
    RateHolds
