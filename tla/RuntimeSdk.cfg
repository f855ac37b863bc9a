SPECIFICATION SdkSpec
CONSTANTS
    MaxTargets = 2
    MaxRetries = 1
    Estimate = 2
    Measured = 3
    Partial = 1
    MaxFaults = 2
    Background = background
    Manual = manual
    MaxVersion = 3
    Unsupported = {2}
    MaxRefreshFaults = 2
    None = None

    
    
PROPERTIES
    
    NeverOlder
    NewestTakesEffect
