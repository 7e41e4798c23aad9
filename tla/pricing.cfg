CONSTANTS
    MaxGeneration = 1
    MaxItems = 3
    None = None
SPECIFICATION PricingSpec
INVARIANTS BoughtIsResolved MetadataKeepsPlan
CHECK_DEADLOCK FALSE
