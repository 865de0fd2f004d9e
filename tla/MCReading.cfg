\* The text a reading is published as.
SPECIFICATION DhtSpec
CONSTANTS
    ByteBits = 3
    MaxWait = 1
    WordMod = 8
    Measurements <- MCMeasurements
    Flips = 1
INVARIANT PublishedIsMeasured
