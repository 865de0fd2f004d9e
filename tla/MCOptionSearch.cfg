\* Messages whose index is a byte of base five.
SPECIFICATION OptionsSpec
CONSTANTS
    IndexMod = 5
    Cookie = 1
    Codes = {0, 1, 2, 3}
    Wanted = 1
    Limits = {1, 3, 4, 5, 8}
PROPERTY SearchAlwaysEnds
