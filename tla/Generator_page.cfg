SPECIFICATION GeneratorSpec
CONSTANTS
    MaxToasts = 3
    None = None
    WordSize = 16
    Pools = {"lower", "numbers", "special"}
    Lengths = {1, 2}
    MaxMinimum = 2
    Words = {"amber", "zephyr"}
    Adjectives = {"brave"}
    Nouns = {"badger", "zebra"}
    WordCounts = {1, 2}
    Separators = {"", "-"}
INVARIANTS
    GeneratorTypeOK
    ResultFits
    Unbiased
PROPERTY EveryPressIsTold
