\* Every message of Messages, of three patterns, in six captures.
CONSTANTS
    Receptions <- MCReceptions
    max_skip = 1
SPECIFICATION Spec
INVARIANTS
    TypeOK FirstToTake FlashForgotten Recognised NoiseIgnored NeverMissed
    Unmistaken TakenInOrder ReadBack
\* decode() has returned
CHECK_DEADLOCK FALSE
