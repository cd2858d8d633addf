SPECIFICATION Spec
CONSTANTS
    MAX = 2
    Mishaps = 2
INVARIANT TypeOK
INVARIANT RescueBounded
PROPERTY Healed
PROPERTY Settled
PROPERTY TakenUp
