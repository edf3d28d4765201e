SPECIFICATION Spec
CONSTANTS
    Writers = {w1, w2}
    Pruners = {p1}
    Contents = {entry}
    PruneMark = mark
    Retain = 1
    Nobody = nobody
    MaxClock = 3
    MaxSeq = 4
INVARIANTS
    ChainIntact
    NoFalseAlarm
PROPERTIES
    ImplementsChain
