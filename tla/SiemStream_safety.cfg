SPECIFICATION SiemSpec
CONSTANTS
    Writers = {w1, w2}
    Pruners = {p1}
    Contents = {entry}
    PruneMark = mark
    Retain = 1
    Nobody = nobody
    MaxClock = 2
    MaxSeq = 3
    Streamers = {r1, r2}
    PollBatchSize = 2
SYMMETRY StreamSymmetry
INVARIANTS
    NoEventSkipped
