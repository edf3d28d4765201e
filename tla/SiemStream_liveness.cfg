SPECIFICATION SiemFairSpec
CONSTANTS
    Writers = {w1}
    Pruners = {p1}
    Contents = {entry}
    PruneMark = mark
    Retain = 1
    Nobody = nobody
    MaxClock = 2
    MaxSeq = 3
    Streamers = {r1}
    PollBatchSize = 2
PROPERTIES
    EventuallyStreamed
