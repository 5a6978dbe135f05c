\* One call, because calls share no state; the limits lie below, in and above
\* the range; the market has fewer candles than the limit at first and more at
\* the end, and the clock passes the tolerance of a signature.
SPECIFICATION Spec
CONSTANTS
    Broken = Broken
    Calls = {c1}
    Empty = Empty
    Blank = Blank
    Frames <- MCFrames
    OkxBars <- MCBars
    Limits = {0, 2, 9}
    MaxLimit = 3
    Tolerance = 1
    MaxTime = 3
    MaxCandle = 5
INVARIANTS TypeOK AnalysesWholeMarket HonestlySigned LabelledAsFetched
\* Calls end.
CHECK_DEADLOCK FALSE
