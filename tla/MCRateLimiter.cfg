\* Two keys, limit 2, a window of 4 ticks and 3 ticks to the second (so the
\* rounding to seconds is not exact): the clock runs over two whole windows
\* and past a third opening.
SPECIFICATION Spec
CONSTANTS
    Keys = {k1, k2}
    LimitArg = 2
    Window = 4
    TicksPerSecond = 3
    MaxTime = 8
SYMMETRY KeySymmetry
INVARIANTS TypeOK SlidingBound NoFalseRefusal RetryHonoured RetryNextSecond
