CONSTANTS
    M = 32
    ALT_US = 12
    tick_rate = 3
    Seconds = {0, 20}
SPECIFICATION Spec
INVARIANT SetThenGet
